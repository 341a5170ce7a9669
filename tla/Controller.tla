----------------------------- MODULE Controller -----------------------------
(***************************************************************************)
(* The duty controller of src/curve.rs: struct Controller with its three   *)
(* entry points decide (a temperature looked up on the curve),             *)
(* decide_target (a duty fused from several signals) and force (the        *)
(* fallback).  It holds the fan still against noise and limits how far one *)
(* tick may move it.                                                       *)
(*                                                                         *)
(* `decision' is the value the last call returned; the loop writes it to   *)
(* the hub when it is not None.                                            *)
(***************************************************************************)
EXTENDS Curve

CONSTANTS
  Graph,           \* the configured curve
  Temps,           \* control temperatures the sensors can report
  Targets,         \* duties the fusion mode can ask for
  HysteresisC,     \* hysteresis_c
  MinDutyDelta,    \* min_duty_delta
  MaxStep,         \* max_step_per_tick
  FallbackDuty,    \* fallback_duty
  None,            \* Option::None
  NaN              \* f64::NAN, the initial last_temp

(* Config::validate's constraints on these knobs.                          *)
ASSUME GraphAssumption  == ValidCurve(Graph)
ASSUME InputAssumption  == Temps \subseteq Int /\ Targets \subseteq Duty
ASSUME KnobAssumption   == /\ HysteresisC \in Nat
                           /\ MinDutyDelta \in 0..255
                           /\ MaxStep \in 1..255
                           /\ FallbackDuty \in Duty
ASSUME AbsentAssumption == None \notin Int /\ NaN \notin Int /\ None # NaN

VARIABLES
  lastDuty,        \* last_duty: the duty last decided or forced
  lastTemp,        \* last_temp: the temperature of the last decision not held
  decision         \* what the last decide, decide_target or force returned

ctlVars == <<lastDuty, lastTemp, decision>>

Abs(n)  == IF n < 0 THEN -n ELSE n
Gap(target) == Abs(target - lastDuty)

Target(t) == Interpolate(Graph, t)

CtlInit ==                                              \* Controller::new
  /\ lastDuty = None
  /\ lastTemp = NaN
  /\ decision = None

----------------------------------------------------------------------------
(* step_toward.  `temp' is None when the caller is decide_target.  A       *)
(* comparison with NaN is false, so an unset last_temp never counts as     *)
(* moved.                                                                  *)

TempMoved(temp) ==
  /\ temp # None
  /\ lastTemp # NaN
  /\ Abs(temp - lastTemp) >= HysteresisC

Quiet(target, temp) ==
  /\ lastDuty # None
  /\ ~TempMoved(temp)
  /\ Gap(target) < MinDutyDelta

Remember(temp) == lastTemp' = IF temp = None THEN lastTemp ELSE temp

FirstDecision(target, temp) ==
  /\ lastDuty = None
  /\ lastDuty' = target
  /\ decision' = target
  /\ Remember(temp)

(* Faulty variant: a held call moves the reference temperature along.      *)
HoldRemembering(target, temp) ==
  /\ Quiet(target, temp)
  /\ decision' = None
  /\ Remember(temp)
  /\ UNCHANGED lastDuty

Hold(target, temp) ==                 \* returns without touching last_temp
  /\ Quiet(target, temp)
  /\ decision' = None
  /\ UNCHANGED <<lastDuty, lastTemp>>

AtTarget(target, temp) ==
  /\ lastDuty = target
  /\ ~Quiet(target, temp)
  /\ decision' = None
  /\ Remember(temp)
  /\ UNCHANGED lastDuty

(* Faulty variant: the last step is not cut to the gap.                    *)
SlewUncut(target, temp) ==
  /\ lastDuty \notin {None, target}
  /\ ~Quiet(target, temp)
  /\ lastDuty' = IF target > lastDuty THEN lastDuty + MaxStep
                                      ELSE lastDuty - MaxStep
  /\ decision' = lastDuty'
  /\ Remember(temp)

Slew(target, temp) ==
  /\ lastDuty \notin {None, target}
  /\ ~Quiet(target, temp)
  /\ LET step == IF Gap(target) < MaxStep THEN Gap(target) ELSE MaxStep
     IN  lastDuty' = IF target > lastDuty THEN lastDuty + step
                                          ELSE lastDuty - step
  /\ decision' = lastDuty'
  /\ Remember(temp)

StepToward(target, temp) ==
  \/ FirstDecision(target, temp)
  \/ Hold(target, temp)
  \/ AtTarget(target, temp)
  \/ Slew(target, temp)

----------------------------------------------------------------------------
Decide(t) == StepToward(Target(t), t)

DecideTarget(d) == StepToward(d, None)

(* Faulty variants: the loop applies the fallback behind the controller's  *)
(* back; the fallback is applied only when it is news to the controller.   *)
ForceBypassed ==
  /\ decision' = FallbackDuty
  /\ UNCHANGED <<lastDuty, lastTemp>>

ForceOnce ==
  /\ lastDuty' = FallbackDuty
  /\ decision' = IF lastDuty = FallbackDuty THEN None ELSE FallbackDuty
  /\ UNCHANGED lastTemp

(* The loop's fallback arm: ctl.force(fallback_duty), then that duty is    *)
(* the decision.  last_temp is left alone.                                 *)
ForceDuty ==
  /\ lastDuty' = FallbackDuty
  /\ decision' = FallbackDuty
  /\ UNCHANGED lastTemp
=============================================================================

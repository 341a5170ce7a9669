------------------------------ MODULE Tracking ------------------------------
(***************************************************************************)
(* The controller of Controller.tla driven by an arbitrary sequence of the *)
(* calls main.rs makes: decide, decide_target and force.  Three history    *)
(* variables record what was asked so that the properties can speak of     *)
(* more than one call.                                                     *)
(***************************************************************************)
EXTENDS Controller

VARIABLES
  call,            \* the last call and its argument
  demand,          \* history: the duty the last call aimed for
  base             \* history: temperature at which the fan last moved, None
                   \* once it has been found on target or moved otherwise

vars == <<lastDuty, lastTemp, decision, call, demand, base>>

Init ==
  /\ CtlInit
  /\ call = [kind |-> "none"]
  /\ demand = None
  /\ base = None

CallDecide(t) ==
  /\ Decide(t)
  /\ call' = [kind |-> "decide", temp |-> t]
  /\ demand' = Target(t)
  /\ base' = IF decision' # None THEN t
             ELSE IF lastDuty = Target(t) THEN None ELSE base

CallDecideTarget(d) ==
  /\ DecideTarget(d)
  /\ call' = [kind |-> "target", duty |-> d]
  /\ demand' = d
  /\ base' = None

CallForce ==
  /\ ForceDuty
  /\ call' = [kind |-> "force"]
  /\ demand' = FallbackDuty
  /\ base' = None

Next == \/ \E t \in Temps : CallDecide(t)
        \/ \E d \in Targets : CallDecideTarget(d)
        \/ CallForce

Spec == Init /\ [][Next]_vars

(* The loop calls the controller once per tick for as long as it runs, so  *)
(* a reading that does not change is handed to it again.                   *)
Repeat == \/ call.kind = "decide" /\ CallDecide(call.temp)
          \/ call.kind = "target" /\ CallDecideTarget(call.duty)
          \/ call.kind = "force" /\ CallForce
FairSpec == Spec /\ WF_vars(Repeat)

----------------------------------------------------------------------------
(* Type correctness: the u8 duty stays a percentage, so that last + step   *)
(* and last - step of step_toward never leave 0..=100.                     *)
TypeOK ==
  /\ lastDuty \in Duty \cup {None}
  /\ lastTemp \in Temps \cup {NaN}
  /\ decision \in Duty \cup {None}
  /\ call \in [kind : {"none", "force"}] \cup [kind : {"decide"}, temp : Temps]
               \cup [kind : {"target"}, duty : Targets]
  /\ demand \in Duty \cup {None}
  /\ base \in Temps \cup {None}

(* Slow drift is caught.  However many calls in a row were held off        *)
(* target, a temperature that has moved HysteresisC away from where the    *)
(* fan last moved makes the fan move, unless it is on target already.      *)
(* This is what the hold's refusal to update last_temp is for.             *)
NoUnnoticedDrift ==
  [][\A t \in Temps :
       (call' = [kind |-> "decide", temp |-> t] /\ base # None
          /\ Abs(t - base) >= HysteresisC)
       => (decision' # None \/ lastDuty' = Target(t))]_vars

(* Between two forced duties, changing the demand never reverses, stalls   *)
(* or overshoots the ramp: the controller implements FanRamp.              *)
Ramp == INSTANCE FanRamp WITH duty <- lastDuty, demand <- demand,
                              Step <- MaxStep, Slack <- MinDutyDelta,
                              Fallback <- FallbackDuty, Unset <- None
ImplementsFanRamp == Ramp!RampSpec

(* A steady demand is reached: if the calls keep asking for the same duty, *)
(* the fan ends within MinDutyDelta of it (exactly on it when MinDutyDelta *)
(* is 0) and no further write is asked for.                                *)
SettledOn(d) == /\ decision = None
                /\ lastDuty # None
                /\ lastDuty = d \/ Gap(d) < MinDutyDelta
SteadyDemandSettles ==
  \A d \in Targets \cup {Target(t) : t \in Temps} :
    <>[](call.kind # "force" /\ demand = d) => <>[]SettledOn(d)
=============================================================================

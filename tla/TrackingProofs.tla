--------------------------- MODULE TrackingProofs ---------------------------
(***************************************************************************)
(* The duty controller keeps its promises under every sequence of calls:   *)
(* types, the ramp of FanRamp, and the detection of slow drift.            *)
(***************************************************************************)
EXTENDS Tracking, CurveProofs

----------------------------------------------------------------------------
(* One call of the controller.                                             *)

(* The curve's answer to any control temperature is a percentage.          *)
LEMMA TargetInRange == \A t \in Temps : Target(t) \in Duty
<1> SUFFICES ASSUME NEW t \in Temps PROVE Target(t) \in Duty
  OBVIOUS
<1>1. t \in Int
  BY InputAssumption
<1> QED BY <1>1, GraphAssumption, InterpolateInRange DEF Target

CtlTypeOK ==
  /\ lastDuty \in Duty \cup {None}
  /\ lastTemp \in Temps \cup {NaN}
  /\ decision \in Duty \cup {None}

(* One step_toward: the duty walks toward the target, at most MaxStep, and *)
(* neither past it nor away from it; a returned duty is the new one.       *)
LEMMA StepTowardWalks ==
  ASSUME CtlTypeOK, NEW target \in Duty, NEW temp \in Temps \cup {None},
         StepToward(target, temp)
  PROVE  /\ CtlTypeOK'
         /\ lastDuty' \in Duty
         /\ decision' \in {lastDuty', None}
         /\ lastDuty = None => lastDuty' = target /\ decision' = target
         /\ lastDuty # None =>
              /\ \/ lastDuty <= lastDuty' /\ lastDuty' <= target
                 \/ target <= lastDuty' /\ lastDuty' <= lastDuty
              /\ lastDuty' - lastDuty <= MaxStep
              /\ lastDuty - lastDuty' <= MaxStep
              /\ decision' = None => lastDuty' = lastDuty
<1>1. /\ None \notin Duty
      /\ target \in 0..100 /\ target # None
      /\ lastDuty # None => lastDuty \in 0..100
      /\ MaxStep \in 1..255
  BY AbsentAssumption, KnobAssumption DEF CtlTypeOK, Duty
<1>2. CASE FirstDecision(target, temp)
  BY <1>1, <1>2 DEF FirstDecision, Remember, CtlTypeOK
<1>3. CASE Hold(target, temp)
  BY <1>1, <1>3 DEF Hold, Quiet, CtlTypeOK, Duty
<1>4. CASE AtTarget(target, temp)
  BY <1>1, <1>4 DEF AtTarget, Remember, CtlTypeOK, Duty
<1>5. CASE Slew(target, temp)
  <2>1. lastDuty \in Duty /\ lastDuty # target
    BY <1>1, <1>5 DEF Slew, CtlTypeOK
  <2>2. /\ lastDuty' \in 0..100
        /\ \/ lastDuty <= lastDuty' /\ lastDuty' <= target
           \/ target <= lastDuty' /\ lastDuty' <= lastDuty
        /\ lastDuty' - lastDuty <= MaxStep /\ lastDuty - lastDuty' <= MaxStep
    <3> DEFINE gap  == IF target - lastDuty < 0
                       THEN -(target - lastDuty) ELSE target - lastDuty
               step == IF gap < MaxStep THEN gap ELSE MaxStep
               next == IF target > lastDuty THEN lastDuty + step ELSE lastDuty - step
    <3>1. lastDuty' = next
      BY <1>5 DEF Slew, Gap, Abs
    <3>2. /\ next \in Duty
          /\ \/ lastDuty <= next /\ next <= target
             \/ target <= next /\ next <= lastDuty
          /\ next - lastDuty <= MaxStep /\ lastDuty - next <= MaxStep
      BY <1>1, <2>1, SlewBetween
    <3> HIDE DEF next
    <3> QED BY <3>1, <3>2 DEF Duty
  <2>3. decision' = lastDuty' /\ lastTemp' \in Temps \cup {NaN}
    BY <1>5 DEF Slew, Remember, CtlTypeOK
  <2>4. decision' # None
    BY <1>1, <2>2, <2>3 DEF Duty
  <2>5. CtlTypeOK'
    BY <2>2, <2>3 DEF CtlTypeOK, Duty
  <2>6. lastDuty' \in Duty
    BY <2>2 DEF Duty
  <2>7. decision' \in {lastDuty', None}
    BY <2>3
  <2>8. lastDuty # None
    BY <1>1, <2>1
  <2> QED BY <2>2, <2>4, <2>5, <2>6, <2>7, <2>8
<1> QED BY <1>2, <1>3, <1>4, <1>5 DEF StepToward

(* The fallback is a percentage and becomes the controller's own duty.     *)
LEMMA ForceSets ==
  ASSUME CtlTypeOK, ForceDuty
  PROVE  /\ CtlTypeOK'
         /\ lastDuty' = FallbackDuty /\ decision' = FallbackDuty
         /\ FallbackDuty \in Duty /\ FallbackDuty # None
<1>1. FallbackDuty \in Duty /\ FallbackDuty # None
  BY AbsentAssumption, KnobAssumption DEF Duty
<1> QED BY <1>1 DEF ForceDuty, CtlTypeOK

----------------------------------------------------------------------------

(* What ties the history variable to the controller's own memory: while    *)
(* the fan has not been found on target since it moved, last_temp is the   *)
(* temperature it moved at, however many calls were held.                  *)
DriftInv == base # None => lastTemp = base

(* The inductive invariant.  TypeOK alone is inductive; DriftInv rests on  *)
(* it.                                                                     *)
IInv == TypeOK /\ DriftInv

(* The effect of each kind of call on the inductive invariant.             *)
LEMMA CallTypes ==
  ASSUME TypeOK, Next
  PROVE  TypeOK'
<1>1. CtlTypeOK
  BY DEF TypeOK, CtlTypeOK
<1>2. CASE \E t \in Temps : CallDecide(t)
  <2>1. PICK t \in Temps : CallDecide(t)
    BY <1>2
  <2>2. Target(t) \in Duty
    BY TargetInRange
  <2>3. CtlTypeOK'
    BY <1>1, <2>1, <2>2, StepTowardWalks DEF CallDecide, Decide
  <2> QED BY <2>1, <2>2, <2>3 DEF CallDecide, TypeOK, CtlTypeOK
<1>3. CASE \E d \in Targets : CallDecideTarget(d)
  <2>1. PICK d \in Targets : CallDecideTarget(d)
    BY <1>3
  <2>2. d \in Duty
    BY InputAssumption
  <2>3. CtlTypeOK'
    BY <1>1, <2>1, <2>2, StepTowardWalks DEF CallDecideTarget, DecideTarget
  <2> QED BY <2>1, <2>2, <2>3 DEF CallDecideTarget, TypeOK, CtlTypeOK
<1>4. CASE CallForce
  <2>1. CtlTypeOK' /\ FallbackDuty \in Duty
    BY <1>1, <1>4, ForceSets DEF CallForce
  <2> QED BY <1>4, <2>1 DEF CallForce, TypeOK, CtlTypeOK
<1> QED BY <1>2, <1>3, <1>4 DEF Next

LEMMA CallKeepsDrift ==
  ASSUME TypeOK, DriftInv, Next
  PROVE  DriftInv'
<1>1. CASE \E t \in Temps : CallDecide(t)
  <2>1. PICK t \in Temps : CallDecide(t)
    BY <1>1
  <2>2. t # None
    BY AbsentAssumption, InputAssumption
  <2>3. CASE FirstDecision(Target(t), t) \/ Slew(Target(t), t)
    <3>1. lastTemp' = t
      BY <2>2, <2>3 DEF FirstDecision, Slew, Remember
    <3>2. lastDuty' \in Duty /\ decision' = lastDuty'
      <4>1. CtlTypeOK /\ Target(t) \in Duty
        BY TargetInRange DEF TypeOK, CtlTypeOK
      <4>2. lastDuty' \in Duty
        BY <2>1, <4>1, StepTowardWalks DEF CallDecide, Decide
      <4> QED BY <2>3, <4>2 DEF FirstDecision, Slew
    <3>3. decision' # None
      BY <3>2, AbsentAssumption DEF Duty
    <3> QED BY <2>1, <3>1, <3>3 DEF CallDecide, DriftInv
  <2>4. CASE Hold(Target(t), t)
    BY <2>1, <2>4 DEF Hold, CallDecide, DriftInv
  <2>5. CASE AtTarget(Target(t), t)
    BY <2>1, <2>5 DEF AtTarget, CallDecide, DriftInv
  <2> QED BY <2>1, <2>3, <2>4, <2>5 DEF CallDecide, Decide, StepToward
<1>2. CASE \E d \in Targets : CallDecideTarget(d)
  BY <1>2 DEF CallDecideTarget, DriftInv
<1>3. CASE CallForce
  BY <1>3 DEF CallForce, DriftInv
<1> QED BY <1>1, <1>2, <1>3 DEF Next

LEMMA Invariance == Spec => []IInv
<1>1. Init => IInv
  BY DEF Init, CtlInit, IInv, TypeOK, DriftInv
<1>2. IInv /\ [Next]_vars => IInv'
  <2> SUFFICES ASSUME IInv, [Next]_vars PROVE IInv'
    OBVIOUS
  <2>1. CASE Next
    BY <2>1, CallTypes, CallKeepsDrift DEF IInv
  <2>2. CASE UNCHANGED vars
    BY <2>2 DEF vars, IInv, TypeOK, DriftInv
  <2> QED BY <2>1, <2>2
<1> QED BY <1>1, <1>2, PTL DEF Spec

(* The duty is always a percentage, so last + step and last - step of      *)
(* step_toward never leave the range of a u8 percentage.                   *)
THEOREM TypeCorrect == Spec => []TypeOK
<1>1. IInv => TypeOK
  BY DEF IInv
<1> QED BY <1>1, Invariance, PTL

(* Slow drift is caught: a temperature HysteresisC away from where the fan *)
(* last moved is never held off target.                                    *)
THEOREM DriftCaught == Spec => NoUnnoticedDrift
<1> DEFINE Caught == \A t \in Temps :
             (call' = [kind |-> "decide", temp |-> t] /\ base # None
                /\ Abs(t - base) >= HysteresisC)
             => (decision' # None \/ lastDuty' = Target(t))
<1>1. IInv /\ [Next]_vars => [Caught]_vars
  <2> SUFFICES ASSUME IInv, Next, NEW t \in Temps,
                      call' = [kind |-> "decide", temp |-> t],
                      base # None, Abs(t - base) >= HysteresisC,
                      decision' = None
               PROVE  lastDuty' = Target(t)
    OBVIOUS
  <2>1. CallDecide(t)
    BY DEF Next, CallDecide, CallDecideTarget, CallForce
  <2>2. TempMoved(t)
    <3>1. lastTemp = base /\ base \in Temps
      BY DEF IInv, DriftInv, TypeOK
    <3>2. t # None /\ lastTemp # NaN
      BY <3>1, InputAssumption, AbsentAssumption
    <3> QED BY <3>1, <3>2 DEF TempMoved
  <2>3. CtlTypeOK /\ Target(t) \in Duty
    BY TargetInRange DEF IInv, TypeOK, CtlTypeOK
  <2>4. /\ lastDuty' \in Duty
        /\ StepToward(Target(t), t)
    BY <2>1, <2>3, StepTowardWalks DEF CallDecide, Decide
  <2>5. lastDuty' # None /\ Target(t) # None
    BY <2>3, <2>4, AbsentAssumption DEF Duty
  <2>6. AtTarget(Target(t), t)
    BY <2>2, <2>4, <2>5 DEF StepToward, FirstDecision, Hold, Slew, Quiet
  <2> QED BY <2>6 DEF AtTarget
<1> QED BY <1>1, Invariance, PTL DEF Spec, NoUnnoticedDrift

(* The two ways of measuring how far the fan is from a duty.               *)
LEMMA GapIsDistance ==
  ASSUME NEW a \in Duty, NEW d \in Duty
  PROVE  /\ Ramp!Distance(a, d) \in 0..100
         /\ Abs(d - a) = Ramp!Distance(a, d)
BY DEF Ramp!Distance, Abs, Duty

(* One call of step_toward for d starts the ramp, rests or advances: a     *)
(* held call rests inside the slack, an unheld one on the duty asked for.  *)
LEMMA StepIsRamp ==
  ASSUME CtlTypeOK, NEW d \in Duty, NEW temp \in Temps \cup {None},
         StepToward(d, temp), demand' = d
  PROVE  Ramp!Start(d) \/ Ramp!Rest(d) \/ Ramp!Advance(d)
<1>1. lastDuty = None \/ lastDuty \in Duty
  BY DEF CtlTypeOK
<1>2. None \notin Duty
  BY AbsentAssumption DEF Duty
<1>3. lastDuty # None => Gap(d) = Ramp!Distance(lastDuty, d)
  BY <1>1, GapIsDistance DEF Gap
<1>4. CASE FirstDecision(d, temp)
  BY <1>4 DEF FirstDecision, Ramp!Start
<1>5. CASE Hold(d, temp)
  BY <1>3, <1>5 DEF Hold, Quiet, Ramp!Rest
<1>6. CASE AtTarget(d, temp)
  BY <1>2, <1>6 DEF AtTarget, Ramp!Rest
<1>7. CASE Slew(d, temp)
  <2>1. lastDuty \in Duty /\ lastDuty # d
    BY <1>1, <1>7 DEF Slew
  <2>2. (d > lastDuty) <=> (lastDuty < d)
    BY <2>1 DEF Duty
  <2>3. lastDuty' = IF lastDuty < d THEN lastDuty + Ramp!Stride(d)
                                    ELSE lastDuty - Ramp!Stride(d)
    BY <1>2, <1>3, <1>7, <2>1, <2>2 DEF Slew, Ramp!Stride
  <2> QED BY <1>2, <2>1, <2>3 DEF Ramp!Advance
<1> QED BY <1>4, <1>5, <1>6, <1>7 DEF StepToward

(* Every call maps to a step of the ramp.                                  *)
LEMMA CallIsRamp ==
  ASSUME CtlTypeOK, Next
  PROVE  \/ \E d \in Duty : Ramp!Start(d) \/ Ramp!Rest(d) \/ Ramp!Advance(d)
         \/ Ramp!Panic
<1>1. CASE \E t \in Temps : CallDecide(t)
  <2>1. PICK t \in Temps : CallDecide(t)
    BY <1>1
  <2>2. Target(t) \in Duty
    BY TargetInRange
  <2> QED BY <2>1, <2>2, StepIsRamp DEF CallDecide, Decide
<1>2. CASE \E d \in Targets : CallDecideTarget(d)
  <2>1. PICK d \in Targets : CallDecideTarget(d)
    BY <1>2
  <2>2. d \in Duty
    BY InputAssumption
  <2> QED BY <2>1, <2>2, StepIsRamp DEF CallDecideTarget, DecideTarget
<1>3. CASE CallForce
  BY <1>3 DEF CallForce, ForceDuty, Ramp!Panic
<1> QED BY <1>1, <1>2, <1>3 DEF Next

(* The controller implements FanRamp: between forced duties the fan goes   *)
(* toward what is asked by a full stride, never past it, and rests only    *)
(* within MinDutyDelta of it.                                              *)
THEOREM RampImplemented == Spec => ImplementsFanRamp
<1>1. Init => Ramp!RampInit
  BY DEF Init, CtlInit, Ramp!RampInit
<1>2. IInv /\ [Next]_vars => [Ramp!RampNext]_(Ramp!rampVars)
  <2> SUFFICES ASSUME IInv, [Next]_vars
               PROVE  Ramp!RampNext \/ UNCHANGED Ramp!rampVars
    OBVIOUS
  <2>1. CASE Next
    <3>1. CtlTypeOK
      BY DEF IInv, TypeOK, CtlTypeOK
    <3> QED BY <2>1, <3>1, CallIsRamp DEF Ramp!RampNext, Duty
  <2>2. CASE UNCHANGED vars
    BY <2>2 DEF vars, Ramp!rampVars
  <2> QED BY <2>1, <2>2
<1> QED BY <1>1, <1>2, Invariance, PTL
       DEF Spec, ImplementsFanRamp, Ramp!RampSpec

----------------------------------------------------------------------------

(* The safety half of SteadyDemandSettles, as a ranking: no call turns the *)
(* fan away from the duty it asks for.  A call brings it strictly closer,  *)
(* or leaves it settled there with nothing to write.  The distance is at   *)
(* most 100 and never grows while the demand stays the same, so only       *)
(* fairness of the calls is left to the model checker.                     *)
Closer(d) == Ramp!Distance(lastDuty', d) < Ramp!Distance(lastDuty, d)

EachCallClosesIn ==
  [][(lastDuty # None /\ call'.kind # "force")
       => \/ Closer(demand')
          \/ lastDuty' = lastDuty /\ SettledOn(demand)']_vars

LEMMA AdvanceIsCloser ==
  ASSUME NEW d \in Duty, lastDuty \in Duty, Ramp!Advance(d)
  PROVE  Closer(d)
<1>1. /\ Ramp!Distance(lastDuty, d) \in 1..100
      /\ Ramp!Stride(d) \in 1..100 /\ Ramp!Stride(d) <= Ramp!Distance(lastDuty, d)
  BY KnobAssumption DEF Ramp!Advance, Ramp!Stride, Ramp!Distance, Duty
<1>2. lastDuty' = IF lastDuty < d THEN lastDuty + Ramp!Stride(d)
                                  ELSE lastDuty - Ramp!Stride(d)
  BY DEF Ramp!Advance
<1>3. Ramp!Stride(d) <= IF lastDuty < d THEN d - lastDuty ELSE lastDuty - d
  BY <1>1 DEF Ramp!Distance
<1> QED BY <1>1, <1>2, <1>3 DEF Closer, Ramp!Distance, Duty

LEMMA StepClosesIn ==
  ASSUME CtlTypeOK, NEW d \in Duty, NEW temp \in Temps \cup {None},
         StepToward(d, temp), demand' = d, lastDuty # None
  PROVE  Closer(d) \/ (lastDuty' = lastDuty /\ SettledOn(d)')
<1>1. lastDuty \in Duty
  BY DEF CtlTypeOK
<1>2. CASE Hold(d, temp)
  BY <1>2 DEF Hold, Quiet, SettledOn, Gap
<1>3. CASE AtTarget(d, temp)
  BY <1>3 DEF AtTarget, SettledOn
<1>4. CASE Slew(d, temp)
  <2>1. ~Ramp!Start(d)
    BY DEF Ramp!Start
  <2>2. CASE Ramp!Rest(d)
    <3>1. lastDuty' \in Duty /\ lastDuty' = lastDuty /\ lastDuty # d
      BY <1>1, <1>4, <2>2 DEF Slew, Ramp!Rest
    <3>2. lastDuty' # lastDuty
      <4>1. Gap(d) \in 1..100
        BY <1>1, <3>1 DEF Gap, Abs, Duty
      <4>2. MaxStep \in 1..255
        BY KnobAssumption
      <4> QED BY <1>1, <1>4, <4>1, <4>2 DEF Slew, Duty
    <3> QED BY <3>1, <3>2
  <2>3. CASE Ramp!Advance(d)
    BY <1>1, <2>3, AdvanceIsCloser
  <2> QED BY <2>1, <2>2, <2>3, StepIsRamp
<1>5. ~FirstDecision(d, temp)
  BY DEF FirstDecision
<1> QED BY <1>2, <1>3, <1>4, <1>5 DEF StepToward

(* Every call but force settles the fan or brings it strictly closer to    *)
(* the duty asked for.                                                     *)
THEOREM ClosesIn == Spec => EachCallClosesIn
<1> DEFINE Closes == (lastDuty # None /\ call'.kind # "force")
                       => \/ Closer(demand')
                          \/ lastDuty' = lastDuty /\ SettledOn(demand)'
<1>1. IInv /\ [Next]_vars => [Closes]_vars
  <2> SUFFICES ASSUME IInv, Next, lastDuty # None, call'.kind # "force"
               PROVE  \/ Closer(demand')
                      \/ lastDuty' = lastDuty /\ SettledOn(demand)'
    OBVIOUS
  <2>1. CtlTypeOK
    BY DEF IInv, TypeOK, CtlTypeOK
  <2>2. \E d \in Duty, temp \in Temps \cup {None} :
          StepToward(d, temp) /\ demand' = d
    <3>1. CASE \E t \in Temps : CallDecide(t)
      BY <3>1, TargetInRange DEF CallDecide, Decide
    <3>2. CASE \E d \in Targets : CallDecideTarget(d)
      BY <3>2, InputAssumption DEF CallDecideTarget, DecideTarget
    <3>3. ~CallForce
      BY DEF CallForce
    <3> QED BY <3>1, <3>2, <3>3 DEF Next
  <2>3. PICK d \in Duty, temp \in Temps \cup {None} :
          StepToward(d, temp) /\ demand' = d
    BY <2>2
  <2>4. Closer(d) \/ (lastDuty' = lastDuty /\ SettledOn(d)')
    BY <2>1, <2>3, StepClosesIn
  <2>5. SettledOn(d)' => SettledOn(demand)'
    BY <2>3 DEF SettledOn, Gap
  <2> QED BY <2>3, <2>4, <2>5
<1> QED BY <1>1, Invariance, PTL DEF Spec, EachCallClosesIn
=============================================================================

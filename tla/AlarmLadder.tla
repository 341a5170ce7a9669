---------------------------- MODULE AlarmLadder ----------------------------
(***************************************************************************)
(* The alarm ladder of src/alarm.rs, ticked once per loop iteration by     *)
(* main.rs 735-747.  Rungs, lowest first: Normal, SustainedHot, NearLimit, *)
(* Fault.  A rung is climbed at once and left only after its own trigger   *)
(* has been clear for a cooldown.                                          *)
(*                                                                         *)
(* Real time passes in units of 1/UnitsPerSec second.  The machine is told *)
(* whole seconds (Duration::as_secs): the fraction is dropped, and main.rs *)
(* starts the next interval at the same instant.                           *)
(*                                                                         *)
(* Abstraction: the inputs of a tick are what tick_with compares:          *)
(*   fault  fallback_active;                                               *)
(*   near   duty >= 100, a control temperature within the margin of the    *)
(*          curve's top, a thin reported margin or a thermal throttle;     *)
(*   heat   "hot" or "cool" against sustained_hot_c, "unknown" when there  *)
(*          is no control temperature;                                     *)
(*   after  the real time since the tick before.                           *)
(***************************************************************************)
EXTENDS Integers

CONSTANTS
  SustainedAfter,  \* sustained_after_secs
  EscalateEvery,   \* escalate_every_secs
  Cooldown,        \* cooldown_secs
  SecsMax,         \* where the second counters saturate, for u64::MAX
  UnitsPerSec,     \* resolution of real time
  Intervals,       \* real time between two ticks, in units
  RealMax          \* bound on the history variables, in units

(* What Config::validate asks of an enabled ladder; and a tick takes at    *)
(* least its poll interval, which is at least a second.                    *)
ASSUME AlarmAssumption ==
  /\ SustainedAfter \in Nat /\ SustainedAfter > 0
  /\ EscalateEvery \in Nat /\ EscalateEvery > 0
  /\ Cooldown \in Nat /\ Cooldown > 0
  /\ SecsMax \in Nat /\ SecsMax >= SustainedAfter /\ SecsMax >= Cooldown
  /\ UnitsPerSec \in Nat /\ UnitsPerSec > 0
  /\ Intervals \subseteq Nat /\ \A d \in Intervals : d >= UnitsPerSec
  /\ RealMax \in Nat /\ RealMax >= SecsMax * UnitsPerSec
                     /\ RealMax >= 2 * Cooldown * UnitsPerSec

Normal       == 0
SustainedHot == 1
NearLimit    == 2
Fault        == 3

Heat == {"hot", "cool", "unknown"}

VARIABLES
  state,           \* the rung shown
  hotSecs,         \* hot_secs
  inStateSecs,     \* in_state_secs
  clearSecs,       \* clear_secs
  ticking,         \* the loop has been entered
  input,           \* what the last tick was told
  \* history, in units of real time
  quiet,           \* since the trigger of the rung shown was last seen true
  hot              \* the temperature has been hot for, since the last cool
                   \* reading and not counting ticks without a reading

vars == <<state, hotSecs, inStateSecs, clearSecs, ticking, input, quiet, hot>>

----------------------------------------------------------------------------
Plus(a, b, max) == IF a + b < max THEN a + b ELSE max     \* saturating_add

Elapsed(d) == d \div UnitsPerSec                          \* as_secs

(* Faulty variants: hot_secs keeps counting while there is no reading, or  *)
(* a tick without a reading ends the spell.                                *)
HeatedBlindly(in, secs) ==
  IF in.heat = "cool" THEN 0 ELSE Plus(hotSecs, secs, SecsMax)

HeatedForgetful(in, secs) ==
  IF in.heat = "hot" THEN Plus(hotSecs, secs, SecsMax) ELSE 0

(* hot_secs accumulates, resets, or freezes while the temperature is not   *)
(* known; it does so whatever rung is shown.                               *)
Heated(in, secs) ==
  CASE in.heat = "hot"     -> Plus(hotSecs, secs, SecsMax)
    [] in.heat = "cool"    -> 0
    [] in.heat = "unknown" -> hotSecs

Sustained(heated) == heated >= SustainedAfter

EnterState(rung) ==
  /\ state' = rung
  /\ inStateSecs' = 0
  /\ clearSecs' = 0

(* The three escalations, in the code's order.                             *)
ToFault(in)             == in.fault /\ state # Fault
ToNearLimit(in)         == ~in.fault /\ in.near /\ state < NearLimit
ToSustained(in, heated) == /\ ~in.fault /\ ~in.near
                           /\ Sustained(heated) /\ state < SustainedHot

Escalate(in, heated) ==
  \/ ToFault(in) /\ EnterState(Fault)
  \/ ToNearLimit(in) /\ EnterState(NearLimit)
  \/ ToSustained(in, heated) /\ EnterState(SustainedHot)

Escalating(in, heated) ==
  ToFault(in) \/ ToNearLimit(in) \/ ToSustained(in, heated)

(* The trigger of the rung shown.                                          *)
StillHolds(in, heated) ==
  \/ state = Fault        /\ in.fault
  \/ state = NearLimit    /\ in.near
  \/ state = SustainedHot /\ Sustained(heated)
  \/ state = Normal

(* Faulty variant: a renewed trigger does not restart the cooldown.        *)
PersistKeepingClear(in, heated, secs) ==
  /\ StillHolds(in, heated)
  /\ inStateSecs' = Plus(inStateSecs, secs, SecsMax)
  /\ UNCHANGED <<state, clearSecs>>

Persist(in, heated, secs) ==
  /\ StillHolds(in, heated)
  /\ clearSecs' = 0
  /\ inStateSecs' = Plus(inStateSecs, secs, SecsMax)
  /\ UNCHANGED state

(* Faulty variants: the dwell starts over when the trigger clears; the     *)
(* spell without a trigger is not added up; a spell of exactly the         *)
(* cooldown does not end it.                                               *)
CoolDownRestarting(in, heated, secs) ==
  /\ ~StillHolds(in, heated)
  /\ Plus(clearSecs, secs, SecsMax) < Cooldown
  /\ clearSecs' = Plus(clearSecs, secs, SecsMax)
  /\ inStateSecs' = 0
  /\ UNCHANGED state

CoolDownForgetful(in, heated, secs) ==
  /\ ~StillHolds(in, heated)
  /\ Plus(clearSecs, secs, SecsMax) < Cooldown
  /\ clearSecs' = secs
  /\ inStateSecs' = Plus(inStateSecs, secs, SecsMax)
  /\ UNCHANGED state

CoolDownInclusive(in, heated, secs) ==
  /\ ~StillHolds(in, heated)
  /\ Plus(clearSecs, secs, SecsMax) <= Cooldown
  /\ clearSecs' = Plus(clearSecs, secs, SecsMax)
  /\ inStateSecs' = Plus(inStateSecs, secs, SecsMax)
  /\ UNCHANGED state

CoolDown(in, heated, secs) ==
  /\ ~StillHolds(in, heated)
  /\ Plus(clearSecs, secs, SecsMax) < Cooldown
  /\ clearSecs' = Plus(clearSecs, secs, SecsMax)
  /\ inStateSecs' = Plus(inStateSecs, secs, SecsMax)
  /\ UNCHANGED state

(* Re-evaluate from the top of the rungs below the one that cleared.       *)
StandDown(in, heated, secs) ==
  /\ ~StillHolds(in, heated)
  /\ Plus(clearSecs, secs, SecsMax) >= Cooldown
  /\ EnterState(IF state > NearLimit /\ in.near THEN NearLimit
                ELSE IF state > SustainedHot /\ Sustained(heated)
                     THEN SustainedHot ELSE Normal)

TickWith(in, secs) ==
  LET heated == Heated(in, secs)
  IN  /\ hotSecs' = heated
      /\ \/ Escalate(in, heated)
         \/ /\ ~Escalating(in, heated)
            /\ \/ Persist(in, heated, secs)
               \/ CoolDown(in, heated, secs)
               \/ StandDown(in, heated, secs)

(* Speed index of the NearLimit pulse, from led().                         *)
PulseSpeed == LET steps == inStateSecs \div EscalateEvery
              IN  IF 1 + steps < 4 THEN 1 + steps ELSE 4

----------------------------------------------------------------------------
Init ==                                                 \* AlarmMachine::new
  /\ state = Normal
  /\ hotSecs = 0 /\ inStateSecs = 0 /\ clearSecs = 0
  /\ ticking = FALSE
  /\ input = [fault |-> FALSE, near |-> FALSE, heat |-> "unknown", after |-> 0]
  /\ quiet = 0 /\ hot = 0

(* One tick.  The first one follows the start of the loop at once.         *)
Tick(fault, near, heat) ==
  \E d \in IF ticking THEN Intervals ELSE {0} :
    LET in == [fault |-> fault, near |-> near, heat |-> heat, after |-> d]
    IN  /\ TickWith(in, Elapsed(d))
        /\ ticking' = TRUE
        /\ input' = in
        /\ hot' = CASE heat = "hot"     -> Plus(hot, d, RealMax)
                    [] heat = "cool"    -> 0
                    [] heat = "unknown" -> hot
        /\ quiet' = IF state' # state \/ StillHolds(in, hotSecs') THEN 0
                    ELSE Plus(quiet, d, RealMax)

Next == \E fault, near \in BOOLEAN, heat \in Heat : Tick(fault, near, heat)

Spec == Init /\ [][Next]_vars

(* The loop ticks for as long as it runs; readings that do not change are  *)
(* handed to the machine again.                                            *)
FairSpec == Spec /\ WF_vars(Tick(input.fault, input.near, input.heat))

----------------------------------------------------------------------------
(* Type correctness; clear_secs never reaches the cooldown it waits for,   *)
(* and no counted second exceeds the real time it stands for.              *)
TypeOK ==
  /\ state \in Normal..Fault
  /\ hotSecs \in 0..SecsMax
  /\ inStateSecs \in 0..SecsMax
  /\ clearSecs \in 0..(Cooldown - 1)
  /\ ticking \in BOOLEAN
  /\ input \in [fault : BOOLEAN, near : BOOLEAN, heat : Heat,
                after : Intervals \cup {0}]
  /\ quiet \in 0..RealMax
  /\ hot \in 0..RealMax

(* The highest rung whose trigger was active in the last tick.             *)
Wanted == IF input.fault THEN Fault
          ELSE IF input.near THEN NearLimit
          ELSE IF Sustained(hotSecs) THEN SustainedHot ELSE Normal

(* No trigger is ever masked: after every tick the rung shown is at least  *)
(* the highest one whose trigger is active, whatever rung is cooling down  *)
(* and however rungs were left before.                                     *)
HighestActiveWins == state >= Wanted

(* The ladder implements PriorityLadder: climbs and falls land on the      *)
(* highest active rung, no rung is left before its trigger has been clear  *)
(* for Cooldown seconds of real time, and none is still shown after twice  *)
(* that.  (as_secs drops less than a second of every tick, and a tick      *)
(* takes at least one: the clock shows more than half of the real time.)   *)
Priority == INSTANCE PriorityLadder
              WITH Top <- Fault, Dwell <- Cooldown * UnitsPerSec,
                   Patience <- 2 * Cooldown * UnitsPerSec,
                   shown <- state, wanted <- Wanted, unwanted <- quiet,
                   pace <- input.after
ImplementsPriorityLadder == Priority!LadderSpec

(* SustainedHot is entered only after the temperature has really been hot  *)
(* for SustainedAfter seconds since the last cool reading, ticks without a *)
(* reading not counted.                                                    *)
NoEarlySustained ==
  [][state # SustainedHot /\ state' = SustainedHot
       => hot' >= SustainedAfter * UnitsPerSec]_vars

(* Nor is it entered too late: by the time the temperature has been hot    *)
(* for twice SustainedAfter, ticks without a reading not counted but not   *)
(* held against it either, SustainedHot or a higher rung is shown.         *)
NoLateSustained ==
  hot >= 2 * SustainedAfter * UnitsPerSec => state >= SustainedHot

(* The NearLimit pulse never slows down while NearLimit is shown, a clear  *)
(* spell shorter than the cooldown included.                               *)
PulseNeverSlows ==
  [][state = NearLimit /\ state' = NearLimit => PulseSpeed' >= PulseSpeed]_vars

(* Once the inputs stay calm the ladder comes all the way down, however    *)
(* the whole seconds fall.  (With the temperature unknown for ever it      *)
(* stays on SustainedHot: hot_secs is frozen.)                             *)
StandsDown ==
  <>[](~input.fault /\ ~input.near /\ input.heat = "cool") => <>[](state = Normal)
=============================================================================

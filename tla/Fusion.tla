------------------------------- MODULE Fusion -------------------------------
(***************************************************************************)
(* One tick of the fusion mode, src/signals.rs as main.rs 533-608 drives   *)
(* it: plausibility, smoothing, the throttle latch, and the fusion of the  *)
(* signals' curves and the throttle floor into one duty target; and what   *)
(* the metrics page tells of it, which a scrape reads at any moment.       *)
(*                                                                         *)
(* Simplifications:                                                        *)
(*  - values are integers; a smoothed value and a percentage of the power  *)
(*    limit are rounded down where the code keeps the f64;                 *)
(*  - real time passes in units of 1/UnitsPerSec second, of which the      *)
(*    latch is told the whole seconds (Duration::as_secs);                 *)
(*  - what the sensors answer is arbitrary, tick by tick;                  *)
(*  - of the page, the candidate duties, the one-hot and the floor flag.   *)
(***************************************************************************)
EXTENDS Curve

CONSTANTS
  Kinds,           \* the signals of the configuration, a part of AllKinds
  Enabled,         \* those that are enabled
  OwnCurve,        \* curve of each signal, << >> when it has none
  TopCurve,        \* the top-level [[curve]]
  CpuOffset,       \* signals.cpu_temp.offset_c
  LegacyOffset,    \* cpu_offset at the top level, for the legacy arm only
  PercentTdp,      \* gpu_power.unit = "percent_tdp"
  Rise, Fall,      \* smoothing weights, in parts of Whole
  Whole,
  FloorEnabled,    \* throttle.enabled
  FloorDuty,       \* throttle.floor_duty
  HoldSecs,        \* throttle.hold_secs
  Reasons,         \* throttle.reasons
  Readings,        \* raw readings each sensor may give, None included
  PowerLimits,     \* enforced power limits, None included
  Asserted,        \* sets of throttle reasons the GPU may report
  UnitsPerSec,     \* resolution of real time
  Intervals,       \* real time between two ticks, in units
  RealMax,         \* bound on the history of real time
  None             \* Option::None

AllKinds == {"MemTemp", "ThermalMargin", "GpuTemp", "GpuPower", "CpuTemp"}

(* What Config::validate asks; and a tick takes at least a second.         *)
ASSUME FusionAssumption ==
  /\ Kinds \subseteq AllKinds /\ Enabled \subseteq Kinds
  /\ DOMAIN OwnCurve = Kinds
  /\ \A k \in Kinds : OwnCurve[k] = << >> \/ ValidCurve(OwnCurve[k])
  /\ ValidCurve(TopCurve)
  /\ CpuOffset \in Nat /\ LegacyOffset \in Nat
  /\ PercentTdp \in BOOLEAN /\ FloorEnabled \in BOOLEAN
  /\ Whole \in Nat \ {0}
  /\ DOMAIN Rise = Kinds /\ DOMAIN Fall = Kinds
  /\ \A k \in Kinds : Rise[k] \in 1..Whole /\ Fall[k] \in 1..Whole
  /\ FloorDuty \in Duty
  /\ HoldSecs \in Nat
  /\ DOMAIN Readings = Kinds
  /\ \A k \in Kinds : Readings[k] \subseteq Int \cup {None}
  /\ PowerLimits \subseteq Int \cup {None}
  /\ UnitsPerSec \in Nat \ {0}
  /\ Intervals \subseteq Nat /\ \A d \in Intervals : d >= UnitsPerSec
  /\ RealMax \in Nat /\ RealMax >= 2 * HoldSecs * UnitsPerSec
  /\ None \notin Int /\ None \notin [lo : Int, hi : Int]
  /\ None \notin AllKinds

VARIABLES
  filters,         \* smoothed value of each signal, None before the first
  remaining,       \* ThrottleLatch.remaining_secs
  values,          \* conditioned values of this tick
  powerLimit,      \* gpu_power_limit_w of this tick
  latched,         \* what the latch answered this tick
  frame,           \* signal_candidate_duty and control_signal on the page
  floorActive,     \* throttle_floor_active on the page
  floorDue,        \* the frame is published, the floor flag is not yet
  \* history
  hull,            \* lowest and highest plausible sample of each signal
                   \* since its device was discovered, or None
  since            \* real time since a configured reason was last seen

vars == <<filters, remaining, values, powerLimit, latched,
          frame, floorActive, floorDue, hull, since>>

----------------------------------------------------------------------------
(* plausible(): the physically sane range of each kind.                    *)
Sane(k) == CASE k \in {"MemTemp", "GpuTemp", "CpuTemp"} -> 1..125
             [] k = "GpuPower"                          -> 1..2000
             [] k = "ThermalMargin"                     -> (-40)..200

Sample(k, raw) == IF raw \in Sane(k) THEN raw ELSE None

Ewma(prev, s, weight) == (weight * s + (Whole - weight) * prev) \div Whole

(* AsymEwma::update on a sample that is there.                             *)
Smooth(k, s) ==
  IF filters[k] = None THEN s
  ELSE Ewma(filters[k], s, IF s > filters[k] THEN Rise[k] ELSE Fall[k])

(* SignalConditioner::update: a missing or implausible sample holds the    *)
(* filter and gives no value.                                              *)
Condition(raw) ==
  /\ values' = [k \in Kinds |->
       IF Sample(k, raw[k]) = None THEN None ELSE Smooth(k, Sample(k, raw[k]))]
  /\ filters' = [k \in Kinds |->
       IF values'[k] = None THEN filters[k] ELSE values'[k]]

AnyOf(flags) == flags \cap Reasons # {}

(* Faulty variant: a plain subtraction.                                    *)
MinusPlain(a, b) == a - b

Minus(a, b) == IF a > b THEN a - b ELSE 0             \* saturating_sub

(* Faulty variants: the latch holds itself up; it is let go a second early.*)
LatchRearming(active, secs) ==
  /\ remaining' = IF active \/ latched THEN HoldSecs ELSE Minus(remaining, secs)
  /\ latched' = (active \/ remaining' > 0)

LatchEager(active, secs) ==
  /\ remaining' = IF active THEN HoldSecs ELSE Minus(remaining, secs + 1)
  /\ latched' = (active \/ remaining' > 0)

(* ThrottleLatch::update.                                                  *)
Latch(active, secs) ==
  /\ remaining' = IF active THEN HoldSecs ELSE Minus(remaining, secs)
  /\ latched' = (active \/ remaining' > 0)

----------------------------------------------------------------------------
(* fuse(): which signals produce a candidate, and what it asks for.        *)

CurveOf(k) == IF OwnCurve[k] # << >> THEN OwnCurve[k]
              ELSE IF k \in {"GpuTemp", "CpuTemp"} THEN TopCurve ELSE << >>

LimitKnown == powerLimit # None /\ powerLimit > 0

Candidates ==
  { k \in Enabled :
      /\ values[k] # None
      /\ CurveOf(k) # << >>
      /\ k = "GpuPower" /\ PercentTdp => LimitKnown }

(* Where a value stands on the axis of its curve.                          *)
Abscissa(k) ==
  IF k = "CpuTemp" THEN values[k] - CpuOffset
  ELSE IF k = "GpuPower" /\ PercentTdp
       THEN (100 * values[k]) \div powerLimit ELSE values[k]

Demand(k) == Interpolate(CurveOf(k), Abscissa(k))

(* Declaration order, which breaks ties.                                   *)
Rank(k) == CASE k = "MemTemp" -> 1 [] k = "ThermalMargin" -> 2
             [] k = "GpuTemp" -> 3 [] k = "GpuPower"      -> 4
             [] k = "CpuTemp" -> 5

(* Faulty variant: the first candidate wins, whatever it asks for.         *)
WinnerByRank(cands) ==
  CHOOSE k \in cands : \A j \in cands : Rank(k) <= Rank(j)

Winner(cands) ==
  CHOOSE k \in cands :
    \A j \in cands : \/ Demand(j) < Demand(k)
                     \/ Demand(j) = Demand(k) /\ Rank(k) <= Rank(j)

Loudest(cands) == IF cands = {} THEN None ELSE Demand(Winner(cands))

(* Faulty variant: the floor stands in for the signals.                    *)
TargetFloored(cands) ==
  IF latched /\ FloorEnabled THEN FloorDuty ELSE Loudest(cands)

(* The target of a set of candidates, the throttle floor included.         *)
Target(cands) ==
  IF latched /\ FloorEnabled
  THEN IF cands = {} \/ Loudest(cands) < FloorDuty
       THEN FloorDuty ELSE Loudest(cands)
  ELSE Loudest(cands)

(* raised > baseline                                                       *)
FloorApplied ==
  /\ latched /\ FloorEnabled
  /\ FloorDuty > (IF Candidates = {} THEN 0 ELSE Loudest(Candidates))

----------------------------------------------------------------------------
(* The metrics page (metrics.rs 119-160, 259-279; main.rs 562-581).        *)

CandidateDuties == [k \in Kinds |-> IF k \in Candidates THEN Demand(k) ELSE None]

WinnerOrNone == IF Candidates = {} THEN None ELSE Winner(Candidates)

(* Faulty variant: a signal that is gone keeps its last duty.              *)
MergeFusionFrame(old, duties, winner) ==
  [ duties |-> [k \in Kinds |-> IF duties[k] # None THEN duties[k] ELSE old.duties[k]],
    winner |-> winner ]

(* set_fusion_frame replaces what was there.                               *)
SetFusionFrame(old, duties, winner) == [duties |-> duties, winner |-> winner]

(* The series render() writes, and those of them that read 1.              *)
Shown  == {k \in Kinds : frame.duties[k] # None}
OneHot == {k \in Shown : k = frame.winner}

----------------------------------------------------------------------------
Init ==
  /\ filters = [k \in Kinds |-> None]
  /\ values = [k \in Kinds |-> None]
  /\ hull = [k \in Kinds |-> None]
  /\ powerLimit = None
  /\ remaining = 0 /\ latched = FALSE
  /\ frame = [duties |-> [k \in Kinds |-> None], winner |-> None]
  /\ floorActive = FALSE /\ floorDue = FALSE
  /\ since = RealMax

Widen(span, s) ==
  IF span = None THEN [lo |-> s, hi |-> s]
  ELSE [lo |-> IF s < span.lo THEN s ELSE span.lo,
        hi |-> IF s > span.hi THEN s ELSE span.hi]

Elapsed(d) == d \div UnitsPerSec

Raw == { raw \in [Kinds -> UNION {Readings[k] : k \in Kinds}] :
           \A k \in Kinds : raw[k] \in Readings[k] }

Tick ==
  /\ ~floorDue /\ floorDue' = TRUE
  /\ UNCHANGED floorActive
  /\ \E raw \in Raw, limit \in PowerLimits :
       /\ Condition(raw)
       /\ powerLimit' = limit
       /\ hull' = [k \in Kinds |->
            IF raw[k] \in Sane(k) THEN Widen(hull[k], raw[k]) ELSE hull[k]]
  /\ frame' = SetFusionFrame(frame, CandidateDuties', WinnerOrNone')
  /\ \E flags \in Asserted, d \in Intervals :
       /\ Latch(AnyOf(flags), Elapsed(d))
       /\ since' = IF AnyOf(flags) THEN 0
                   ELSE IF since + d < RealMax THEN since + d ELSE RealMax

(* The floor flag has a setter, and a lock, of its own.                    *)
PublishFloor ==
  /\ floorDue /\ floorDue' = FALSE
  /\ floorActive' = FloorApplied
  /\ UNCHANGED <<filters, remaining, values, powerLimit, latched, frame, hull, since>>

GpuKinds == Kinds \ {"CpuTemp"}

(* Faulty variant: the CPU's filter is reset, the GPU's are not.           *)
ResetOther(k) == k = "CpuTemp"

ResetBy(k) == k \in GpuKinds

(* The GPU has been discovered anew (main.rs 843-863): reset_gpu.          *)
Rediscover ==
  /\ ~floorDue
  /\ filters' = [k \in Kinds |-> IF ResetBy(k) THEN None ELSE filters[k]]
  /\ hull' = [k \in Kinds |-> IF k \in GpuKinds THEN None ELSE hull[k]]
  /\ UNCHANGED <<remaining, values, powerLimit, latched, frame, floorActive,
                 floorDue, since>>

Next == Tick \/ PublishFloor \/ Rediscover

Spec == Init /\ [][Next]_vars

----------------------------------------------------------------------------
TypeOK ==
  /\ filters \in [Kinds -> Int \cup {None}]
  /\ values \in [Kinds -> Int \cup {None}]
  /\ powerLimit \in PowerLimits \cup {None}
  /\ remaining \in 0..HoldSecs
  /\ latched \in BOOLEAN
  /\ since \in 0..RealMax
  /\ frame \in [duties : [Kinds -> Duty \cup {None}], winner : Kinds \cup {None}]
  /\ floorActive \in BOOLEAN /\ floorDue \in BOOLEAN
  /\ Target(Candidates) \in Duty \cup {None}

(* A smoothed value lies between the lowest and the highest plausible      *)
(* sample of the device it speaks of: no sentinel, spurious zero or        *)
(* reading of an earlier NVML handle is ever blended into it.              *)
NoPoison ==
  \A k \in Kinds :
    filters[k] # None =>
      hull[k] # None /\ hull[k].lo <= filters[k] /\ filters[k] <= hull[k].hi

(* signals.rs 280-282: a reason seen within the last hold_secs of real     *)
(* time still counts, though the latch hears whole seconds only; and the   *)
(* floor holds however many signals are missing.                           *)
LatchBridges ==
  since < HoldSecs * UnitsPerSec =>
    /\ latched
    /\ FloorEnabled => /\ Target(Candidates) # None
                       /\ Target(Candidates) >= FloorDuty

(* The dropped fractions delay the release, but by no more than as long    *)
(* again.                                                                  *)
LatchLetsGo == HoldSecs > 0 /\ since >= 2 * HoldSecs * UnitsPerSec => ~latched

(* README.md 305-307: raise-only.  No signal's presence lowers the target: *)
(* whatever part of the candidates is left out, the rest ask for no more.  *)
RaiseOnly ==
  \A part \in SUBSET Candidates :
    Target(part) # None =>
      Target(Candidates) # None /\ Target(part) <= Target(Candidates)

(* metrics.rs 124-133, README.md 416-431: whoever reads the page, at       *)
(* whatever moment, finds one signal marked among the duties shown, or     *)
(* none when none is shown, and no duty above its.  That the page accounts *)
(* for the target of the tick is claimed only from the moment the floor    *)
(* flag has followed: in between it may not.                               *)
PageExplainsTarget ==
  LET best == IF Shown = {} THEN 0
              ELSE frame.duties[CHOOSE k \in OneHot : TRUE]
      told == IF floorActive THEN FloorDuty ELSE best
  IN  /\ Shown # {} => \E hot \in Kinds :
           /\ OneHot = {hot}
           /\ \A k \in Shown : frame.duties[k] <= frame.duties[hot]
      /\ ~floorDue =>
           told = (IF Target(Candidates) = None THEN 0 ELSE Target(Candidates))

(* control_temp, with the option of the legacy arm and the conditioned die *)
(* temperatures of the tick, which with a weight of one are the readings.  *)
ControlTemp ==
  LET gpu == values["GpuTemp"]
      cpu == values["CpuTemp"]
      led == cpu - LegacyOffset
  IN  IF gpu = None THEN cpu
      ELSE IF cpu # None /\ led > gpu THEN led ELSE gpu

DieTempsOnTopCurve ==
  /\ {"GpuTemp", "CpuTemp"} \subseteq Enabled
  /\ OwnCurve["GpuTemp"] = << >> /\ OwnCurve["CpuTemp"] = << >>

Rising(curve) == \A i \in 1..(Len(curve) - 1) : curve[i].duty <= curve[i + 1].duty

(* Nothing ties the two CPU offsets to each other; fusion's has to be the  *)
(* same, or smaller on a curve that gives a hotter reading no less.        *)
OffsetsAgree ==
  \/ CpuOffset = LegacyOffset
  \/ CpuOffset < LegacyOffset /\ Rising(TopCurve)

(* With the die temperatures on the top-level curve, offsets that agree    *)
(* and the GPU readable, fusion never asks for less than the legacy arm    *)
(* would.                                                                  *)
NotBelowLegacy ==
  DieTempsOnTopCurve /\ OffsetsAgree /\ values["GpuTemp"] # None =>
    Target(Candidates) >= Interpolate(TopCurve, ControlTemp)

(* examples/config-multisignal.toml 49-51: the die temperatures have the   *)
(* "same behavior as the legacy loop" - that file gives both offsets the   *)
(* same value - so the target is not below it, with or without a GPU       *)
(* reading.                                                                *)
SameAsLegacy ==
  DieTempsOnTopCurve /\ ControlTemp # None =>
    Target(Candidates) >= Interpolate(TopCurve, ControlTemp)
=============================================================================

------------------------------- MODULE Sensors -------------------------------
(***************************************************************************)
(* The life of the GPU sensor in fusion mode: an NVML handle opened once,  *)
(* the capabilities probed through it, failing reads counted, and both     *)
(* replaced when the GPU is discovered anew (src/sensors.rs; main.rs 314,  *)
(* 441, 518-524, 543-554 and 824-866).                                     *)
(*                                                                         *)
(* A tick is two steps, ReadAll and Rediscover; the driver may go away,    *)
(* return or restart before either.                                        *)
(*                                                                         *)
(* Simplifications:                                                        *)
(*  - the CPU sensor is handled by the same code with nothing to probe:    *)
(*    its handle, streak and counter behave as the ones here;              *)
(*  - a handle is useless once the driver it was opened on has gone;       *)
(*  - the GPU supports all of Signals and the power limit;                 *)
(*  - all GPU-derived filters are one: the set of drivers whose samples    *)
(*    are blended in it (Fusion.tla has them one by one);                  *)
(*  - the streak is only compared with FailLimit and stops there.          *)
(***************************************************************************)
EXTENDS Integers

CONSTANTS
  Interval,        \* REDISCOVERY_INTERVAL_TICKS
  LimitEvery,      \* POWER_LIMIT_REFRESH_TICKS
  FailLimit,       \* 3: failed reads after which a sensor is looked for
  SinceMax,        \* where the counts of ticks since a probe, and of ticks
                   \* waited, stop: they are only compared with Interval
  Signals,         \* the capabilities of the GPU
  Watts,           \* enforced power limits
  None             \* Option::None

ASSUME SensorAssumption ==
  /\ Interval \in Nat /\ LimitEvery \in Nat
  /\ FailLimit \in 1..(Interval + 1)
  /\ SinceMax \in Nat /\ SinceMax > Interval
  /\ None \notin Watts

VARIABLES
  pc,
  handle,          \* gpu: "none", "live", or "stale" once its driver is gone
  streak,          \* gpu_fail_streak
  sinceProbe,      \* ticks_since_gpu_probe
  reading,         \* this tick's GPU temperature was read
  capSignals,      \* caps: what can be read
  capLimit,        \* caps.power_limit_w
  sinceLimit,      \* ticks_since_power_limit_probe
  samples,         \* drivers whose samples the GPU's filters hold: "this"
                   \* is the present one, "former" any before it
  \* the GPU
  present,         \* a driver is there
  up,              \* and it answers every call of this tick
  limit,           \* the power limit it enforces
  calm,            \* from here on the driver stays and answers
  \* history
  capFresh,        \* caps were probed on the present driver
  waited,          \* ticks in a row that found it up and got no temperature
  limitOff         \* ticks in a row that used another limit than it enforces

gpuVars == <<present, limit, calm>>
capVars == <<capSignals, capLimit, capFresh>>
vars    == <<pc, handle, streak, sinceProbe, reading, capVars, sinceLimit,
             samples, gpuVars, up, waited, limitOff>>

----------------------------------------------------------------------------
(* probe_caps: all or, from a driver that does not answer every call, a    *)
(* part of the capabilities.                                               *)
ProbeCaps(h, answers) ==
  /\ capSignals' \in IF h # "live" THEN {{}}
                     ELSE IF answers THEN {Signals} ELSE SUBSET Signals
  /\ capLimit' \in IF h # "live" THEN {None}
                   ELSE IF answers THEN {limit} ELSE {limit, None}
  /\ capFresh' = (h = "live")

(* refresh_power_limit: left alone when the device is out of reach, None   *)
(* when only the limit cannot be read.                                     *)
Refreshed(answers) ==
  CASE handle = "none"  -> {capLimit}
    [] handle = "stale" -> {capLimit, None}
    [] handle = "live"  -> IF answers THEN {limit} ELSE {capLimit, None, limit}

(* Faulty variants: the refresh is a tick late; an unknown limit is taken  *)
(* for an absent one.                                                      *)
RefreshLimitLate(answers) ==
  IF sinceLimit > LimitEvery
  THEN sinceLimit' = 0 /\ capLimit' \in Refreshed(answers)
  ELSE sinceLimit' = sinceLimit + 1 /\ UNCHANGED capLimit

RefreshLimitKnown(answers) ==
  IF sinceLimit >= LimitEvery
  THEN /\ sinceLimit' = 0
       /\ capLimit' \in IF capLimit = None THEN {None} ELSE Refreshed(answers)
  ELSE sinceLimit' = sinceLimit + 1 /\ UNCHANGED capLimit

RefreshLimit(answers) ==
  IF sinceLimit >= LimitEvery
  THEN sinceLimit' = 0 /\ capLimit' \in Refreshed(answers)
  ELSE sinceLimit' = sinceLimit + 1 /\ UNCHANGED capLimit

CountFailures ==
  streak' = IF handle = "none" THEN streak
            ELSE IF reading' THEN 0
            ELSE IF streak < FailLimit THEN streak + 1 ELSE FailLimit

----------------------------------------------------------------------------
Init ==
  /\ pc = "start"
  /\ present \in BOOLEAN
  /\ handle \in {"none"} \cup IF present THEN {"live"} ELSE {}
  /\ streak = 0 /\ sinceProbe = 0 /\ sinceLimit = 0
  /\ reading = FALSE
  /\ capSignals = {} /\ capLimit = None /\ capFresh = FALSE
  /\ samples = {}
  /\ limit \in Watts
  /\ up = FALSE /\ calm = FALSE
  /\ waited = 0 /\ limitOff = 0

(* The signals runtime is built after the wait for the hub, which may have *)
(* been long.                                                              *)
Start ==
  /\ pc = "start"
  /\ pc' = "read"
  /\ ProbeCaps(handle, calm)
  /\ UNCHANGED <<handle, streak, sinceProbe, reading, sinceLimit, samples,
                 gpuVars, up, waited, limitOff>>

ReadAll ==
  /\ pc = "read"
  /\ pc' = "probe"
  /\ up' \in IF calm THEN {present} ELSE {FALSE, present}
  /\ reading' \in IF handle # "live" THEN {FALSE}
                  ELSE IF up' THEN {TRUE} ELSE BOOLEAN
  /\ CountFailures
  /\ RefreshLimit(up')
  /\ samples' \in IF reading' THEN {samples \cup {"this"}}
                  ELSE IF handle = "live" /\ capSignals # {}
                  THEN {samples, samples \cup {"this"}}
                  ELSE {samples}
  /\ waited' = IF ~up' \/ reading' THEN 0
               ELSE IF waited < SinceMax THEN waited + 1 ELSE SinceMax
  /\ limitOff' = IF up' /\ handle = "live" /\ capLimit' # limit
                 THEN limitOff + 1 ELSE 0
  /\ UNCHANGED <<handle, sinceProbe, capSignals, capFresh, gpuVars>>

(* Faulty variants: the interval is overrun by a tick; only a sensor that  *)
(* was never there is looked for.                                          *)
DueLate ==
  (handle = "none" \/ streak >= FailLimit) /\ sinceProbe > Interval

DueAbsent == handle = "none" /\ sinceProbe >= Interval

Due == (handle = "none" \/ streak >= FailLimit) /\ sinceProbe >= Interval

(* Faulty variant: the filters go on with the old driver's samples.        *)
AdoptBlending ==
  /\ handle' = "live"
  /\ streak' = 0
  /\ ProbeCaps("live", up)
  /\ UNCHANGED samples

(* A new handle: its capabilities are probed and the filters reset.        *)
Adopt ==
  /\ handle' = "live"
  /\ streak' = 0
  /\ ProbeCaps("live", up)
  /\ samples' = {}

Rediscover ==
  /\ pc = "probe"
  /\ pc' = "read"
  /\ IF Due
     THEN /\ sinceProbe' = 0
          /\ \/ present /\ Adopt
             \/ ~up /\ UNCHANGED <<handle, streak, capVars, samples>>
     ELSE /\ sinceProbe' = IF sinceProbe < SinceMax THEN sinceProbe + 1 ELSE SinceMax
          /\ UNCHANGED <<handle, streak, capVars, samples>>
  /\ UNCHANGED <<reading, sinceLimit, gpuVars, up, waited, limitOff>>

Daemon == Start \/ ReadAll \/ Rediscover

----------------------------------------------------------------------------
(* The driver goes (unloaded, or to restart), and everything opened on it  *)
(* with it.                                                                *)
Vanish ==
  /\ present /\ ~calm
  /\ present' = FALSE
  /\ handle' = IF handle = "live" THEN "stale" ELSE handle
  /\ samples' = IF samples = {} THEN {} ELSE {"former"}
  /\ capFresh' = FALSE
  /\ up' = FALSE /\ waited' = 0 /\ limitOff' = 0
  /\ UNCHANGED <<pc, streak, sinceProbe, reading, capSignals, capLimit,
                 sinceLimit, limit, calm>>

Appear ==
  /\ ~present
  /\ present' = TRUE
  /\ UNCHANGED <<pc, handle, streak, sinceProbe, reading, capVars, sinceLimit,
                 samples, limit, calm, up, waited, limitOff>>

(* nvidia-smi -pl.                                                         *)
SetLimit ==
  /\ limit' \in Watts \ {limit}
  /\ UNCHANGED <<pc, handle, streak, sinceProbe, reading, capVars, sinceLimit,
                 samples, present, calm, up, waited, limitOff>>

CalmDown ==
  /\ present /\ ~calm
  /\ calm' = TRUE /\ up' = TRUE
  /\ UNCHANGED <<pc, handle, streak, sinceProbe, reading, capVars, sinceLimit,
                 samples, present, limit, waited, limitOff>>

Next == Daemon \/ Vanish \/ Appear \/ SetLimit \/ CalmDown

Spec == Init /\ [][Next]_vars

(* The loop keeps running.                                                 *)
FairSpec == Spec /\ WF_vars(Daemon)

----------------------------------------------------------------------------
TypeOK ==
  /\ pc \in {"start", "read", "probe"}
  /\ handle \in {"none", "live", "stale"}
  /\ streak \in 0..FailLimit
  /\ sinceProbe \in 0..SinceMax
  /\ sinceLimit \in 0..LimitEvery
  /\ reading \in BOOLEAN /\ up \in BOOLEAN
  /\ present \in BOOLEAN /\ calm \in BOOLEAN
  /\ limit \in Watts
  /\ capSignals \subseteq Signals /\ capLimit \in Watts \cup {None}
  /\ capFresh \in BOOLEAN
  /\ samples \subseteq {"this", "former"}
  /\ waited \in 0..(Interval + 1)
  /\ limitOff \in 0..LimitEvery

(* main.rs 493-497: a GPU that answers is opened again an interval and a   *)
(* tick later at the latest, however it was lost, however often it was     *)
(* looked for in vain and whatever the streak was.                         *)
BackInTime ==
  pc = "read" /\ waited > Interval => handle = "live"

(* main.rs 538-542: a limit changed at runtime, or one that could not be   *)
(* read once, is not used for longer than the refresh takes to come round. *)
LimitCatchesUp == limitOff <= sinceLimit

(* main.rs 853-856: what was learnt from a former driver - capabilities    *)
(* and the state of the filters - is never used with the present one.      *)
NothingFormer ==
  handle = "live" /\ pc # "start" => capFresh /\ "former" \notin samples

(* A GPU that is lost, or was never found, is read again with all its      *)
(* capabilities once its driver stays.                                     *)
GpuReturns ==
  (calm /\ handle # "live") ~> (reading /\ capSignals = Signals)
=============================================================================

---------------------------- MODULE SensorsProofs ----------------------------
(***************************************************************************)
(* The GPU sensor's counters bound what they are meant to bound, for every *)
(* interval, failure limit and set of capabilities.                        *)
(***************************************************************************)
EXTENDS Sensors, TLAPS

(* The types, but for the bounds of the two histories: those rest on       *)
(* WaitInv and LimitCatchesUp.                                             *)
Types ==
  /\ pc \in {"start", "read", "probe"}
  /\ handle \in {"none", "live", "stale"}
  /\ streak \in 0..FailLimit
  /\ sinceProbe \in 0..SinceMax
  /\ sinceLimit \in 0..LimitEvery
  /\ reading \in BOOLEAN /\ up \in BOOLEAN
  /\ present \in BOOLEAN /\ calm \in BOOLEAN
  /\ limit \in Watts
  /\ capSignals \subseteq Signals /\ capLimit \in Watts \cup {None}
  /\ capFresh \in BOOLEAN
  /\ samples \subseteq {"this", "former"}
  /\ waited \in Nat
  /\ limitOff \in Nat

(* While a GPU that answers is waited for, the counters keep pace with the *)
(* ticks: the streak has counted them all, and sinceProbe all but the one  *)
(* whose Rediscover is still to come.                                      *)
StreakKept == handle = "stale" => streak >= waited \/ streak = FailLimit

WaitInv ==
  /\ waited <= Interval + 1
  /\ pc = "start" => waited = 0
  /\ (pc = "probe" /\ waited > 0) =>
       up /\ handle # "live" /\ sinceProbe >= waited - 1 /\ StreakKept
  /\ (pc = "read" /\ waited > 0 /\ handle # "live") =>
       waited <= Interval /\ sinceProbe >= waited /\ StreakKept

(* Nothing of a former driver reaches an open handle; before the loop the  *)
(* filters are empty.                                                      *)
FormerInv ==
  /\ NothingFormer
  /\ pc = "start" => samples = {}

(* A temperature that was read has ended the streak.                       *)
StreakInv == pc = "probe" /\ reading => streak = 0

(* The inductive invariant.                                                *)
IInv == Types /\ WaitInv /\ LimitCatchesUp /\ FormerInv /\ StreakInv

----------------------------------------------------------------------------
LEMMA ConstantFacts ==
  /\ Interval \in Nat /\ LimitEvery \in Nat /\ SinceMax \in Nat
  /\ FailLimit \in Nat /\ FailLimit >= 1 /\ FailLimit <= Interval + 1
  /\ SinceMax > Interval
  /\ None \notin Watts
BY SensorAssumption DEF SensorAssumption

LEMMA InitInv == Init => IInv
<1> SUFFICES ASSUME Init PROVE IInv
  OBVIOUS
<1>1. /\ pc = "start" /\ reading = FALSE /\ samples = {}
      /\ waited = 0 /\ limitOff = 0
      /\ streak = 0 /\ sinceProbe = 0 /\ sinceLimit = 0
  BY DEF Init
<1>2. handle \in {"none", "live", "stale"}
  <2>1. handle \in {"none"} \cup IF present THEN {"live"} ELSE {}
    BY DEF Init
  <2>2. CASE present
    BY <2>1, <2>2
  <2>3. CASE ~present
    BY <2>1, <2>3
  <2> QED BY <2>2, <2>3
<1>3. /\ up \in BOOLEAN /\ present \in BOOLEAN /\ calm \in BOOLEAN
      /\ capFresh \in BOOLEAN
      /\ limit \in Watts /\ capSignals = {} /\ capLimit = None
  BY DEF Init
<1>4. Types
  <2>1. 0 \in 0..FailLimit /\ 0 \in 0..SinceMax /\ 0 \in 0..LimitEvery
    BY ConstantFacts
  <2> QED BY <1>1, <1>2, <1>3, <2>1 DEF Types
<1>5. WaitInv
  BY <1>1, ConstantFacts DEF WaitInv
<1>6. LimitCatchesUp /\ FormerInv /\ StreakInv
  BY <1>1 DEF LimitCatchesUp, FormerInv, NothingFormer, StreakInv
<1> QED BY <1>4, <1>5, <1>6 DEF IInv

LEMMA StartStep == IInv /\ Start => IInv'
<1> SUFFICES ASSUME IInv, Start PROVE IInv'
  OBVIOUS
<1>1. Types'
  BY DEF IInv, Types, Start, ProbeCaps, gpuVars
<1>2. WaitInv'
  BY DEF IInv, WaitInv, StreakKept, Start, gpuVars
<1>3. LimitCatchesUp'
  BY DEF IInv, LimitCatchesUp, Start, gpuVars
<1>4. FormerInv'
  BY DEF IInv, FormerInv, NothingFormer, Start, ProbeCaps, gpuVars
<1>5. StreakInv'
  BY DEF StreakInv, Start
<1> QED BY <1>1, <1>2, <1>3, <1>4, <1>5 DEF IInv

(* The refresh keeps its counter within bounds, and a limit that differs   *)
(* from the enforced one has been refreshed no longer ago than it differs. *)
LEMMA RefreshKeeps ==
  ASSUME IInv, ReadAll
  PROVE  /\ sinceLimit' \in 0..LimitEvery
         /\ capLimit' \in Watts \cup {None}
         /\ limitOff' \in Nat /\ limitOff' <= sinceLimit'
<1>1. /\ sinceLimit \in 0..LimitEvery /\ limitOff \in Nat
      /\ limitOff <= sinceLimit
      /\ limit \in Watts /\ capLimit \in Watts \cup {None}
      /\ handle \in {"none", "live", "stale"}
  BY DEF IInv, Types, LimitCatchesUp
<1>2. CASE sinceLimit >= LimitEvery
  <2>1. sinceLimit' = 0 /\ capLimit' \in Refreshed(up')
    BY <1>2 DEF ReadAll, RefreshLimit
  <2>2. Refreshed(up') \subseteq Watts \cup {None}
    BY <1>1 DEF Refreshed
  <2>3. up' /\ handle = "live" => capLimit' = limit
    BY <2>1 DEF Refreshed
  <2>4. limitOff' = 0
    BY <2>3 DEF ReadAll
  <2> QED BY <2>1, <2>2, <2>4, ConstantFacts
<1>3. CASE sinceLimit < LimitEvery
  <2>1. sinceLimit' = sinceLimit + 1 /\ capLimit' = capLimit
    BY <1>1, <1>3, ConstantFacts DEF ReadAll, RefreshLimit
  <2>2. limitOff' \in {limitOff + 1, 0}
    BY DEF ReadAll
  <2> QED BY <1>1, <1>3, <2>1, <2>2, ConstantFacts
<1> QED BY <1>1, <1>2, <1>3, ConstantFacts

LEMMA ReadStep == IInv /\ ReadAll => IInv'
<1> SUFFICES ASSUME IInv, ReadAll PROVE IInv'
  OBVIOUS
<1>1. /\ pc = "read" /\ pc' = "probe"
      /\ handle' = handle /\ sinceProbe' = sinceProbe
      /\ capSignals' = capSignals /\ capFresh' = capFresh
      /\ present' = present /\ limit' = limit /\ calm' = calm
  BY DEF ReadAll, gpuVars
<1>2. up' \in BOOLEAN /\ reading' \in BOOLEAN
  BY DEF ReadAll, IInv, Types
<1>3. streak' \in 0..FailLimit
  BY <1>2, ConstantFacts DEF ReadAll, CountFailures, IInv, Types
<1>4. samples' \subseteq {"this", "former"} /\ samples' \subseteq samples \cup {"this"}
  BY DEF ReadAll, IInv, Types
<1>5. waited' \in Nat
  BY ConstantFacts DEF ReadAll, IInv, Types
<1>6. Types'
  BY <1>1, <1>2, <1>3, <1>4, <1>5, RefreshKeeps DEF IInv, Types
<1>7. WaitInv'
  <2>1. CASE ~(up' /\ ~reading')
    BY <1>1, <2>1, ConstantFacts DEF ReadAll, WaitInv
  <2>2. CASE up' /\ ~reading'
    <3>1. handle # "live"
      BY <2>2 DEF ReadAll
    <3>2. waited \in Nat /\ waited <= Interval
      BY <1>1, <3>1, ConstantFacts DEF IInv, Types, WaitInv
    <3>3. waited' = waited + 1
      <4>1. waited' = IF waited < SinceMax THEN waited + 1 ELSE SinceMax
        BY <2>2 DEF ReadAll
      <4> QED BY <3>2, <4>1, ConstantFacts
    <3>4. sinceProbe \in Nat /\ sinceProbe >= waited
      BY <1>1, <3>1, <3>2, ConstantFacts DEF IInv, Types, WaitInv
    <3>5. StreakKept'
      <4>1. CASE handle = "stale"
        <5>1. streak' = IF streak < FailLimit THEN streak + 1 ELSE FailLimit
          BY <2>2, <4>1 DEF ReadAll, CountFailures
        <5>2. waited = 0 \/ streak >= waited \/ streak = FailLimit
          BY <1>1, <3>1, <3>2, <4>1 DEF IInv, WaitInv, StreakKept
        <5>3. streak \in 0..FailLimit
          BY DEF IInv, Types
        <5> QED BY <3>2, <3>3, <5>1, <5>2, <5>3, ConstantFacts DEF StreakKept
      <4>2. CASE handle # "stale"
        BY <1>1, <4>2 DEF StreakKept
      <4> QED BY <4>1, <4>2
    <3>6. sinceProbe' >= waited' - 1 /\ waited' <= Interval + 1
      BY <1>1, <3>2, <3>3, <3>4, ConstantFacts
    <3> QED BY <1>1, <2>2, <3>1, <3>5, <3>6 DEF WaitInv
  <2> QED BY <2>1, <2>2
<1>8. LimitCatchesUp'
  BY RefreshKeeps DEF LimitCatchesUp
<1>9. FormerInv'
  BY <1>1, <1>4 DEF IInv, FormerInv, NothingFormer
<1>10. StreakInv'
  <2> SUFFICES ASSUME reading' PROVE streak' = 0
    BY DEF StreakInv
  <2>1. handle = "live"
    BY DEF ReadAll
  <2> QED BY <2>1 DEF ReadAll, CountFailures
<1> QED BY <1>6, <1>7, <1>8, <1>9, <1>10 DEF IInv

LEMMA RediscoverStep == IInv /\ Rediscover => IInv'
<1> SUFFICES ASSUME IInv, Rediscover PROVE IInv'
  OBVIOUS
<1>1. /\ pc = "probe" /\ pc' = "read"
      /\ present' = present /\ limit' = limit /\ calm' = calm
      /\ reading' = reading /\ sinceLimit' = sinceLimit /\ up' = up
      /\ waited' = waited /\ limitOff' = limitOff
  BY DEF Rediscover, gpuVars
<1>2. LimitCatchesUp' /\ StreakInv'
  BY <1>1 DEF IInv, LimitCatchesUp, StreakInv
<1>3. waited <= Interval + 1 /\ waited \in Nat
  BY DEF IInv, WaitInv, Types
<1>4. CASE Due /\ present /\ Adopt
  <2>1. /\ handle' = "live" /\ streak' = 0 /\ samples' = {} /\ capFresh' = TRUE
        /\ capSignals' \subseteq Signals /\ capLimit' \in Watts \cup {None}
    BY <1>4 DEF Adopt, ProbeCaps, IInv, Types
  <2>2. sinceProbe' = 0
    BY <1>4 DEF Rediscover
  <2>3. Types'
    BY <1>1, <2>1, <2>2, ConstantFacts DEF IInv, Types
  <2>4. WaitInv'
    BY <1>1, <1>3, <2>1 DEF WaitInv
  <2>5. FormerInv'
    BY <1>1, <2>1 DEF FormerInv, NothingFormer
  <2> QED BY <1>2, <2>3, <2>4, <2>5 DEF IInv
<1>5. CASE ~(Due /\ present /\ Adopt)
  <2>1. /\ handle' = handle /\ streak' = streak /\ samples' = samples
        /\ capSignals' = capSignals /\ capLimit' = capLimit
        /\ capFresh' = capFresh
    BY <1>5 DEF Rediscover, capVars
  <2>2. sinceProbe' \in 0..SinceMax
    BY ConstantFacts DEF Rediscover, IInv, Types
  <2>3. Types'
    BY <1>1, <2>1, <2>2 DEF IInv, Types
  <2>4. FormerInv'
    BY <1>1, <2>1 DEF IInv, FormerInv, NothingFormer
  <2>5. WaitInv'
    <3> SUFFICES ASSUME waited > 0
                 PROVE  waited <= Interval /\ sinceProbe' >= waited /\ StreakKept'
      BY <1>1, <1>3, <2>1 DEF WaitInv
    <3>1. up /\ handle # "live" /\ sinceProbe >= waited - 1 /\ StreakKept
      BY <1>1 DEF IInv, WaitInv
    <3>2. ~Due
      BY <1>5, <3>1 DEF Rediscover
    <3>3. sinceProbe' = IF sinceProbe < SinceMax THEN sinceProbe + 1 ELSE SinceMax
      BY <3>2 DEF Rediscover
    <3>4. sinceProbe \in 0..SinceMax /\ streak \in 0..FailLimit
      BY DEF IInv, Types
    <3>5. StreakKept'
      BY <1>1, <2>1, <3>1 DEF StreakKept
    <3>6. waited <= Interval
      <4>1. CASE sinceProbe < Interval
        BY <1>3, <3>1, <3>4, <4>1, ConstantFacts
      <4>2. CASE sinceProbe >= Interval
        <5>1. handle = "stale" /\ streak < FailLimit
          <6>1. handle # "none" /\ ~(streak >= FailLimit)
            BY <3>2, <4>2 DEF Due
          <6>2. handle = "stale"
            BY <3>1, <6>1 DEF IInv, Types
          <6> QED BY <3>4, <6>1, <6>2, ConstantFacts
        <5>2. streak >= waited
          BY <3>1, <3>4, <5>1, ConstantFacts DEF StreakKept
        <5> QED BY <1>3, <3>4, <5>1, <5>2, ConstantFacts
      <4> QED BY <3>4, <4>1, <4>2, ConstantFacts
    <3>7. sinceProbe' >= waited
      BY <1>3, <3>1, <3>3, <3>4, <3>6, ConstantFacts
    <3> QED BY <3>5, <3>6, <3>7
  <2> QED BY <1>2, <2>3, <2>4, <2>5 DEF IInv
<1> QED BY <1>4, <1>5

LEMMA VanishStep == IInv /\ Vanish => IInv'
<1> SUFFICES ASSUME IInv, Vanish PROVE IInv'
  OBVIOUS
<1>1. Types'
  BY DEF IInv, Types, Vanish
<1>2. WaitInv' /\ LimitCatchesUp'
  <2>1. waited' = 0 /\ limitOff' = 0 /\ sinceLimit' = sinceLimit
    BY DEF Vanish
  <2> QED BY <2>1, ConstantFacts DEF WaitInv, LimitCatchesUp, IInv, Types
<1>3. FormerInv'
  <2>1. handle' # "live"
    BY DEF Vanish, IInv, Types
  <2> QED BY <2>1 DEF IInv, FormerInv, NothingFormer, Vanish
<1>4. StreakInv'
  BY DEF IInv, StreakInv, Vanish
<1> QED BY <1>1, <1>2, <1>3, <1>4 DEF IInv

LEMMA QuietStep ==
  IInv /\ (Appear \/ SetLimit \/ CalmDown \/ UNCHANGED vars) => IInv'
<1> SUFFICES ASSUME IInv, Appear \/ SetLimit \/ CalmDown \/ UNCHANGED vars
             PROVE  IInv'
  OBVIOUS
<1>1. /\ pc' = pc /\ handle' = handle /\ streak' = streak
      /\ sinceProbe' = sinceProbe /\ reading' = reading
      /\ capSignals' = capSignals /\ capLimit' = capLimit
      /\ capFresh' = capFresh /\ sinceLimit' = sinceLimit
      /\ samples' = samples /\ waited' = waited /\ limitOff' = limitOff
      /\ up' \in {up, TRUE}
  BY DEF Appear, SetLimit, CalmDown, vars, capVars, gpuVars
<1>2. present' \in BOOLEAN /\ limit' \in Watts /\ calm' \in BOOLEAN
  BY DEF Appear, SetLimit, CalmDown, vars, gpuVars, IInv, Types
<1>3. Types'
  BY <1>1, <1>2 DEF IInv, Types
<1>4. WaitInv'
  BY <1>1 DEF IInv, WaitInv, StreakKept
<1>5. LimitCatchesUp' /\ FormerInv' /\ StreakInv'
  BY <1>1 DEF IInv, LimitCatchesUp, FormerInv, NothingFormer, StreakInv
<1> QED BY <1>3, <1>4, <1>5 DEF IInv

LEMMA Invariance == Spec => []IInv
<1>1. IInv /\ [Next]_vars => IInv'
  BY StartStep, ReadStep, RediscoverStep, VanishStep, QuietStep
     DEF Next, Daemon
<1> QED BY InitInv, <1>1, PTL DEF Spec

----------------------------------------------------------------------------
(* Type correctness; nobody waits longer than an interval and a tick.      *)
THEOREM TypeCorrect == Spec => []TypeOK
<1>1. IInv => TypeOK
  <2> SUFFICES ASSUME IInv PROVE TypeOK
    OBVIOUS
  <2>1. waited \in 0..(Interval + 1)
    BY ConstantFacts DEF IInv, Types, WaitInv
  <2>2. limitOff \in 0..LimitEvery
    BY ConstantFacts DEF IInv, Types, LimitCatchesUp
  <2> QED BY <2>1, <2>2 DEF IInv, Types, TypeOK
<1> QED BY Invariance, <1>1, PTL

(* main.rs 493-497: the retry of a sensor that is back is at most an       *)
(* interval and a tick away, whatever happened before.                     *)
THEOREM BackAgain == Spec => []BackInTime
<1>1. IInv => BackInTime
  <2> SUFFICES ASSUME IInv, pc = "read", waited > Interval, handle # "live"
               PROVE  FALSE
    BY DEF BackInTime
  <2>1. waited \in Nat /\ waited > 0
    BY ConstantFacts DEF IInv, Types
  <2> QED BY <2>1, ConstantFacts DEF IInv, WaitInv
<1> QED BY Invariance, <1>1, PTL

(* main.rs 538-542: a wrong power limit is used no longer than a refresh   *)
(* takes to come round.                                                    *)
THEOREM LimitCaughtUp == Spec => []LimitCatchesUp
<1>1. IInv => LimitCatchesUp
  BY DEF IInv
<1> QED BY Invariance, <1>1, PTL

(* main.rs 853-856: an open handle is never combined with capabilities or  *)
(* filtered samples of a driver before it.                                 *)
THEOREM FormerForgotten == Spec => []NothingFormer
<1>1. IInv => NothingFormer
  BY DEF IInv, FormerInv
<1> QED BY Invariance, <1>1, PTL

SteadyNotReopened ==
  [][pc = "probe" /\ pc' = "read" /\ reading /\ handle = "live"
       => sinceProbe' # 0]_vars

(* main.rs 843-847: a GPU whose temperature was read in this tick is not   *)
(* opened again, however its reads failed in between: only failures in a   *)
(* row count.                                                              *)
THEOREM AnsweringKept == Spec => SteadyNotReopened
<1>1. IInv /\ [Next]_vars =>
        (pc = "probe" /\ pc' = "read" /\ reading /\ handle = "live"
           => sinceProbe' # 0)
  <2> SUFFICES ASSUME IInv, [Next]_vars, pc = "probe", pc' = "read", reading,
                      handle = "live"
               PROVE  sinceProbe' # 0
    OBVIOUS
  <2>1. Rediscover
    BY DEF Next, Daemon, Start, ReadAll, Vanish, Appear, SetLimit, CalmDown, vars
  <2>2. ~Due
    BY ConstantFacts DEF IInv, StreakInv, Due
  <2>3. sinceProbe' = IF sinceProbe < SinceMax THEN sinceProbe + 1 ELSE SinceMax
    BY <2>1, <2>2 DEF Rediscover
  <2> QED BY <2>3, ConstantFacts DEF IInv, Types
<1> QED BY Invariance, <1>1, PTL DEF Spec, SteadyNotReopened
=============================================================================

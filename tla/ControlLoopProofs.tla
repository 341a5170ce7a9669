------------------------- MODULE ControlLoopProofs -------------------------
(***************************************************************************)
(* The control loop and the hub agree, for every curve, set of channels,   *)
(* sensor readings and setting of the knobs, under unplugs, partial        *)
(* writes, signals, kills and restarts in any order.                       *)
(***************************************************************************)
EXTENDS ControlLoop, CurveProofs

----------------------------------------------------------------------------
(* One call of the controller.                                             *)

(* The curve's answer to any control temperature is a percentage.          *)
LEMMA TargetInRange == \A t \in Temps : Target(t) \in Duty
<1> SUFFICES ASSUME NEW t \in Temps PROVE Target(t) \in Duty
  OBVIOUS
<1>1. t \in Int
  BY InputAssumption
<1> QED BY <1>1, GraphAssumption, InterpolateInRange DEF Target

CtlTypeOK ==
  /\ lastDuty \in Duty \cup {None}
  /\ lastTemp \in Temps \cup {NaN}
  /\ decision \in Duty \cup {None}

(* One step_toward: the duty walks toward the target, at most MaxStep, and *)
(* neither past it nor away from it; a returned duty is the new one.       *)
LEMMA StepTowardWalks ==
  ASSUME CtlTypeOK, NEW target \in Duty, NEW temp \in Temps \cup {None},
         StepToward(target, temp)
  PROVE  /\ CtlTypeOK'
         /\ lastDuty' \in Duty
         /\ decision' \in {lastDuty', None}
         /\ lastDuty = None => lastDuty' = target /\ decision' = target
         /\ lastDuty # None =>
              /\ \/ lastDuty <= lastDuty' /\ lastDuty' <= target
                 \/ target <= lastDuty' /\ lastDuty' <= lastDuty
              /\ lastDuty' - lastDuty <= MaxStep
              /\ lastDuty - lastDuty' <= MaxStep
              /\ decision' = None => lastDuty' = lastDuty
<1>1. /\ None \notin Duty
      /\ target \in 0..100 /\ target # None
      /\ lastDuty # None => lastDuty \in 0..100
      /\ MaxStep \in 1..255
  BY AbsentAssumption, KnobAssumption DEF CtlTypeOK, Duty
<1>2. CASE FirstDecision(target, temp)
  BY <1>1, <1>2 DEF FirstDecision, Remember, CtlTypeOK
<1>3. CASE Hold(target, temp)
  BY <1>1, <1>3 DEF Hold, Quiet, CtlTypeOK, Duty
<1>4. CASE AtTarget(target, temp)
  BY <1>1, <1>4 DEF AtTarget, Remember, CtlTypeOK, Duty
<1>5. CASE Slew(target, temp)
  <2>1. lastDuty \in Duty /\ lastDuty # target
    BY <1>1, <1>5 DEF Slew, CtlTypeOK
  <2>2. /\ lastDuty' \in 0..100
        /\ \/ lastDuty <= lastDuty' /\ lastDuty' <= target
           \/ target <= lastDuty' /\ lastDuty' <= lastDuty
        /\ lastDuty' - lastDuty <= MaxStep /\ lastDuty - lastDuty' <= MaxStep
    <3> DEFINE gap  == IF target - lastDuty < 0
                       THEN -(target - lastDuty) ELSE target - lastDuty
               step == IF gap < MaxStep THEN gap ELSE MaxStep
               next == IF target > lastDuty THEN lastDuty + step ELSE lastDuty - step
    <3>1. lastDuty' = next
      BY <1>5 DEF Slew, Gap, Abs
    <3>2. /\ next \in Duty
          /\ \/ lastDuty <= next /\ next <= target
             \/ target <= next /\ next <= lastDuty
          /\ next - lastDuty <= MaxStep /\ lastDuty - next <= MaxStep
      BY <1>1, <2>1, SlewBetween
    <3> HIDE DEF next
    <3> QED BY <3>1, <3>2 DEF Duty
  <2>3. decision' = lastDuty' /\ lastTemp' \in Temps \cup {NaN}
    BY <1>5 DEF Slew, Remember, CtlTypeOK
  <2>4. decision' # None
    BY <1>1, <2>2, <2>3 DEF Duty
  <2>5. CtlTypeOK'
    BY <2>2, <2>3 DEF CtlTypeOK, Duty
  <2>6. lastDuty' \in Duty
    BY <2>2 DEF Duty
  <2>7. decision' \in {lastDuty', None}
    BY <2>3
  <2>8. lastDuty # None
    BY <1>1, <2>1
  <2> QED BY <2>2, <2>4, <2>5, <2>6, <2>7, <2>8
<1> QED BY <1>2, <1>3, <1>4, <1>5 DEF StepToward

(* The fallback is a percentage and becomes the controller's own duty.     *)
LEMMA ForceSets ==
  ASSUME CtlTypeOK, ForceDuty
  PROVE  /\ CtlTypeOK'
         /\ lastDuty' = FallbackDuty /\ decision' = FallbackDuty
         /\ FallbackDuty \in Duty /\ FallbackDuty # None
<1>1. FallbackDuty \in Duty /\ FallbackDuty # None
  BY AbsentAssumption, KnobAssumption DEF Duty
<1> QED BY <1>1 DEF ForceDuty, CtlTypeOK

----------------------------------------------------------------------------

InTick == {"rpm", "recover", "reapply", "sleep"}    \* after this tick's write

(* The handle.  There is none outside the loop; a valid one is to the      *)
(* device on the bus, whose channels it has all put in manual mode.        *)
HandleInv ==
  /\ pc \in {"start", "hubWait", "exited", "dead"} => hub = "none"
  /\ pc \in {"start", "hubWait"} => lastApplied = None /\ staleTicks = 0
  /\ hub = "valid" => attached /\ \A c \in Channel : device[c].manual

(* The decision and the duty.  Outside the window between deciding and     *)
(* writing, the loop's last_applied is the controller's last_duty.         *)
AppliedInv ==
  /\ pc \notin {"apply", "dead"} => lastApplied = lastDuty
  /\ pc = "apply" =>
       /\ decision = None => lastApplied = lastDuty /\ lastApplied # None
       /\ fallbackActive => decision = FallbackDuty
       /\ decision # None =>
            /\ decision = lastDuty
            /\ (lastApplied # None /\ ~fallbackActive) =>
                 decision - lastApplied <= MaxStep /\ lastApplied - decision <= MaxStep
  /\ pc \in InTick => /\ lastApplied # None
                      /\ fallbackActive => lastApplied = FallbackDuty

(* The error count.  Zero means that the last pass of writes over this     *)
(* handle reached every channel.                                           *)
SyncInv ==
  /\ pc \in {"recover", "reapply"} => errors = ErrorLimit
  /\ (hub = "valid" /\ errors = 0 /\ lastApplied # None) =>
       \A c \in Channel : device[c].duty = lastApplied

(* A stale handle: one error for every tick begun with it, the current     *)
(* tick's being still to come before the rpm step.                         *)
Due == IF staleTicks < ErrorLimit THEN staleTicks ELSE ErrorLimit

StaleInv ==
  /\ hub = "valid" => staleTicks = 0
  /\ hub = "stale" =>
       IF pc \in {"apply", "rpm"} THEN errors + 1 >= Due ELSE errors >= Due

(* The inductive invariant.                                                *)
IInv == TypeOK /\ HandleInv /\ AppliedInv /\ SyncInv /\ StaleInv

----------------------------------------------------------------------------
LoopConstants ==
  /\ ErrorLimit \in Nat /\ ErrorLimit > 0 /\ StaleMax \in Nat
  /\ FallbackDuty \in Duty /\ FallbackDuty # None
  /\ None \notin Duty /\ NaN \notin Temps
  /\ Channel # {}

LEMMA ConstantsOK == LoopConstants
<1>1. 1 \in 1..Len(Channels)
  <2>1. Len(Channels) \in Nat /\ Len(Channels) # 0
    BY LoopAssumption
  <2> QED BY <2>1
<1>2. Channel # {}
  BY <1>1 DEF Channel
<1>3. None \notin Duty
  BY AbsentAssumption DEF Duty
<1>4. NaN \notin Temps
  BY AbsentAssumption, InputAssumption
<1>5. FallbackDuty \in Duty /\ FallbackDuty # None
  BY <1>3, KnobAssumption
<1>6. ErrorLimit \in Nat /\ ErrorLimit > 0 /\ StaleMax \in Nat
  BY LoopAssumption
<1> QED BY <1>2, <1>3, <1>4, <1>5, <1>6 DEF LoopConstants

Device == [Channel -> [manual : BOOLEAN, duty : Duty \cup {None}]]

(* A pass of writes or of mode settings leaves a device.                   *)
LEMMA WrittenDevice ==
  ASSUME device \in Device, NEW duty \in Duty, NEW failed
  PROVE  /\ Written(duty, failed) \in Device
         /\ \A c \in Channel :
              /\ Written(duty, failed)[c].manual = device[c].manual
              /\ c \notin failed => Written(duty, failed)[c].duty = duty
              /\ c \in failed => Written(duty, failed)[c].duty = device[c].duty
BY DEF Written, Device

LEMMA ModeSetDevice ==
  ASSUME device \in Device, NEW n
  PROVE  /\ ModeSet(n) \in Device
         /\ \A c \in Channel :
              /\ ModeSet(n)[c].duty = device[c].duty
              /\ device[c].manual => ModeSet(n)[c].manual
              /\ (\E i \in 1..n : Channels[i] = c) => ModeSet(n)[c].manual
BY DEF ModeSet, Device

(* A pass over all the channels puts every one of them in manual mode.     *)
LEMMA AllChannelsSet ==
  ASSUME device \in Device, NEW c \in Channel
  PROVE  ModeSet(Len(Channels))[c].manual
<1>1. \E i \in 1..Len(Channels) : Channels[i] = c
  BY DEF Channel
<1> QED BY <1>1, ModeSetDevice

(* A pass that succeeds is a pass over a valid handle.                     *)
LEMMA SuccessNeedsHandle ==
  ASSUME {} \in Failures
  PROVE  hub = "valid"
BY ConstantsOK DEF Failures, LoopConstants

----------------------------------------------------------------------------
LEMMA InitInv == Init => IInv
<1> SUFFICES ASSUME Init PROVE IInv
  OBVIOUS
<1> USE ConstantsOK DEF Init, CtlInit, LoopConstants
<1>1. device \in [Channel -> [manual : BOOLEAN, duty : Duty \cup {None}]]
  BY DEF Fresh
<1>2. TypeOK
  <2>1. /\ signals \in BOOLEAN /\ term \in BOOLEAN /\ fallbackActive \in BOOLEAN
        /\ hubPresent \in BOOLEAN /\ attached \in BOOLEAN /\ calm \in BOOLEAN
    OBVIOUS
  <2>2. /\ CtlTypeOK /\ lastApplied \in Duty \cup {None}
        /\ errors \in 0..ErrorLimit /\ staleTicks \in 0..StaleMax
    BY DEF CtlTypeOK
  <2>3. pc = "start" /\ hub = "none"
    OBVIOUS
  <2> QED BY ONLY <1>1, <2>1, <2>2, <2>3 DEF TypeOK, CtlTypeOK
<1>3. HandleInv /\ AppliedInv
  BY DEF HandleInv, AppliedInv, InTick
<1>4. SyncInv /\ StaleInv
  BY DEF SyncInv, StaleInv, Due
<1> QED BY <1>2, <1>3, <1>4 DEF IInv

(* What opening the hub, or failing to, does to the device.                *)
LEMMA OpenDevice ==
  ASSUME TypeOK, OpenHub \/ OpenFails
  PROVE  /\ device' \in Device
         /\ \A c \in Channel : /\ device'[c].duty = device[c].duty
                               /\ device[c].manual => device'[c].manual
         /\ OpenHub => \A c \in Channel : device'[c].manual
<1>1. device \in Device
  BY DEF TypeOK, Device
<1>2. CASE OpenHub
  <2>1. device' = ModeSet(Len(Channels))
    BY <1>2 DEF OpenHub
  <2> QED BY <1>1, <2>1, ModeSetDevice, AllChannelsSet
<1>3. CASE OpenFails /\ ~OpenHub
  <2>1. PICK n \in 0..(Len(Channels) - 1) : device' = ModeSet(n)
    BY <1>3 DEF OpenFails
  <2> QED BY <1>1, <1>3, <2>1, ModeSetDevice
<1> QED BY <1>2, <1>3

LEMMA StartStep == IInv /\ Start => IInv'
<1> SUFFICES ASSUME IInv, Start PROVE IInv'
  OBVIOUS
<1> USE ConstantsOK DEF LoopConstants
<1>0. TypeOK /\ HandleInv /\ AppliedInv /\ SyncInv /\ StaleInv
  BY DEF IInv
<1>1. /\ pc = "start" /\ hub = "none" /\ lastApplied = None /\ staleTicks = 0
      /\ OpenHub \/ OpenFails
      /\ UNCHANGED <<lastDuty, lastTemp, decision, signals, term, errors,
                     lastApplied, fallbackActive, attached, calm, staleTicks>>
  BY <1>0 DEF Start, HandleInv, ctlVars
<1>2. \/ pc' = "top" /\ hub' = "valid" /\ OpenHub
      \/ pc' = "hubWait" /\ hub' = "none" /\ OpenFails
  BY <1>1 DEF Start, OpenHub, OpenFails
<1>3. hubPresent' \in BOOLEAN
  BY <1>1 DEF OpenHub, OpenFails
<1>4. TypeOK'
  BY <1>0, <1>1, <1>2, <1>3, OpenDevice DEF TypeOK, Device
<1>5. HandleInv'
  BY <1>0, <1>1, <1>2, OpenDevice DEF HandleInv, OpenHub
<1>6. AppliedInv'
  BY <1>0, <1>1, <1>2 DEF AppliedInv, InTick
<1>7. SyncInv' /\ StaleInv'
  BY <1>0, <1>1, <1>2 DEF SyncInv, StaleInv, Due, TypeOK
<1> QED BY <1>4, <1>5, <1>6, <1>7 DEF IInv

(* Steps that only move the program counter.                               *)
LEMMA PcStep == IInv /\ (HubWait \/ Sleep \/ Terminate) => IInv'
<1> SUFFICES ASSUME IInv, HubWait \/ Sleep \/ Terminate PROVE IInv'
  OBVIOUS
<1> USE ConstantsOK DEF LoopConstants
<1>0. TypeOK /\ HandleInv /\ AppliedInv /\ SyncInv /\ StaleInv
  BY DEF IInv
<1>1. UNCHANGED <<lastDuty, lastTemp, decision, signals, term, hub, errors,
                  lastApplied, fallbackActive, hubPresent, attached, device,
                  calm, staleTicks>>
  BY DEF HubWait, Sleep, Terminate, ctlVars, envVars
<1>2. \/ pc = "hubWait" /\ pc' \in {"exited", "start"}
      \/ pc = "sleep" /\ pc' = "top"
      \/ pc = "top" /\ pc' = "shutdown"
  BY DEF HubWait, Sleep, Terminate
<1>3. TypeOK'
  BY <1>0, <1>1, <1>2 DEF TypeOK
<1>4. HandleInv'
  BY <1>0, <1>1, <1>2 DEF HandleInv
<1>5. AppliedInv'
  BY <1>0, <1>1, <1>2 DEF AppliedInv, InTick
<1>6. SyncInv' /\ StaleInv'
  BY <1>0, <1>1, <1>2 DEF SyncInv, StaleInv, Due
<1> QED BY <1>3, <1>4, <1>5, <1>6 DEF IInv

(* Every decision is either the fallback or a step toward a percentage.    *)
LEMMA SenseCases ==
  ASSUME Sense
  PROVE  \/ fallbackActive' = TRUE /\ ForceDuty
         \/ /\ fallbackActive' = FALSE
            /\ \E target \in Duty, temp \in Temps \cup {None} :
                 StepToward(target, temp)
<1>1. CASE SenseLegacy
  <2>1. PICK gpu \in GpuReadings \cup {None}, cpu \in CpuReadings \cup {None} :
           IF ControlTemp(gpu, cpu) = None
           THEN ForceDuty /\ fallbackActive' = TRUE
           ELSE Decide(ControlTemp(gpu, cpu)) /\ fallbackActive' = FALSE
    BY <1>1 DEF SenseLegacy
  <2>2. CASE ControlTemp(gpu, cpu) = None
    BY <2>1, <2>2
  <2>3. CASE ControlTemp(gpu, cpu) # None
    <3>1. ControlTemp(gpu, cpu) \in Temps
      BY <2>3, ReadingAssumption
    <3>2. Target(ControlTemp(gpu, cpu)) \in Duty
      BY <3>1, TargetInRange
    <3> QED BY <2>1, <2>3, <3>1, <3>2 DEF Decide
  <2> QED BY <2>2, <2>3
<1>2. CASE SenseFused
  <2>1. CASE ForceDuty /\ fallbackActive' = TRUE
    BY <2>1
  <2>2. CASE (\E d \in Targets : DecideTarget(d)) /\ fallbackActive' = FALSE
    BY <2>2, InputAssumption DEF DecideTarget
  <2> QED BY <1>2, <2>1, <2>2 DEF SenseFused
<1> QED BY <1>1, <1>2 DEF Sense

LEMMA SenseStep == IInv /\ Sense => IInv'
<1> SUFFICES ASSUME IInv, Sense PROVE IInv'
  OBVIOUS
<1> USE ConstantsOK DEF LoopConstants
<1>0. TypeOK /\ HandleInv /\ AppliedInv /\ SyncInv /\ StaleInv
  BY DEF IInv
<1>1. /\ pc = "top" /\ pc' = "apply"
      /\ UNCHANGED <<signals, term, hub, errors, lastApplied, hubPresent,
                     attached, device, calm>>
      /\ staleTicks' = IF hub # "stale" THEN 0
                       ELSE IF staleTicks < StaleMax THEN staleTicks + 1 ELSE StaleMax
  BY DEF Sense, envVars
<1>2. CtlTypeOK /\ lastApplied = lastDuty
  BY <1>0, <1>1 DEF TypeOK, CtlTypeOK, AppliedInv
<1>3. CtlTypeOK' /\ fallbackActive' \in BOOLEAN
  BY <1>2, SenseCases, StepTowardWalks, ForceSets
<1>4. \/ fallbackActive' = TRUE /\ decision' = FallbackDuty /\ lastDuty' = FallbackDuty
      \/ /\ fallbackActive' = FALSE
         /\ decision' \in {lastDuty', None}
         /\ lastDuty = None => decision' = lastDuty'
         /\ lastDuty # None =>
              /\ lastDuty' - lastDuty <= MaxStep
              /\ lastDuty - lastDuty' <= MaxStep
              /\ decision' = None => lastDuty' = lastDuty
  <2>1. CASE fallbackActive' = TRUE /\ ForceDuty
    BY <1>2, <2>1, ForceSets
  <2>2. ASSUME fallbackActive' = FALSE, NEW target \in Duty,
               NEW temp \in Temps \cup {None}, StepToward(target, temp)
        PROVE  /\ fallbackActive' = FALSE
               /\ decision' \in {lastDuty', None}
               /\ lastDuty = None => decision' = lastDuty'
               /\ lastDuty # None =>
                    /\ lastDuty' - lastDuty <= MaxStep
                    /\ lastDuty - lastDuty' <= MaxStep
                    /\ decision' = None => lastDuty' = lastDuty
    BY <1>2, <2>2, StepTowardWalks
  <2> QED BY <2>1, <2>2, SenseCases
<1>5. lastDuty' \in Duty
  BY <1>2, SenseCases, StepTowardWalks, ForceSets
<1>6. TypeOK'
  <2>1. staleTicks' \in 0..StaleMax
    BY <1>0, <1>1 DEF TypeOK
  <2> QED BY <1>0, <1>1, <1>3, <2>1 DEF TypeOK, CtlTypeOK
<1>7. HandleInv'
  BY <1>0, <1>1 DEF HandleInv
<1>8. AppliedInv'
  <2>1. decision' = None => lastApplied' = lastDuty' /\ lastApplied' # None
    BY <1>1, <1>2, <1>4, <1>5
  <2>2. fallbackActive' => decision' = FallbackDuty
    BY <1>4
  <2>3. decision' # None => decision' = lastDuty'
    BY <1>4
  <2>4. (decision' # None /\ lastApplied' # None /\ ~fallbackActive') =>
           decision' - lastApplied' <= MaxStep /\ lastApplied' - decision' <= MaxStep
    BY <1>1, <1>2, <1>4
  <2> QED BY <1>1, <2>1, <2>2, <2>3, <2>4 DEF AppliedInv, InTick
<1>9. SyncInv'
  BY <1>0, <1>1 DEF SyncInv
<1>10. StaleInv'
  BY <1>0, <1>1 DEF StaleInv, Due, TypeOK
<1> QED BY <1>6, <1>7, <1>8, <1>9, <1>10 DEF IInv

(* A pass of writes that counts its failure: the count is zero only if     *)
(* every channel took the duty, and it grows on a handle gone stale.       *)
LEMMA CountedPass ==
  ASSUME TypeOK, NEW duty \in Duty, NEW failed \in Failures,
         device' = Written(duty, failed),
         errors' = IF failed = {} THEN 0 ELSE CountError
  PROVE  /\ device' \in Device
         /\ \A c \in Channel : /\ device'[c].manual = device[c].manual
                               /\ device'[c].duty \in {device[c].duty, duty}
         /\ errors' \in 0..ErrorLimit
         /\ errors' = 0 => \A c \in Channel : device'[c].duty = duty
         /\ hub # "valid" => errors' = CountError
<1> USE ConstantsOK DEF LoopConstants
<1>1. device \in Device /\ errors \in 0..ErrorLimit
  BY DEF TypeOK, Device
<1>2. device' \in Device
  BY <1>1, WrittenDevice
<1>3. \A c \in Channel : device'[c].manual = device[c].manual
  BY <1>1, WrittenDevice
<1>4. \A c \in Channel : device'[c].duty \in {device[c].duty, duty}
  BY <1>1, WrittenDevice
<1>5. \A c \in Channel : c \notin failed => device'[c].duty = duty
  BY <1>1, WrittenDevice
<1>6. CountError \in 1..ErrorLimit
  BY <1>1 DEF CountError
<1>7. errors' \in 0..ErrorLimit /\ (errors' = 0 => failed = {})
  BY <1>1, <1>6
<1>8. errors' = 0 => \A c \in Channel : device'[c].duty = duty
  BY ONLY <1>5, <1>7
<1>9. hub # "valid" => errors' = CountError
  BY SuccessNeedsHandle
<1> QED BY ONLY <1>2, <1>3, <1>4, <1>7, <1>8, <1>9

LEMMA CountGrows ==
  ASSUME errors \in 0..ErrorLimit
  PROVE  /\ CountError \in 1..ErrorLimit
         /\ CountError = ErrorLimit \/ CountError = errors + 1
         /\ errors = ErrorLimit => CountError = ErrorLimit
BY ConstantsOK DEF CountError, LoopConstants

LEMMA ApplyStep == IInv /\ Apply => IInv'
<1> SUFFICES ASSUME IInv, Apply PROVE IInv'
  OBVIOUS
<1> USE ConstantsOK DEF LoopConstants
<1>0. TypeOK /\ HandleInv /\ AppliedInv /\ SyncInv /\ StaleInv
  BY DEF IInv
<1>1. /\ pc = "apply" /\ pc' = "rpm"
      /\ UNCHANGED <<lastDuty, lastTemp, decision, signals, term, hub,
                     fallbackActive, hubPresent, attached, calm, staleTicks>>
  BY DEF Apply, ctlVars
<1>2. decision \in Duty \cup {None} /\ errors \in 0..ErrorLimit /\ staleTicks \in Nat
  BY <1>0 DEF TypeOK
<1>3. CASE decision = None
  <2>1. UNCHANGED <<lastApplied, device, errors>>
    BY <1>3 DEF Apply
  <2>2. TypeOK'
    BY <1>0, <1>1, <2>1 DEF TypeOK
  <2>3. HandleInv'
    BY <1>0, <1>1, <2>1 DEF HandleInv
  <2>4. AppliedInv'
    BY <1>0, <1>1, <1>3, <2>1 DEF AppliedInv, InTick
  <2>5. SyncInv'
    BY <1>0, <1>1, <2>1 DEF SyncInv
  <2>6. StaleInv'
    BY <1>0, <1>1, <2>1 DEF StaleInv, Due
  <2> QED BY <2>2, <2>3, <2>4, <2>5, <2>6 DEF IInv
<1>4. CASE decision \in Duty
  <2>1. PICK failed \in Failures :
           /\ device' = Written(decision, failed)
           /\ errors' = IF failed = {} THEN 0 ELSE CountError
    BY <1>4 DEF Apply
  <2>2. lastApplied' = decision
    BY <1>4 DEF Apply
  <2>3. /\ device' \in Device
        /\ \A c \in Channel : device'[c].manual = device[c].manual
        /\ errors' \in 0..ErrorLimit
        /\ errors' = 0 => \A c \in Channel : device'[c].duty = decision
        /\ hub # "valid" => errors' = CountError
    BY <1>0, <1>4, <2>1, CountedPass
  <2>4. TypeOK'
    BY <1>0, <1>1, <1>4, <2>2, <2>3 DEF TypeOK, Device
  <2>5. HandleInv'
    BY <1>0, <1>1, <2>3 DEF HandleInv
  <2>6. AppliedInv'
    BY <1>0, <1>1, <1>4, <2>2 DEF AppliedInv, InTick
  <2>7. SyncInv'
    BY <1>0, <1>1, <2>2, <2>3 DEF SyncInv
  <2>8. StaleInv'
    <3>1. hub = "valid" => staleTicks = 0
      BY <1>0 DEF StaleInv
    <3>2. CASE hub = "stale"
      <4>1. errors' = CountError /\ errors + 1 >= Due
        BY <1>0, <1>1, <2>3, <3>2 DEF StaleInv
      <4>2. errors' >= Due
        BY ONLY <1>2, <4>1, CountGrows, ConstantsOK DEF Due, LoopConstants
      <4> QED BY <1>1, <1>2, <2>3, <3>2, <4>2 DEF StaleInv, Due
    <3> QED BY <1>1, <3>1, <3>2 DEF StaleInv
  <2> QED BY <2>4, <2>5, <2>6, <2>7, <2>8 DEF IInv
<1> QED BY <1>2, <1>3, <1>4

LEMMA ReadRpmStep == IInv /\ ReadRpm => IInv'
<1> SUFFICES ASSUME IInv, ReadRpm PROVE IInv'
  OBVIOUS
<1> USE ConstantsOK DEF LoopConstants
<1>0. TypeOK /\ HandleInv /\ AppliedInv /\ SyncInv /\ StaleInv
  BY DEF IInv
<1>1. /\ pc = "rpm"
      /\ UNCHANGED <<lastDuty, lastTemp, decision, signals, term, hub, lastApplied,
                     fallbackActive, hubPresent, attached, device, calm, staleTicks>>
  BY DEF ReadRpm, ctlVars, envVars
<1>2. PICK failed \in Failures : errors' = IF failed = {} THEN errors ELSE CountError
  BY DEF ReadRpm
<1>3. errors \in 0..ErrorLimit /\ staleTicks \in Nat
  BY <1>0 DEF TypeOK
<1>4. /\ errors' \in 0..ErrorLimit /\ errors' >= errors
      /\ hub # "valid" => errors' = CountError
  BY <1>2, <1>3, CountGrows, SuccessNeedsHandle
<1>5. \/ pc' = "recover" /\ errors' = ErrorLimit
      \/ pc' = "sleep"
  BY <1>4 DEF ReadRpm
<1>6. TypeOK'
  BY <1>0, <1>1, <1>4, <1>5 DEF TypeOK
<1>7. HandleInv'
  BY <1>0, <1>1, <1>5 DEF HandleInv
<1>8. AppliedInv'
  BY <1>0, <1>1, <1>5 DEF AppliedInv, InTick
<1>9. SyncInv'
  BY <1>0, <1>1, <1>3, <1>4, <1>5 DEF SyncInv
<1>10. StaleInv'
  <2>1. hub = "valid" => staleTicks = 0
    BY <1>0 DEF StaleInv
  <2>2. CASE hub = "stale"
    <3>1. errors' = CountError /\ errors + 1 >= Due
      BY <1>0, <1>1, <1>4, <2>2 DEF StaleInv
    <3>2. errors' >= Due
      BY ONLY <1>3, <3>1, CountGrows, ConstantsOK DEF Due, LoopConstants
    <3> QED BY <1>1, <1>5, <2>2, <3>2 DEF StaleInv, Due
  <2> QED BY <1>1, <2>1, <2>2 DEF StaleInv
<1> QED BY <1>6, <1>7, <1>8, <1>9, <1>10 DEF IInv

LEMMA RecoverStep == IInv /\ Recover => IInv'
<1> SUFFICES ASSUME IInv, Recover PROVE IInv'
  OBVIOUS
<1> USE ConstantsOK DEF LoopConstants
<1>0. TypeOK /\ HandleInv /\ AppliedInv /\ SyncInv /\ StaleInv
  BY DEF IInv
<1>1. /\ pc = "recover"
      /\ OpenHub \/ OpenFails
      /\ UNCHANGED <<lastDuty, lastTemp, decision, signals, term, errors,
                     lastApplied, fallbackActive, attached, calm>>
  BY DEF Recover, ctlVars
<1>2. \/ pc' = "reapply" /\ hub' = "valid" /\ OpenHub /\ staleTicks' = 0
      \/ pc' = "sleep" /\ hub' = hub /\ OpenFails /\ staleTicks' = staleTicks
  BY DEF Recover, OpenHub, OpenFails
<1>3. hubPresent' \in BOOLEAN
  BY <1>1 DEF OpenHub, OpenFails
<1>4. TypeOK'
  BY <1>0, <1>1, <1>2, <1>3, OpenDevice DEF TypeOK, Device
<1>5. HandleInv'
  <2>1. CASE OpenHub /\ hub' = "valid" /\ pc' = "reapply"
    BY <1>0, <1>1, <2>1, OpenDevice DEF HandleInv, OpenHub
  <2>2. CASE OpenFails /\ hub' = hub /\ pc' = "sleep"
    BY <1>0, <1>1, <2>2, OpenDevice DEF HandleInv
  <2> QED BY <1>2, <2>1, <2>2
<1>6. AppliedInv'
  BY <1>0, <1>1, <1>2 DEF AppliedInv, InTick
<1>7. SyncInv'
  BY <1>0, <1>1, <1>2 DEF SyncInv
<1>8. StaleInv'
  BY <1>0, <1>1, <1>2 DEF StaleInv, Due
<1> QED BY <1>4, <1>5, <1>6, <1>7, <1>8 DEF IInv

LEMMA ReapplyStep == IInv /\ Reapply => IInv'
<1> SUFFICES ASSUME IInv, Reapply PROVE IInv'
  OBVIOUS
<1> USE ConstantsOK DEF LoopConstants
<1>0. TypeOK /\ HandleInv /\ AppliedInv /\ SyncInv /\ StaleInv
  BY DEF IInv
<1>1. /\ pc = "reapply" /\ pc' = "sleep"
      /\ UNCHANGED <<lastDuty, lastTemp, decision, signals, term, hub, lastApplied,
                     fallbackActive, hubPresent, attached, calm, staleTicks>>
  BY DEF Reapply, ctlVars
<1>2. /\ errors \in 0..ErrorLimit /\ errors = ErrorLimit /\ staleTicks \in Nat
      /\ lastApplied \in Duty
  BY <1>0, <1>1 DEF TypeOK, SyncInv, AppliedInv, InTick
<1>3. PICK failed \in Failures :
         /\ device' = Written(lastApplied, failed)
         /\ errors' = IF failed = {} THEN 0 ELSE CountError
  BY <1>2 DEF Reapply
<1>4. /\ device' \in Device
      /\ \A c \in Channel : device'[c].manual = device[c].manual
      /\ errors' \in 0..ErrorLimit
      /\ errors' = 0 => \A c \in Channel : device'[c].duty = lastApplied
      /\ hub # "valid" => errors' = CountError
  BY <1>0, <1>2, <1>3, CountedPass
<1>5. TypeOK'
  BY <1>0, <1>1, <1>4 DEF TypeOK, Device
<1>6. HandleInv'
  BY <1>0, <1>1, <1>4 DEF HandleInv
<1>7. AppliedInv'
  BY <1>0, <1>1 DEF AppliedInv, InTick
<1>8. SyncInv'
  BY <1>0, <1>1, <1>4 DEF SyncInv
<1>9. StaleInv'
  <2>1. hub = "valid" => staleTicks = 0
    BY <1>0 DEF StaleInv
  <2>2. CASE hub = "stale"
    <3>1. errors' = ErrorLimit
      BY <1>2, <1>4, <2>2, CountGrows
    <3> QED BY <1>1, <1>2, <2>2, <3>1 DEF StaleInv, Due
  <2> QED BY <1>1, <2>1, <2>2 DEF StaleInv
<1> QED BY <1>5, <1>6, <1>7, <1>8, <1>9 DEF IInv

LEMMA ShutdownStep == IInv /\ Shutdown => IInv'
<1> SUFFICES ASSUME IInv, Shutdown PROVE IInv'
  OBVIOUS
<1> USE ConstantsOK DEF LoopConstants
<1>0. TypeOK /\ HandleInv /\ AppliedInv /\ SyncInv /\ StaleInv
  BY DEF IInv
<1>1. /\ pc = "shutdown" /\ pc' = "exited" /\ hub' = "none"
      /\ UNCHANGED <<lastDuty, lastTemp, decision, signals, term, errors, lastApplied,
                     fallbackActive, hubPresent, attached, calm, staleTicks>>
  BY DEF Shutdown, ctlVars
<1>2. device' \in Device
  <2>1. device \in Device
    BY <1>0 DEF TypeOK, Device
  <2>2. PICK failed \in Failures : device' = Written(FallbackDuty, failed)
    BY DEF Shutdown
  <2> QED BY <2>1, <2>2, WrittenDevice
<1>3. TypeOK'
  BY <1>0, <1>1, <1>2 DEF TypeOK, Device
<1>4. HandleInv'
  BY <1>1 DEF HandleInv
<1>5. AppliedInv'
  BY <1>0, <1>1 DEF AppliedInv, InTick
<1>6. SyncInv' /\ StaleInv'
  BY <1>1 DEF SyncInv, StaleInv
<1> QED BY <1>3, <1>4, <1>5, <1>6 DEF IInv

LEMMA SurroundingsStep == IInv /\ Surroundings => IInv'
<1> SUFFICES ASSUME IInv, Surroundings PROVE IInv'
  OBVIOUS
<1> USE ConstantsOK DEF LoopConstants
<1>0. TypeOK /\ HandleInv /\ AppliedInv /\ SyncInv /\ StaleInv
  BY DEF IInv
<1>1. CASE SigTerm
  <2>1. /\ term' \in BOOLEAN
        /\ UNCHANGED <<pc, lastDuty, lastTemp, decision, signals, hub, errors,
                       lastApplied, fallbackActive, hubPresent, attached, device,
                       calm, staleTicks>>
    BY <1>1 DEF SigTerm, ctlVars, envVars
  <2>2. TypeOK'
    BY <1>0, <2>1 DEF TypeOK
  <2>3. HandleInv' /\ AppliedInv'
    BY <1>0, <2>1 DEF HandleInv, AppliedInv, InTick
  <2>4. SyncInv' /\ StaleInv'
    BY <1>0, <2>1 DEF SyncInv, StaleInv, Due
  <2> QED BY <2>2, <2>3, <2>4 DEF IInv
<1>2. CASE Kill
  <2>1. /\ pc' = "dead" /\ hub' = "none"
        /\ UNCHANGED <<lastDuty, lastTemp, decision, signals, term, errors,
                       lastApplied, fallbackActive, hubPresent, attached, device,
                       calm, staleTicks>>
    BY <1>2 DEF Kill, ctlVars, envVars
  <2>2. TypeOK'
    BY <1>0, <2>1 DEF TypeOK
  <2>3. HandleInv' /\ AppliedInv'
    BY <2>1 DEF HandleInv, AppliedInv, InTick
  <2>4. SyncInv' /\ StaleInv'
    BY <2>1 DEF SyncInv, StaleInv
  <2> QED BY <2>2, <2>3, <2>4 DEF IInv
<1>3. CASE Restart
  <2>1. /\ pc' = "start" /\ hub' = "none" /\ errors' = 0 /\ lastApplied' = None
        /\ lastDuty' = None /\ lastTemp' = NaN /\ decision' = None
        /\ staleTicks' = 0
        /\ UNCHANGED <<signals, attached, device, calm>>
    BY <1>3 DEF Restart, envVars
  <2>2. term' \in BOOLEAN /\ fallbackActive' \in BOOLEAN /\ hubPresent' \in BOOLEAN
    BY <1>3 DEF Restart
  <2>3. TypeOK'
    BY <1>0, <2>1, <2>2 DEF TypeOK
  <2>4. HandleInv' /\ AppliedInv'
    BY <2>1 DEF HandleInv, AppliedInv, InTick
  <2>5. SyncInv' /\ StaleInv'
    BY <2>1 DEF SyncInv, StaleInv
  <2> QED BY <2>3, <2>4, <2>5 DEF IInv
<1>4. CASE Unplug
  <2>1. /\ attached' \in BOOLEAN
        /\ hub' = IF hub = "valid" THEN "stale" ELSE hub
        /\ UNCHANGED <<pc, lastDuty, lastTemp, decision, signals, term, errors,
                       lastApplied, fallbackActive, hubPresent, device, calm,
                       staleTicks>>
    BY <1>4 DEF Unplug, ctlVars
  <2>2. TypeOK'
    BY <1>0, <2>1 DEF TypeOK
  <2>3. HandleInv' /\ AppliedInv'
    BY <1>0, <2>1 DEF HandleInv, AppliedInv, InTick, TypeOK
  <2>4. SyncInv' /\ StaleInv'
    BY <1>0, <2>1 DEF SyncInv, StaleInv, Due, TypeOK
  <2> QED BY <2>2, <2>3, <2>4 DEF IInv
<1>5. CASE Plug
  <2>1. /\ ~attached /\ attached' \in BOOLEAN
        /\ UNCHANGED <<pc, lastDuty, lastTemp, decision, signals, term, hub, errors,
                       lastApplied, fallbackActive, hubPresent, calm, staleTicks>>
    BY <1>5 DEF Plug, progVars, ctlVars
  <2>2. device' \in Device
    <3>1. device \in Device
      BY <1>0 DEF TypeOK, Device
    <3>2. [c \in Channel |-> Fresh] \in Device
      BY DEF Fresh, Device
    <3> QED BY <1>5, <3>1, <3>2 DEF Plug
  <2>3. TypeOK'
    BY <1>0, <2>1, <2>2 DEF TypeOK, Device
  <2>4. hub # "valid"
    BY <1>0, <2>1 DEF HandleInv
  <2>5. HandleInv' /\ AppliedInv'
    BY <1>0, <2>1, <2>4 DEF HandleInv, AppliedInv, InTick
  <2>6. SyncInv' /\ StaleInv'
    BY <1>0, <2>1, <2>4 DEF SyncInv, StaleInv, Due
  <2> QED BY <2>3, <2>5, <2>6 DEF IInv
<1>6. CASE CalmDown
  <2>1. /\ calm' \in BOOLEAN
        /\ UNCHANGED <<pc, lastDuty, lastTemp, decision, signals, term, hub, errors,
                       lastApplied, fallbackActive, hubPresent, attached, device>>
        /\ staleTicks' = 0
    BY <1>6 DEF CalmDown, progVars, ctlVars
  <2>2. TypeOK'
    BY <1>0, <2>1 DEF TypeOK
  <2>3. HandleInv' /\ AppliedInv'
    BY <1>0, <2>1 DEF HandleInv, AppliedInv, InTick
  <2>4. SyncInv'
    BY <1>0, <2>1 DEF SyncInv
  <2>5. StaleInv'
    <3>1. errors' >= 0 /\ Due' = 0
      BY <1>0, <2>1 DEF TypeOK, Due
    <3>2. errors' \in Nat
      BY <1>0, <2>1 DEF TypeOK
    <3> QED BY <2>1, <3>1, <3>2 DEF StaleInv
  <2> QED BY <2>2, <2>3, <2>4, <2>5 DEF IInv
<1> QED BY <1>1, <1>2, <1>3, <1>4, <1>5, <1>6 DEF Surroundings

(* IInv is inductive.                                                      *)
LEMMA StepInv == IInv /\ [Next]_vars => IInv'
<1> SUFFICES ASSUME IInv, [Next]_vars PROVE IInv'
  OBVIOUS
<1>1. CASE Daemon
  BY <1>1, StartStep, PcStep, SenseStep, ApplyStep, ReadRpmStep, RecoverStep,
     ReapplyStep, ShutdownStep DEF Daemon
<1>2. CASE Surroundings
  BY <1>2, SurroundingsStep
<1>3. CASE UNCHANGED vars
  <2>1. UNCHANGED <<pc, lastDuty, lastTemp, decision, signals, term, hub, errors,
                    lastApplied, fallbackActive, hubPresent, attached, device,
                    calm, staleTicks>>
    BY <1>3 DEF vars, progVars, ctlVars, envVars
  <2>2. TypeOK'
    BY <2>1 DEF IInv, TypeOK
  <2>3. HandleInv' /\ AppliedInv'
    BY <2>1 DEF IInv, HandleInv, AppliedInv, InTick
  <2>4. SyncInv' /\ StaleInv'
    BY <2>1 DEF IInv, SyncInv, StaleInv, Due
  <2> QED BY <2>2, <2>3, <2>4 DEF IInv
<1> QED BY <1>1, <1>2, <1>3 DEF Next

LEMMA Invariance == Spec => []IInv
BY InitInv, StepInv, PTL DEF Spec

----------------------------------------------------------------------------
(* A calm system.  The device stays, and a tick that ends with the handle  *)
(* still stale has not used up the ErrorLimit ticks yet: the one that uses *)
(* them up goes on to re-enumerate, which cannot fail any more.            *)
Judging == {"apply", "rpm", "recover"}     \* of a tick begun, still to recover

CalmInv ==
  calm => /\ attached
          /\ staleTicks <= ErrorLimit
          /\ (hub = "stale" /\ pc \notin Judging) => staleTicks < ErrorLimit

LEMMA CalmStep == IInv /\ IInv' /\ CalmInv /\ [Next]_vars => CalmInv'
<1> SUFFICES ASSUME IInv, IInv', CalmInv, [Next]_vars, calm' PROVE CalmInv'
  BY DEF CalmInv
<1>1. /\ ErrorLimit \in Nat /\ ErrorLimit > 0
      /\ StaleMax \in Nat /\ StaleMax > ErrorLimit
      /\ staleTicks \in 0..StaleMax
  BY LoopAssumption DEF IInv, TypeOK
<1>2. CASE Start \/ HubWait \/ Shutdown
  <2>1. /\ UNCHANGED <<calm, attached, staleTicks>>
        /\ hub' # "stale"
    BY <1>2 DEF Start, HubWait, Shutdown, envVars, OpenHub, OpenFails, IInv, HandleInv
  <2> QED BY <2>1 DEF CalmInv
<1>3. CASE Sense
  <2>1. /\ UNCHANGED <<calm, attached, hub>> /\ pc = "top" /\ pc' = "apply"
        /\ staleTicks' = IF hub # "stale" THEN 0
                         ELSE IF staleTicks < StaleMax THEN staleTicks + 1 ELSE StaleMax
    BY <1>3 DEF Sense, envVars
  <2> QED BY <1>1, <2>1 DEF CalmInv, Judging
<1>4. CASE Apply \/ Sleep \/ Terminate
  <2>1. /\ UNCHANGED <<calm, attached, hub, staleTicks>>
        /\ \/ pc' \in Judging
           \/ pc \in {"top", "sleep"}
    BY <1>4 DEF Apply, Sleep, Terminate, envVars, Judging
  <2> QED BY <2>1 DEF CalmInv, Judging
<1>5. CASE ReadRpm
  <2>1. /\ UNCHANGED <<calm, attached, hub, staleTicks>>
        /\ \/ pc' = "recover"
           \/ pc' = "sleep" /\ ~(errors' >= ErrorLimit)
    BY <1>5 DEF ReadRpm, envVars
  <2>2. CASE pc' = "recover"
    BY <2>1, <2>2 DEF CalmInv, Judging
  <2>3. CASE pc' = "sleep" /\ ~(errors' >= ErrorLimit)
    <3>1. hub' = "stale" => errors' >= Due'
      BY <2>3 DEF IInv, StaleInv
    <3>2. errors' \in Nat
      BY <1>1 DEF IInv, TypeOK
    <3>3. hub' = "stale" => staleTicks' < ErrorLimit
      BY <1>1, <2>1, <2>3, <3>1, <3>2 DEF Due
    <3> QED BY <2>1, <3>3 DEF CalmInv
  <2> QED BY <2>1, <2>2, <2>3
<1>6. CASE Recover
  <2>1. calm /\ attached
    BY <1>6 DEF Recover, CalmInv
  <2>2. hub' = "valid" /\ staleTicks' = 0 /\ attached' = attached
    BY <1>6, <2>1 DEF Recover, OpenHub, OpenFails
  <2> QED BY <1>1, <2>1, <2>2 DEF CalmInv
<1>7. CASE Reapply
  <2>1. UNCHANGED <<calm, attached, hub, staleTicks>> /\ pc = "reapply"
    BY <1>7 DEF Reapply
  <2> QED BY <2>1 DEF CalmInv, Judging
<1>8. CASE SigTerm
  BY <1>8 DEF SigTerm, envVars, CalmInv
<1>9. CASE Kill \/ Unplug
  BY <1>9 DEF Kill, Unplug, envVars
<1>10. CASE Plug
  BY <1>10 DEF Plug, CalmInv
<1>11. CASE Restart
  BY <1>1, <1>11 DEF Restart, envVars, CalmInv
<1>12. CASE CalmDown
  BY <1>1, <1>12 DEF CalmDown, CalmInv
<1>13. CASE UNCHANGED vars
  BY <1>13 DEF vars, progVars, envVars, CalmInv
<1> QED BY <1>2, <1>3, <1>4, <1>5, <1>6, <1>7, <1>8, <1>9, <1>10, <1>11, <1>12,
           <1>13 DEF Next, Daemon, Surroundings

LEMMA CalmInvariance == Spec => []CalmInv
<1>1. Init => CalmInv
  BY DEF Init, CalmInv
<1> QED BY <1>1, CalmStep, Invariance, PTL DEF Spec

----------------------------------------------------------------------------
(* Type correctness of the loop, the controller in it and the hub.         *)
THEOREM TypeCorrect == Spec => []TypeOK
<1>1. IInv => TypeOK
  BY DEF IInv
<1> QED BY <1>1, Invariance, PTL

(* No errors on the books and a handle that works: every channel is in     *)
(* manual mode at the duty the daemon last applied (main.rs 642-652,       *)
(* 785-805), through partial writes, unplugs and re-inits.                 *)
THEOREM NoErrorsIsSync == Spec => []NoErrorsMeansInSync
<1>1. IInv => NoErrorsMeansInSync
  <2> SUFFICES ASSUME IInv, pc = "sleep", errors = 0, hub = "valid" PROVE InSync
    BY DEF NoErrorsMeansInSync
  <2>1. lastApplied # None
    BY DEF IInv, AppliedInv, InTick
  <2>2. \A c \in Channel : device[c].manual
    BY DEF IInv, HandleInv
  <2>3. \A c \in Channel : device[c].duty = lastApplied
    BY <2>1 DEF IInv, SyncInv
  <2>4. \A c \in Channel : device[c] \in [manual : BOOLEAN, duty : Duty \cup {None}]
    BY DEF IInv, TypeOK
  <2>5. Holds(lastApplied)
    BY <2>2, <2>3, <2>4 DEF Holds
  <2> QED BY <2>1, <2>5 DEF InSync
<1> QED BY <1>1, Invariance, PTL

(* With the sensors lost and no error on the books the hub is at the       *)
(* fallback duty (main.rs 610-631).                                        *)
THEOREM BlindIsFallback == Spec => []BlindMeansFallback
<1>1. IInv => BlindMeansFallback
  <2> SUFFICES ASSUME IInv, pc = "sleep", fallbackActive, errors = 0, hub = "valid"
               PROVE Holds(FallbackDuty)
    BY DEF BlindMeansFallback
  <2>1. lastApplied # None /\ lastApplied = FallbackDuty
    BY DEF IInv, AppliedInv, InTick
  <2>2. \A c \in Channel : device[c].manual
    BY DEF IInv, HandleInv
  <2>3. \A c \in Channel : device[c].duty = FallbackDuty
    BY <2>1 DEF IInv, SyncInv
  <2>4. \A c \in Channel : device[c] \in [manual : BOOLEAN, duty : Duty \cup {None}]
    BY DEF IInv, TypeOK
  <2> QED BY <2>2, <2>3, <2>4 DEF Holds
<1> QED BY <1>1, Invariance, PTL

(* A stale handle costs one error per tick, whether or not the tick writes *)
(* (main.rs 750-767), so re-enumeration cannot be put off by hysteresis.   *)
THEOREM StaleIsCounted == Spec => []StaleHandleCounted
<1>1. IInv => StaleHandleCounted
  BY DEF IInv, StaleInv, Due, StaleHandleCounted
<1> QED BY <1>1, Invariance, PTL

(* A fan in sync moves at most MaxStep in one step of the daemon or its    *)
(* surroundings, the fallback apart (curve.rs 75-106, main.rs 642-652).    *)
THEOREM NeverJumps == Spec => HubNeverJumps
<1> DEFINE Gentle ==
      (InSync /\ Alive /\ pc # "shutdown" /\ attached' /\ ~fallbackActive)
        => \A c \in Channel : device'[c].duty # None =>
             Abs(device'[c].duty - device[c].duty) <= MaxStep
<1>1. IInv /\ [Next]_vars => Gentle
  <2> SUFFICES ASSUME IInv, [Next]_vars, InSync, pc # "shutdown", ~fallbackActive,
                      NEW c \in Channel, device'[c].duty # None
               PROVE  Abs(device'[c].duty - device[c].duty) <= MaxStep
    OBVIOUS
  <2>1. /\ hub = "valid" /\ lastApplied \in Duty /\ device[c].duty = lastApplied
        /\ TypeOK
    BY DEF InSync, Holds, IInv, TypeOK
  <2>2. /\ lastApplied \in 0..100 /\ MaxStep \in 1..255
    BY <2>1, KnobAssumption DEF Duty
  <2>3. \/ device'[c].duty = lastApplied
        \/ /\ device'[c].duty \in Duty
           /\ device'[c].duty - lastApplied <= MaxStep
           /\ lastApplied - device'[c].duty <= MaxStep
    <3>1. CASE OpenHub \/ OpenFails
      BY <2>1, <3>1, OpenDevice
    <3>2. CASE Apply
      <4>1. CASE decision = None
        BY <2>1, <3>2, <4>1 DEF Apply
      <4>2. CASE decision # None
        <5>1. /\ decision \in Duty
              /\ decision - lastApplied <= MaxStep
              /\ lastApplied - decision <= MaxStep
          <6>1. pc = "apply" /\ lastApplied # None
            BY <2>1, <3>2, ConstantsOK DEF Apply, LoopConstants
          <6>2. decision \in Duty
            BY <2>1, <4>2 DEF TypeOK
          <6> QED BY <4>2, <6>1, <6>2 DEF IInv, AppliedInv
        <5>2. PICK failed \in Failures : device' = Written(decision, failed)
          BY <3>2, <4>2 DEF Apply
        <5>3. device'[c].duty \in {device[c].duty, decision}
          <6>1. device \in Device
            BY <2>1 DEF TypeOK, Device
          <6> QED BY <5>1, <5>2, <6>1, WrittenDevice
        <5> QED BY <2>1, <5>1, <5>3
      <4> QED BY <4>1, <4>2
    <3>3. CASE Reapply
      <4>1. lastApplied # None
        BY <2>1, ConstantsOK DEF LoopConstants
      <4>2. PICK failed \in Failures : device' = Written(lastApplied, failed)
        BY <3>3, <4>1 DEF Reapply
      <4>3. device \in Device
        BY <2>1 DEF TypeOK, Device
      <4> QED BY <2>1, <4>2, <4>3, WrittenDevice
    <3>4. CASE Plug
      BY <2>1, <3>4 DEF Plug, IInv, HandleInv
    <3>5. CASE UNCHANGED device
      BY <2>1, <3>5
    <3>6. \/ OpenHub \/ OpenFails \/ Apply \/ Reapply \/ Plug \/ UNCHANGED device
      <4>1. CASE Daemon
        BY <4>1 DEF Daemon, Start, HubWait, Sense, ReadRpm, Recover, Sleep,
                    Terminate, Shutdown, envVars
      <4>2. CASE Surroundings
        BY <4>2 DEF Surroundings, SigTerm, Kill, Restart, Unplug, CalmDown, envVars
      <4>3. CASE UNCHANGED vars
        BY <4>3 DEF vars, envVars
      <4> QED BY <4>1, <4>2, <4>3 DEF Next
    <3> QED BY <3>1, <3>2, <3>3, <3>4, <3>5, <3>6
  <2>4. device'[c].duty \in 0..100
    BY <2>2, <2>3 DEF Duty
  <2> QED BY <2>1, <2>2, <2>3, <2>4 DEF Abs
<1>2. Spec => [][Gentle]_vars
  BY <1>1, Invariance, PTL DEF Spec
<1> QED BY <1>2 DEF HubNeverJumps

----------------------------------------------------------------------------
(* The safety half of HubRecovers: of a calm system, a stale handle is in  *)
(* use for ErrorLimit ticks at most, held ticks included.                  *)
THEOREM BackAgain == Spec => []HubBackInTime
<1>1. CalmInv => HubBackInTime
  BY DEF CalmInv, HubBackInTime
<1> QED BY <1>1, CalmInvariance, PTL

(* Then the reapply that follows the re-init brings hub and daemon back in *)
(* sync (main.rs 785-805), and so does any tick that has a duty to write.  *)
CalmWriteSyncs ==
  [][(/\ calm /\ hub = "valid"
      /\ pc = "reapply" \/ (pc = "apply" /\ decision # None)
      /\ pc' \in {"sleep", "rpm"})
     => InSync']_vars

(* In sync, a calm system stays in sync up to its shutdown: held ticks,    *)
(* moves, forced fallbacks and the reapply all keep hub and daemon equal.  *)
CalmKeepsSync ==
  [][(calm /\ InSync /\ pc # "shutdown") => InSync']_vars

(* The writing steps of a calm loop over a valid handle.                   *)
LEMMA WritesReachAll ==
  ASSUME IInv, IInv', calm, hub = "valid",
         NEW duty \in Duty, device' = Written(duty, {}),
         lastApplied' = duty, hub' = hub
  PROVE  InSync'
<1>1. device \in Device /\ device' \in Device
  BY DEF IInv, TypeOK, Device
<1>2. \A c \in Channel : device'[c].duty = duty
  BY <1>1, WrittenDevice
<1>3. \A c \in Channel : device'[c].manual
  BY DEF IInv, HandleInv
<1>4. \A c \in Channel : device'[c] = [manual |-> TRUE, duty |-> duty]
  BY <1>1, <1>2, <1>3 DEF Device
<1>5. duty # None
  BY ConstantsOK DEF LoopConstants
<1> QED BY <1>4, <1>5 DEF InSync, Holds

LEMMA CalmWrite ==
  ASSUME IInv, IInv', calm, hub = "valid",
         Reapply \/ (Apply /\ decision # None)
  PROVE  InSync'
<1>1. Failures = {{}}
  BY DEF Failures
<1>2. CASE Reapply
  <2>1. lastApplied \in Duty
    BY <1>2 DEF Reapply, IInv, TypeOK, AppliedInv, InTick
  <2>2. lastApplied # None
    BY <2>1, ConstantsOK DEF LoopConstants
  <2>3. device' = Written(lastApplied, {}) /\ UNCHANGED <<lastApplied, hub>>
    BY <1>1, <1>2, <2>2 DEF Reapply
  <2> QED BY <2>1, <2>3, WritesReachAll
<1>3. CASE Apply /\ decision # None
  <2>1. decision \in Duty
    BY <1>3 DEF IInv, TypeOK
  <2>2. device' = Written(decision, {}) /\ lastApplied' = decision /\ hub' = hub
    BY <1>1, <1>3 DEF Apply
  <2> QED BY <2>1, <2>2, WritesReachAll
<1> QED BY <1>2, <1>3

(* Which action a move of pc is.                                           *)
LEMMA WriteMoves ==
  ASSUME [Next]_vars, pc \in {"reapply", "apply"}, pc' \in {"sleep", "rpm"}
  PROVE  \/ pc = "reapply" /\ Reapply
         \/ pc = "apply" /\ Apply
<1>1. CASE Daemon
  BY <1>1 DEF Daemon, Start, HubWait, Sense, Apply, ReadRpm, Recover, Reapply,
              Sleep, Terminate, Shutdown
<1>2. ~Surroundings
  BY DEF Surroundings, SigTerm, Kill, Restart, Unplug, Plug, CalmDown, progVars
<1>3. ~UNCHANGED vars
  BY DEF vars, progVars
<1> QED BY <1>1, <1>2, <1>3 DEF Next

THEOREM WriteSyncs == Spec => CalmWriteSyncs
<1> DEFINE Syncs == (/\ calm /\ hub = "valid"
                     /\ pc = "reapply" \/ (pc = "apply" /\ decision # None)
                     /\ pc' \in {"sleep", "rpm"})
                    => InSync'
<1>1. IInv /\ IInv' /\ [Next]_vars => [Syncs]_vars
  BY WriteMoves, CalmWrite
<1> QED BY <1>1, Invariance, PTL DEF Spec, CalmWriteSyncs

THEOREM SyncKept == Spec => CalmKeepsSync
<1> DEFINE Keeps == (calm /\ InSync /\ pc # "shutdown") => InSync'
<1>1. IInv /\ IInv' /\ CalmInv /\ [Next]_vars => [Keeps]_vars
  <2> SUFFICES ASSUME IInv, IInv', CalmInv, Next, calm, InSync, pc # "shutdown"
               PROVE  InSync'
    OBVIOUS
  <2>1. /\ hub = "valid" /\ lastApplied # None /\ attached
        /\ pc \notin {"start", "hubWait", "exited", "dead"}
    BY DEF InSync, IInv, HandleInv, CalmInv
  <2>2. CASE Reapply \/ (Apply /\ decision # None)
    BY <2>1, <2>2, CalmWrite
  <2>3. CASE Apply /\ decision = None
    <3>1. UNCHANGED <<lastApplied, device, hub>>
      BY <2>3 DEF Apply
    <3> QED BY <3>1 DEF InSync, Holds
  <2>4. CASE Recover
    <3>1. OpenHub /\ UNCHANGED lastApplied
      BY <2>1, <2>4 DEF Recover, OpenFails
    <3>2. /\ device' \in Device
          /\ \A c \in Channel : /\ device'[c].duty = device[c].duty
                                /\ device'[c].manual
      BY <3>1, OpenDevice DEF IInv
    <3>3. \A c \in Channel : device'[c] = [manual |-> TRUE, duty |-> lastApplied]
      BY <3>2 DEF InSync, Holds, Device
    <3> QED BY <2>1, <3>1, <3>3 DEF InSync, Holds, OpenHub
  <2>5. CASE Sense \/ ReadRpm \/ Sleep \/ Terminate
    BY <2>5 DEF Sense, ReadRpm, Sleep, Terminate, envVars, InSync, Holds
  <2>6. CASE SigTerm \/ CalmDown
    BY <2>6 DEF SigTerm, CalmDown, envVars, progVars, InSync, Holds
  <2>7. ~(Start \/ HubWait \/ Shutdown)
    BY <2>1 DEF Start, HubWait, Shutdown
  <2>8. ~(Kill \/ Restart \/ Unplug \/ Plug)
    BY <2>1 DEF Kill, Restart, Unplug, Plug, Alive
  <2> QED BY <2>2, <2>3, <2>4, <2>5, <2>6, <2>7, <2>8
          DEF Next, Daemon, Surroundings
<1> QED BY <1>1, Invariance, CalmInvariance, PTL DEF Spec, CalmKeepsSync

(* The safety half of BlindFansReachFallback: the first write of a blind   *)
(* tick in which nothing fails leaves every channel at the fallback duty,  *)
(* whatever failed before.  The fallback is decided afresh each tick.      *)
BlindWriteLands ==
  [][(calm /\ hub = "valid" /\ fallbackActive /\ pc = "apply" /\ pc' = "rpm")
       => Holds(FallbackDuty)']_vars

THEOREM BlindLands == Spec => BlindWriteLands
<1> DEFINE Lands == (calm /\ hub = "valid" /\ fallbackActive
                       /\ pc = "apply" /\ pc' = "rpm")
                    => Holds(FallbackDuty)'
<1>1. IInv /\ IInv' /\ [Next]_vars => [Lands]_vars
  <2> SUFFICES ASSUME IInv, IInv', [Next]_vars, calm, hub = "valid",
                      fallbackActive, pc = "apply", pc' = "rpm"
               PROVE  Holds(FallbackDuty)'
    OBVIOUS
  <2>1. Apply
    BY WriteMoves
  <2>2. decision = FallbackDuty /\ decision # None
    BY ConstantsOK DEF IInv, AppliedInv, LoopConstants
  <2>3. InSync' /\ lastApplied' = FallbackDuty
    BY <2>1, <2>2, CalmWrite DEF Apply
  <2> QED BY <2>3 DEF InSync, Holds
<1> QED BY <1>1, Invariance, PTL DEF Spec, BlindWriteLands

(* The safety half of TermEndsProcess, as a ranking: once the flag is up,  *)
(* the process can only move toward its end, from wherever it was, the     *)
(* wait for the hub and the recovery included - seven steps at most.       *)
StepsLeft ==
  [p \in {"apply", "rpm", "recover", "reapply", "sleep", "start", "top",
          "hubWait", "shutdown", "exited", "dead"} |->
     CASE p = "apply" -> 7              [] p = "rpm" -> 6
       [] p = "recover" -> 5            [] p = "reapply" -> 4
       [] p \in {"sleep", "start"} -> 3 [] p = "top" -> 2
       [] p \in {"hubWait", "shutdown"} -> 1
       [] p \in {"exited", "dead"} -> 0]

TermCountsDown ==
  [][(term /\ Alive) => /\ Daemon => StepsLeft[pc'] < StepsLeft[pc]
                        /\ term'
                        /\ StepsLeft[pc'] <= StepsLeft[pc]]_vars

THEOREM TermRanks == Spec => TermCountsDown
<1> DEFINE Ranks == (term /\ Alive)
                      => /\ Daemon => StepsLeft[pc'] < StepsLeft[pc]
                         /\ term'
                         /\ StepsLeft[pc'] <= StepsLeft[pc]
<1>1. /\ StepsLeft["apply"] = 7 /\ StepsLeft["rpm"] = 6
      /\ StepsLeft["recover"] = 5 /\ StepsLeft["reapply"] = 4
      /\ StepsLeft["sleep"] = 3 /\ StepsLeft["start"] = 3 /\ StepsLeft["top"] = 2
      /\ StepsLeft["hubWait"] = 1 /\ StepsLeft["shutdown"] = 1
      /\ StepsLeft["exited"] = 0 /\ StepsLeft["dead"] = 0
  BY DEF StepsLeft
<1>2. IInv /\ [Next]_vars => [Ranks]_vars
  <2> SUFFICES ASSUME IInv, Next, term, Alive
               PROVE  /\ Daemon => StepsLeft[pc'] < StepsLeft[pc]
                      /\ term'
                      /\ StepsLeft[pc'] <= StepsLeft[pc]
    OBVIOUS
  <2>1. CASE Daemon
    <3>1. term'
      BY <2>1 DEF Daemon, Start, HubWait, Sense, Apply, ReadRpm, Recover, Reapply,
                  Sleep, Terminate, Shutdown
    <3>2. \/ pc = "start" /\ pc' \in {"top", "hubWait"}
          \/ pc = "hubWait" /\ pc' = "exited"
          \/ pc = "apply" /\ pc' = "rpm"
          \/ pc = "rpm" /\ pc' \in {"recover", "sleep"}
          \/ pc = "recover" /\ pc' \in {"reapply", "sleep"}
          \/ pc = "reapply" /\ pc' = "sleep"
          \/ pc = "sleep" /\ pc' = "top"
          \/ pc = "top" /\ pc' = "shutdown"
          \/ pc = "shutdown" /\ pc' = "exited"
      BY <2>1 DEF Daemon, Start, HubWait, Sense, Apply, ReadRpm, Recover, Reapply,
                  Sleep, Terminate, Shutdown
    <3> HIDE DEF StepsLeft
    <3> QED BY <1>1, <3>1, <3>2
  <2>2. CASE Surroundings
    <3>1. term' /\ (pc' = pc \/ pc' = "dead")
      BY <2>2 DEF Surroundings, SigTerm, Kill, Restart, Unplug, Plug, CalmDown, progVars
    <3>2. StepsLeft[pc] \in Nat
      BY <1>1 DEF IInv, TypeOK
    <3>3. ~Daemon \/ StepsLeft[pc'] < StepsLeft[pc]
      BY <2>1
    <3> QED BY <1>1, <3>1, <3>2, <3>3
  <2> QED BY <2>1, <2>2 DEF Next
<1> QED BY <1>2, Invariance, PTL DEF Spec, TermCountsDown
=============================================================================

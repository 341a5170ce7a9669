---------------------------- MODULE ControlLoop ----------------------------
(***************************************************************************)
(* The daemon's main loop (src/main.rs), the hub it drives over a hidraw   *)
(* handle (src/hid.rs) and what can happen around it: the USB device goes  *)
(* away and comes back, single writes and reads fail, SIGTERM arrives at   *)
(* any point, the process is killed and started again.                     *)
(*                                                                         *)
(* A tick is a sequence of steps, pc naming the next one:                  *)
(*                                                                         *)
(*   start -> top -> apply -> rpm -> [recover -> [reapply]] -> sleep       *)
(*     |^      ^                                                 |         *)
(*     v|      +-------------------------------------------------+         *)
(*   hubWait           top -> shutdown -> exited    (any) -> dead          *)
(*                                                                         *)
(* Simplifications:                                                        *)
(*  - a pass over all channels (apply_duty, Hub::init, the shutdown write) *)
(*    is one step that picks which channels fail; an unplug in the middle  *)
(*    of a pass is that choice followed by Unplug;                         *)
(*  - a failed write leaves the channel as it was;                         *)
(*  - readings are arbitrary each tick: re-discovery of sensors (main.rs   *)
(*    829-866) only changes which readings there are, and the fused duty   *)
(*    of signals.rs is an arbitrary member of Targets;                     *)
(*  - the LED and alarm steps of the tick touch none of this state;        *)
(*  - consecutive_errors is only ever compared with ErrorLimit, so it      *)
(*    stops counting there.                                                *)
(***************************************************************************)
EXTENDS Controller

CONSTANTS
  Channels,        \* cfg.channels, in order
  CpuOffset,       \* cfg.cpu_offset
  CpuReadings,     \* what a successful cpu read can return
  GpuReadings,     \* what a successful gpu read can return
  ErrorLimit,      \* 3: errors after which the hub is re-enumerated
  StaleMax         \* bound on the history variable staleTicks

VARIABLES
  \* the daemon
  pc,
  signals,         \* cfg.signals.enabled, fixed at start
  term,            \* the flag SIGTERM and SIGINT raise
  hub,             \* the open handle: "none", "valid", or "stale" once the
                   \* device it was opened on has gone
  errors,          \* consecutive_errors
  lastApplied,     \* last_applied
  fallbackActive,  \* the fallback_active gauge
  hubPresent,      \* the hub_present gauge
  \* the hub and its surroundings
  attached,        \* the device is on the bus
  device,          \* per channel: under manual control? at which duty?
  calm,            \* from here on nothing fails, unplugs or kills
  \* history
  staleTicks       \* ticks in a row begun with a stale handle, counted
                   \* anew from the moment calm is raised

progVars == <<pc, term, hub, errors, lastApplied, fallbackActive, hubPresent>>
envVars  == <<attached, device, calm>>
vars     == <<progVars, ctlVars, envVars, signals, staleTicks>>

Channel == {Channels[i] : i \in 1..Len(Channels)}

Fresh == [manual |-> FALSE, duty |-> None]    \* a channel after power-up

ASSUME LoopAssumption ==
  /\ Channels \in Seq(1..4) /\ Channels # << >>
  /\ CpuOffset \in Nat
  /\ CpuReadings \subseteq Int /\ GpuReadings \subseteq Int
  /\ ErrorLimit \in Nat /\ ErrorLimit > 0
  /\ StaleMax \in Nat /\ StaleMax > ErrorLimit

----------------------------------------------------------------------------
(* Hub access.  A handle to a departed device fails every call; a good one *)
(* may fail any call until the environment has calmed down.                *)

Failures == IF hub = "valid"
            THEN IF calm THEN {{}} ELSE SUBSET Channel
            ELSE {Channel}

Written(duty, failed) ==
  [c \in Channel |-> IF c \in failed THEN device[c]
                                     ELSE [device[c] EXCEPT !.duty = duty]]

(* find_hidraw, Hub::open and Hub::init: init stops at the first channel   *)
(* whose mode write fails, so a failed attempt leaves a prefix of the      *)
(* channels in manual mode.                                                *)
ModeSet(n) ==
  [c \in Channel |-> IF \E i \in 1..n : Channels[i] = c
                     THEN [device[c] EXCEPT !.manual = TRUE] ELSE device[c]]

OpenHub ==
  /\ attached
  /\ device' = ModeSet(Len(Channels))
  /\ hub' = "valid"
  /\ hubPresent' = TRUE

(* Faulty variant: the gauge is left alone.                                *)
OpenFailsUnreported ==
  /\ ~(attached /\ calm)
  /\ \E n \in 0..(Len(Channels) - 1) : /\ n > 0 => attached
                                       /\ device' = ModeSet(n)
  /\ UNCHANGED <<hub, hubPresent>>

OpenFails ==
  /\ ~(attached /\ calm)
  /\ \E n \in 0..(Len(Channels) - 1) : /\ n > 0 => attached
                                       /\ device' = ModeSet(n)
  /\ hubPresent' = FALSE
  /\ UNCHANGED hub

CountError == IF errors < ErrorLimit THEN errors + 1 ELSE errors

----------------------------------------------------------------------------
Init ==
  /\ CtlInit
  /\ pc = "start"
  /\ signals \in BOOLEAN
  /\ term = FALSE
  /\ hub = "none"
  /\ errors = 0
  /\ lastApplied = None
  /\ fallbackActive = FALSE
  /\ hubPresent = FALSE
  /\ attached \in BOOLEAN
  /\ device = [c \in Channel |-> Fresh]
  /\ calm = FALSE
  /\ staleTicks = 0

Start ==
  /\ pc = "start"
  /\ \/ OpenHub /\ pc' = "top"
     \/ OpenFails /\ pc' = "hubWait"
  /\ UNCHANGED <<ctlVars, signals, term, errors, lastApplied, fallbackActive,
                 attached, calm, staleTicks>>

(* Faulty variant: the wait for the hub does not look at the flag.         *)
HubWaitDeaf ==
  /\ pc = "hubWait"
  /\ pc' = "start"
  /\ UNCHANGED <<ctlVars, envVars, signals, term, hub, errors, lastApplied,
                 fallbackActive, hubPresent, staleTicks>>

HubWait ==
  /\ pc = "hubWait"
  /\ pc' = IF term THEN "exited" ELSE "start"
  /\ UNCHANGED <<ctlVars, envVars, signals, term, hub, errors, lastApplied,
                 fallbackActive, hubPresent, staleTicks>>

(* sensors.rs control_temp: the hotter of the gpu and the offset cpu, or   *)
(* the raw reading of the one that answered.                               *)
ControlTemp(gpu, cpu) ==
  IF gpu = None THEN cpu
  ELSE IF cpu = None \/ cpu - CpuOffset <= gpu THEN gpu ELSE cpu - CpuOffset

ASSUME ReadingAssumption ==
  \A gpu \in GpuReadings \cup {None}, cpu \in CpuReadings \cup {None} :
    ControlTemp(gpu, cpu) \in Temps \cup {None}

SenseLegacy ==
  /\ ~signals
  /\ \E gpu \in GpuReadings \cup {None}, cpu \in CpuReadings \cup {None} :
       LET t == ControlTemp(gpu, cpu)
       IN  IF t = None THEN ForceDuty /\ fallbackActive' = TRUE
                       ELSE Decide(t) /\ fallbackActive' = FALSE

SenseFused ==
  /\ signals
  /\ \/ ForceDuty /\ fallbackActive' = TRUE
     \/ /\ \E d \in Targets : DecideTarget(d)
        /\ fallbackActive' = FALSE

Sense ==
  /\ pc = "top" /\ ~term
  /\ SenseLegacy \/ SenseFused
  /\ staleTicks' = IF hub # "stale" THEN 0
                   ELSE IF staleTicks < StaleMax THEN staleTicks + 1 ELSE StaleMax
  /\ pc' = "apply"
  /\ UNCHANGED <<envVars, signals, term, hub, errors, lastApplied, hubPresent>>

Apply ==
  /\ pc = "apply"
  /\ IF decision = None THEN UNCHANGED <<lastApplied, device, errors>>
     ELSE /\ lastApplied' = decision
          /\ \E failed \in Failures :
               /\ device' = Written(decision, failed)
               /\ errors' = IF failed = {} THEN 0 ELSE CountError
  /\ pc' = "rpm"
  /\ UNCHANGED <<ctlVars, signals, term, hub, fallbackActive, hubPresent,
                 attached, calm, staleTicks>>

(* Faulty variant: only failed writes are counted.                         *)
ReadRpmUncounted ==
  /\ pc = "rpm"
  /\ pc' = IF errors >= ErrorLimit THEN "recover" ELSE "sleep"
  /\ UNCHANGED <<ctlVars, envVars, signals, term, hub, errors, lastApplied,
                 fallbackActive, hubPresent, staleTicks>>

ReadRpm ==
  /\ pc = "rpm"
  /\ \E failed \in Failures :
       errors' = IF failed = {} THEN errors ELSE CountError
  /\ pc' = IF errors' >= ErrorLimit THEN "recover" ELSE "sleep"
  /\ UNCHANGED <<ctlVars, envVars, signals, term, hub, lastApplied,
                 fallbackActive, hubPresent, staleTicks>>

Recover ==
  /\ pc = "recover"
  /\ \/ OpenHub /\ pc' = "reapply" /\ staleTicks' = 0
     \/ OpenFails /\ pc' = "sleep" /\ UNCHANGED staleTicks
  /\ UNCHANGED <<ctlVars, signals, term, errors, lastApplied, fallbackActive,
                 attached, calm>>

(* Faulty variant: a re-init alone counts as recovered.                    *)
ReapplySkipped ==
  /\ pc = "reapply"
  /\ errors' = 0
  /\ pc' = "sleep"
  /\ UNCHANGED <<ctlVars, envVars, signals, term, hub, lastApplied,
                 fallbackActive, hubPresent, staleTicks>>

Reapply ==
  /\ pc = "reapply"
  /\ IF lastApplied = None THEN errors' = 0 /\ UNCHANGED device
     ELSE \E failed \in Failures :
            /\ device' = Written(lastApplied, failed)
            /\ errors' = IF failed = {} THEN 0 ELSE CountError
  /\ pc' = "sleep"
  /\ UNCHANGED <<ctlVars, signals, term, hub, lastApplied, fallbackActive,
                 hubPresent, attached, calm, staleTicks>>

Sleep ==
  /\ pc = "sleep"
  /\ pc' = "top"
  /\ UNCHANGED <<ctlVars, envVars, signals, term, hub, errors, lastApplied,
                 fallbackActive, hubPresent, staleTicks>>

Terminate ==
  /\ pc = "top" /\ term
  /\ pc' = "shutdown"
  /\ UNCHANGED <<ctlVars, envVars, signals, term, hub, errors, lastApplied,
                 fallbackActive, hubPresent, staleTicks>>

Shutdown ==
  /\ pc = "shutdown"
  /\ \E failed \in Failures : device' = Written(FallbackDuty, failed)
  /\ pc' = "exited"
  /\ hub' = "none"
  /\ UNCHANGED <<ctlVars, signals, term, errors, lastApplied,
                 fallbackActive, hubPresent, attached, calm, staleTicks>>

Daemon == \/ Start \/ HubWait \/ Sense \/ Apply \/ ReadRpm \/ Recover
          \/ Reapply \/ Sleep \/ Terminate \/ Shutdown

----------------------------------------------------------------------------
(* The surroundings.                                                       *)

Alive == pc \notin {"exited", "dead"}

SigTerm ==
  /\ Alive /\ ~term
  /\ term' = TRUE
  /\ UNCHANGED <<pc, hub, errors, lastApplied, fallbackActive, hubPresent,
                 ctlVars, envVars, signals, staleTicks>>

Kill ==
  /\ Alive /\ ~calm
  /\ pc' = "dead"
  /\ hub' = "none"
  /\ UNCHANGED <<term, errors, lastApplied, fallbackActive, hubPresent,
                 ctlVars, envVars, signals, staleTicks>>

(* A new process: everything in memory starts over, the hub keeps running. *)
Restart ==
  /\ ~Alive
  /\ pc' = "start"
  /\ term' = FALSE
  /\ hub' = "none"
  /\ errors' = 0
  /\ lastApplied' = None
  /\ fallbackActive' = FALSE
  /\ hubPresent' = FALSE
  /\ lastDuty' = None /\ lastTemp' = NaN /\ decision' = None
  /\ staleTicks' = 0
  /\ UNCHANGED <<envVars, signals>>

Unplug ==
  /\ attached /\ ~calm
  /\ attached' = FALSE
  /\ hub' = IF hub = "valid" THEN "stale" ELSE hub
  /\ UNCHANGED <<pc, term, errors, lastApplied, fallbackActive, hubPresent,
                 ctlVars, device, calm, signals, staleTicks>>

(* The device comes back, with or without the state it had.                *)
Plug ==
  /\ ~attached
  /\ attached' = TRUE
  /\ device' \in {device, [c \in Channel |-> Fresh]}
  /\ UNCHANGED <<progVars, ctlVars, calm, signals, staleTicks>>

CalmDown ==
  /\ attached /\ ~calm
  /\ calm' = TRUE
  /\ staleTicks' = 0
  /\ UNCHANGED <<progVars, ctlVars, attached, device, signals>>

Surroundings == SigTerm \/ Kill \/ Restart \/ Unplug \/ Plug \/ CalmDown

Next == Daemon \/ Surroundings

Spec == Init /\ [][Next]_vars

(* A live process keeps executing its single thread, and the container is  *)
(* restarted when it ends.                                                 *)
FairSpec == Spec /\ WF_vars(Daemon) /\ WF_vars(Restart)

----------------------------------------------------------------------------
(* Type correctness.                                                       *)
TypeOK ==
  /\ lastDuty \in Duty \cup {None}
  /\ lastTemp \in Temps \cup {NaN}
  /\ decision \in Duty \cup {None}
  /\ pc \in {"start", "hubWait", "top", "apply", "rpm", "recover", "reapply",
             "sleep", "shutdown", "exited", "dead"}
  /\ signals \in BOOLEAN
  /\ term \in BOOLEAN
  /\ hub \in {"none", "valid", "stale"}
  /\ errors \in 0..ErrorLimit
  /\ lastApplied \in Duty \cup {None}
  /\ fallbackActive \in BOOLEAN
  /\ hubPresent \in BOOLEAN
  /\ attached \in BOOLEAN
  /\ device \in [Channel -> [manual : BOOLEAN, duty : Duty \cup {None}]]
  /\ calm \in BOOLEAN
  /\ staleTicks \in 0..StaleMax

Holds(duty) == \A c \in Channel : device[c] = [manual |-> TRUE, duty |-> duty]

InSync == hub = "valid" /\ lastApplied # None /\ Holds(lastApplied)

(* A tick that ends with no error on the books and a handle that works     *)
(* leaves every channel in manual mode at the duty the daemon believes it  *)
(* last applied - across partial writes, resets of the hub and the reapply *)
(* after a re-init (main.rs 785-791).                                      *)
NoErrorsMeansInSync ==
  pc = "sleep" /\ errors = 0 /\ hub = "valid" => InSync

(* A device that went away is noticed even while hysteresis holds all duty *)
(* writes: every tick begun with a stale handle adds an error, so the      *)
(* re-enumeration comes after ErrorLimit of them at the latest.            *)
StaleHandleCounted ==
  pc = "sleep" /\ hub = "stale" =>
    errors >= IF staleTicks < ErrorLimit THEN staleTicks ELSE ErrorLimit

(* Nor is a hub that is there waited for any longer: once nothing fails    *)
(* any more, a stale handle is in use for ErrorLimit ticks at most, even   *)
(* if not one of them has a duty to write.                                 *)
HubBackInTime == calm => staleTicks <= ErrorLimit

(* With all sensors lost the hub itself is at the fallback duty, unless an *)
(* error is on the books.                                                  *)
BlindMeansFallback ==
  pc = "sleep" /\ fallbackActive /\ errors = 0 /\ hub = "valid"
    => Holds(FallbackDuty)

(* A fan that is in sync never jumps: only the fallback may move it by     *)
(* more than MaxStep in one tick.  The ramp restarts from what the hub has *)
(* after a fallback, a held tick or a re-init.                             *)
HubNeverJumps ==
  [][(InSync /\ Alive /\ pc # "shutdown" /\ attached' /\ ~fallbackActive)
       => \A c \in Channel :
            device'[c].duty # None =>
              Abs(device'[c].duty - device[c].duty) <= MaxStep]_vars

(* Whatever went wrong before - the device re-enumerated, the daemon was   *)
(* killed, or it is still waiting for the hub - once nothing fails any     *)
(* more the hub is taken over and brought to the daemon's duty.            *)
HubRecovers == (calm /\ hub # "valid") ~> (InSync \/ term)

(* SIGTERM ends the process, from the wait for the hub as well.            *)
TermEndsProcess == term ~> ~Alive

(* A hub that stays away is eventually reported absent.                    *)
LostHubReported == <>[](~attached) => <>[](~hubPresent)

(* Lost sensors bring the fans to the fallback duty even when writes of it *)
(* failed before: the fallback is decided afresh every tick.               *)
BlindFansReachFallback ==
  <>[](calm /\ fallbackActive /\ ~term) => <>[]Holds(FallbackDuty)

----------------------------------------------------------------------------
(* What the documents say and the code does not do; see README.md.         *)

(* main.rs 785-790: the daemon and the hub must not "silently diverge".    *)
(* Once nothing fails any more, they agree.                                *)
HubFollowsDaemon == calm ~> (InSync \/ term)

(* README.md line 410: hub_present is 1 when the hub is currently open and *)
(* initialized.                                                            *)
HubPresentWhenOpen ==
  pc = "sleep" /\ errors = 0 /\ InSync => hubPresent

(* README.md lines 64-66: a SIGTERM lands the fallback duty on the hub.    *)
(* Asked only of the shutdown path itself, of a hub that is attached, at a *)
(* time when nothing fails any more.                                       *)
TermLandsFallback ==
  [][(pc = "shutdown" /\ pc' = "exited" /\ attached /\ calm) => Holds(FallbackDuty)']_vars
=============================================================================

---------------------------- MODULE LedDispatch ----------------------------
(***************************************************************************)
(* The LED section of the tick (src/main.rs 655-728): the gradient of      *)
(* src/rgb.rs or the alarm command of the ladder, written only when it     *)
(* differs from what two caches, last_bucket and last_led, say the hub     *)
(* shows already.                                                          *)
(*                                                                         *)
(* Simplifications:                                                        *)
(*  - a colour has one component; duty_color treats the three alike;       *)
(*  - set_effect sends a channel its colours and then commits them: a      *)
(*    failure before the colours leaves what is displayed, one before the  *)
(*    commit leaves no telling what is (external: the hub's firmware);     *)
(*  - the commit-only packet of set_effect_speed changes mode and speed    *)
(*    and keeps the colours (external: the hub's firmware);                *)
(*  - the duty and whether its write failed are arbitrary each tick, and   *)
(*    so is the ladder (AlarmLadder.tla), except that the pulse of a rung  *)
(*    starts at 1 and never slows down.                                    *)
(***************************************************************************)
EXTENDS Curve

CONSTANTS
  Channels,        \* cfg.channels
  Duties,          \* duties the loop may have applied
  Stops,           \* rgb.stops, as a curve from duty to colour
  Buckets,         \* rgb.buckets
  AlertColor,      \* alert_color
  PulseMax,        \* where the pulse stops speeding up: 4 in alarm.rs
  FaultColors,     \* fault_colors
  None             \* Option::None

Stop == [temp : Int, duty : 0..255]

(* What Config::validate asks.                                             *)
ASSUME LedAssumption ==
  /\ Duties \subseteq Duty
  /\ Stops \in Seq(Stop) /\ Stops # << >>
  /\ \A i \in 1..(Len(Stops) - 1) : Stops[i].temp < Stops[i + 1].temp
  /\ Buckets \in 2..255
  /\ PulseMax \in 1..4
  /\ None \notin 0..255

VARIABLES
  duty,            \* last_applied; the first tick decides one before the
                   \* section runs, so unwrap_or(0) never supplies the 0
  rung,            \* the ladder's state at the end of the previous tick
  pulse,           \* speed index of the NearLimit pulse
  lastBucket,      \* last_bucket
  lastLed,         \* last_led
  hub,             \* the open handle: "valid" or "stale"
  shown,           \* what each channel displays
  calm,            \* from here on nothing fails and the inputs are steady
  torn             \* history: the last full pass that reached any channel
                   \* did not reach them all, or one only halfway

caches == <<lastBucket, lastLed>>
vars   == <<duty, rung, pulse, caches, hub, shown, calm, torn>>

----------------------------------------------------------------------------
(* rgb.rs.                                                                 *)

DutyColor(d) == Interpolate(Stops, d)

(* Faulty variant: as many steps as buckets.                               *)
BucketFull(d) == ((IF d < 100 THEN d ELSE 100) * Buckets) \div 100

Bucket(d) == ((IF d < 100 THEN d ELSE 100) * (Buckets - 1)) \div 100

DivCeil(n, d) == (n + d - 1) \div d

(* Faulty variant: the lower edge rounded down.                            *)
BucketDutyFloor(b) == (b * 100) \div (Buckets - 1)

BucketDuty(b) == LET edge == DivCeil(b * 100, Buckets - 1)
                 IN  IF edge < 100 THEN edge ELSE 100

Effect(mode, color, speed) == [mode |-> mode, color |-> color, speed |-> speed]

Static(color)           == Effect("static", color, 0)
Breathing(color, speed) == Effect("breathing", color, speed)
Runway                  == Effect("runway", FaultColors, 2)
Dark                    == Effect("dark", None, 0)
NoCommand               == Effect("none", None, 0)     \* led() answers None

(* A channel that was sent colours and no commit.                          *)
Halfway == Effect("halfway", None, 0)

(* led(), with the gradient colour of the duty's bucket put in for         *)
(* SustainedHot.  Rungs are numbered as in AlarmLadder.                    *)
Command(d) ==
  CASE rung = 0 -> NoCommand
    [] rung = 1 -> Breathing(DutyColor(BucketDuty(Bucket(d))), 0)
    [] rung = 2 -> Breathing(AlertColor, pulse)
    [] rung = 3 -> Runway

----------------------------------------------------------------------------
(* Writing to the hub.                                                     *)

Failures == IF hub = "stale" THEN {Channels}
            ELSE IF calm THEN {{}} ELSE SUBSET Channels

(* Failed channels that got the colours nevertheless.                      *)
Halves(failed) == IF hub = "stale" THEN {{}} ELSE SUBSET failed

FullPass(display, failed) ==
  \E half \in Halves(failed) :
    /\ shown' = [c \in Channels |-> IF c \in half THEN Halfway
                                    ELSE IF c \in failed THEN shown[c] ELSE display]
    /\ torn' = IF failed = Channels /\ half = {} THEN torn ELSE failed # {}

SpeedPass(speed, failed) ==
  /\ shown' = [c \in Channels |->
                 IF c \in failed THEN shown[c]
                 ELSE [shown[c] EXCEPT !.mode = "breathing", !.speed = speed]]
  /\ torn' = (torn \/ failed \notin {{}, Channels})

(* Faulty variant: the colour is not compared.                             *)
SpeedOnlyColorblind(cmd) ==
  lastLed.mode = "breathing" /\ cmd.mode = "breathing"

(* apply_led_command's diff against the previous command.                  *)
SpeedOnly(cmd) ==
  /\ lastLed.mode = "breathing" /\ cmd.mode = "breathing"
  /\ lastLed.color = cmd.color

(* Faulty variant: last_bucket survives an alarm command.                  *)
ShowGradientFromMemory(d) ==
  /\ lastLed' = NoCommand
  /\ IF lastBucket = Bucket(d)
     THEN UNCHANGED <<lastBucket, shown, torn>>
     ELSE \E failed \in Failures :
            /\ FullPass(Static(DutyColor(d)), failed)
            /\ lastBucket' = IF failed = {} THEN Bucket(d) ELSE lastBucket

(* Both caches are forgotten when an alarm command is dropped, so that the *)
(* gradient is written again.                                              *)
ShowGradient(d) ==
  LET known == IF lastLed = NoCommand THEN lastBucket ELSE None
  IN  /\ lastLed' = NoCommand
      /\ IF known = Bucket(d)
         THEN lastBucket' = known /\ UNCHANGED <<shown, torn>>
         ELSE \E failed \in Failures :
                /\ FullPass(Static(DutyColor(d)), failed)
                /\ lastBucket' = IF failed = {} THEN Bucket(d) ELSE known

ShowCommand(cmd) ==
  /\ IF lastLed = cmd THEN UNCHANGED <<lastLed, shown, torn>>
     ELSE \E failed \in Failures :
            /\ IF SpeedOnly(cmd) THEN SpeedPass(cmd.speed, failed)
                                 ELSE FullPass(cmd, failed)
            /\ lastLed' = IF failed = {} THEN cmd ELSE lastLed
  /\ UNCHANGED lastBucket

Dispatch(d) ==
  IF rung = 0 THEN ShowGradient(d) ELSE ShowCommand(Command(d))

(* What the ladder may show next.                                          *)
Ladder ==
  \/ UNCHANGED <<rung, pulse>>
  \/ ~calm /\ UNCHANGED rung /\ rung = 2 /\ pulse < PulseMax /\ pulse' = pulse + 1
  \/ ~calm /\ rung' \in 0..3 \ {rung} /\ pulse' = 1

----------------------------------------------------------------------------
Init ==
  /\ duty \in Duties
  /\ rung = 0 /\ pulse = 1
  /\ lastBucket = None /\ lastLed = NoCommand
  /\ hub = "valid"
  /\ shown = [c \in Channels |-> Dark]
  /\ calm = FALSE
  /\ torn = FALSE

(* The duty write fails on a stale handle whenever there is one to do; a   *)
(* held tick writes none, and the LED section runs.                        *)
Tick ==
  /\ \E d \in Duties :
       /\ duty' = d
       /\ calm => d = duty
       /\ \/ (d = duty \/ hub = "valid") /\ Dispatch(d)
          \/ (~calm \/ hub = "stale") /\ UNCHANGED <<caches, shown, torn>>
  /\ Ladder
  /\ UNCHANGED <<hub, calm>>

(* The hub leaves and returns, having lost what it displayed or not.       *)
Reset ==
  /\ ~calm
  /\ hub' = "stale"
  /\ shown' \in {shown, [c \in Channels |-> Dark]}
  /\ UNCHANGED <<duty, rung, pulse, caches, calm, torn>>

(* The recovery step of the tick re-opens the hub: ControlLoop.tla says    *)
(* when.                                                                   *)
Reinit ==
  /\ hub' = "valid"
  /\ lastBucket' = None /\ lastLed' = NoCommand
  /\ UNCHANGED <<duty, rung, pulse, shown, calm, torn>>

CalmDown ==
  /\ ~calm
  /\ calm' = TRUE
  /\ UNCHANGED <<duty, rung, pulse, caches, hub, shown, torn>>

Next == Tick \/ Reset \/ Reinit \/ CalmDown

Spec == Init /\ [][Next]_vars

(* The LED section runs every poll.  A stale handle fails its rpm reads,   *)
(* so the loop re-opens a hub that is there (HubRecovers of ControlLoop).  *)
(* Asked for only from the calm on, which is when it counts.               *)
FairSpec ==
  /\ Spec
  /\ WF_vars(calm /\ Tick)
  /\ WF_vars(calm /\ hub = "stale" /\ Reinit)

----------------------------------------------------------------------------
Displays ==
  [ mode  : {"static", "breathing", "runway", "dark", "halfway"},
    color : {AlertColor, FaultColors, None} \cup 0..255,
    speed : 0..4 ]

TypeOK ==
  /\ duty \in Duties
  /\ rung \in 0..3 /\ pulse \in 1..PulseMax
  /\ lastBucket \in (0..(Buckets - 1)) \cup {None}
  /\ \/ lastLed \in [mode : {"breathing"}, color : {AlertColor} \cup 0..255,
                     speed : 0..4]
     \/ lastLed \in {NoCommand, Runway}
  /\ hub \in {"valid", "stale"}
  /\ shown \in [Channels -> Displays]
  /\ calm \in BOOLEAN /\ torn \in BOOLEAN

(* Every channel displays what the caches say was written last.            *)
CachesDescribe ==
  /\ lastLed # NoCommand => \A c \in Channels : shown[c] = lastLed
  /\ lastLed = NoCommand /\ lastBucket # None =>
       \E d \in Duties : /\ Bucket(d) = lastBucket
                         /\ \A c \in Channels : shown[c] = Static(DutyColor(d))

(* Unless a pass over the channels was torn, the caches tell the truth     *)
(* about an open hub: across failed writes, hub resets, re-inits, dropped  *)
(* alarm commands and the speed-only shortcut.  What the diff trusts is    *)
(* what is there.                                                          *)
CachesHonest == hub = "valid" /\ ~torn => CachesDescribe

(* rgb.rs 92-95: SustainedHot breathes in a colour the gradient itself has *)
(* in the bucket of the present duty, so bucket and bucket_duty, the one   *)
(* rounding down and the other up, must invert each other.                 *)
BreathesInBucket ==
  rung = 1 => \E e \in Duty : /\ Bucket(e) = Bucket(duty)
                             /\ Command(duty).color = DutyColor(e)

(* What the rung asks for is displayed everywhere.                         *)
Right ==
  IF rung = 0
  THEN \E d \in Duties : /\ Bucket(d) = Bucket(duty)
                         /\ \A c \in Channels : shown[c] = Static(DutyColor(d))
  ELSE \A c \in Channels : shown[c] = Command(duty)

(* Once nothing fails and nothing changes the display comes right, however *)
(* the hub and the caches were left, short of a torn pass.                 *)
SettlesRight == (calm /\ ~torn) ~> Right

(* main.rs 472: "Duty bucket the RGB colors currently on the hub           *)
(* correspond to".  Of a steady system that would have to come true.       *)
BucketComesTrue ==
  calm ~> (lastLed = NoCommand /\ lastBucket # None =>
             \A c \in Channels :
               \E d \in Duties : /\ Bucket(d) = lastBucket
                                 /\ shown[c] = Static(DutyColor(d)))
=============================================================================

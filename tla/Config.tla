------------------------------- MODULE Config -------------------------------
(***************************************************************************)
(* The configuration of src/config.rs: its sections and options, their     *)
(* defaults, and Config::validate, which decides whether the daemon starts *)
(* at all.  No state: Process.tla loads configurations, and the other      *)
(* modules assume of their constants what is accepted here.                *)
(*                                                                         *)
(* A configuration is a record of sections, a section a record of options, *)
(* named as in the TOML file.  The top level and the two tables nested in  *)
(* [rgb] and [signals] are sections like the others.                       *)
(*                                                                         *)
(* Simplifications:                                                        *)
(*  - TOML syntax and types: a file that does not parse is Unreadable, and *)
(*    unknown keys, which only earn a warning, are not there;              *)
(*  - floats are integers, or one of the three values TOML writes as nan,  *)
(*    inf and -inf; NaN answers every comparison with false.  Numbers so   *)
(*    large that their difference overflows are left out, and smoothing    *)
(*    weights are percents;                                                *)
(*  - options no check looks at are left out: colours, min_duty_delta,     *)
(*    sustained_hot_c and the metrics address.                             *)
(***************************************************************************)
EXTENDS Curve

CONSTANTS
  NaN,             \* f64::NAN
  PosInf, NegInf,  \* f64::INFINITY, f64::NEG_INFINITY
  OddKey,          \* a key of [rgb.fans] that is no number written plainly
  Unreadable       \* no file, or one that is not TOML of the right types

ASSUME ConfigAssumption ==
  /\ NaN \notin Int /\ PosInf \notin Int /\ NegInf \notin Int
  /\ NaN # PosInf /\ NaN # NegInf /\ PosInf # NegInf
  /\ OddKey \notin Int

----------------------------------------------------------------------------
(* Sections and defaults (the serde defaults of the structs).              *)

SubSignals == {"gpu_temp", "cpu_temp", "gpu_power", "thermal_margin", "mem_temp"}

(* These fall back on the top-level curve.                                 *)
DieTemps == {"gpu_temp", "cpu_temp"}

TopDefault ==
  [ poll_interval_secs |-> 5, channels |-> << 1, 2 >>, fallback_duty |-> 60,
    cpu_offset |-> 10, hysteresis_c |-> 2, max_step_per_tick |-> 10,
    curve |-> << >> ]

RgbDefault ==
  [ enabled |-> FALSE, fans_per_channel |-> 6, fans |-> << >>,
    brightness |-> 0, buckets |-> 8, stops |-> << 30, 50, 75, 90, 100 >> ]

AlertsDefault ==
  [ enabled |-> FALSE, sustained_after_secs |-> 120, near_limit_margin_c |-> 3,
    escalate_every_secs |-> 30, cooldown_secs |-> 60 ]

(* One shape for the five sub-signals; rise and fall are the same weight   *)
(* where the section has a single alpha.                                   *)
SubDefault(on, rise, fall) ==
  [ enabled |-> on, curve |-> << >>, rise |-> rise, fall |-> fall,
    offset_c |-> 10, percent_tdp |-> FALSE ]

ThrottleDefault ==
  [ enabled |-> FALSE, floor_duty |-> 85, hold_secs |-> 30,
    reasons |-> {"sw_thermal", "hw_thermal", "hw_power_brake"} ]

Default ==
  [ top            |-> TopDefault,
    rgb            |-> RgbDefault,
    alerts         |-> AlertsDefault,
    signals        |-> [enabled |-> FALSE],
    gpu_temp       |-> SubDefault(TRUE, 100, 100),
    cpu_temp       |-> SubDefault(TRUE, 100, 100),
    gpu_power      |-> SubDefault(FALSE, 50, 10),
    thermal_margin |-> SubDefault(FALSE, 40, 40),
    mem_temp       |-> SubDefault(FALSE, 100, 100),
    throttle       |-> ThrottleDefault ]

(* What the types of the structs let in: u8, u64 and f64.                  *)
Byte  == 0..255
Float == Int \cup {NaN, PosInf, NegInf}

RawPoint == [temp : Float, duty : Byte]

WellTyped(c) ==
  /\ DOMAIN c = DOMAIN Default
  /\ c.top \in [ poll_interval_secs : Nat, channels : Seq(Byte),
                  fallback_duty : Byte, cpu_offset : Float, hysteresis_c : Float,
                  max_step_per_tick : Byte, curve : Seq(RawPoint) ]
  /\ c.rgb.enabled \in BOOLEAN
  /\ c.rgb.stops \in Seq(Byte)
  /\ {c.rgb.fans_per_channel, c.rgb.brightness, c.rgb.buckets} \subseteq Byte
  /\ \A key \in DOMAIN c.rgb.fans : c.rgb.fans[key] \in Byte
  /\ c.alerts \in [ enabled : BOOLEAN, sustained_after_secs : Nat,
                     near_limit_margin_c : Float, escalate_every_secs : Nat,
                     cooldown_secs : Nat ]
  /\ c.signals \in [enabled : BOOLEAN]
  /\ \A k \in SubSignals :
       c[k] \in [ enabled : BOOLEAN, curve : Seq(RawPoint), rise : Float,
                  fall : Float, offset_c : Float, percent_tdp : BOOLEAN ]
  /\ c.throttle.enabled \in BOOLEAN
  /\ c.throttle.floor_duty \in Byte /\ c.throttle.hold_secs \in Nat

(* fans_for_channel.                                                       *)
FansFor(rgb, channel) ==
  IF channel \in DOMAIN rgb.fans THEN rgb.fans[channel] ELSE rgb.fans_per_channel

----------------------------------------------------------------------------
(* Config::validate, one conjunct per bail!; a float fails a check only    *)
(* when the comparison it is rejected by answers true.                     *)

Below(x, y) ==
  /\ x # NaN /\ y # NaN /\ x # y
  /\ \/ x = NegInf \/ y = PosInf
     \/ x \in Int /\ y \in Int /\ x < y

AtMost(x, y) == Below(x, y) \/ (x = y /\ x # NaN)

Ascending(xs) == \A i \in 1..(Len(xs) - 1) : ~AtMost(xs[i + 1], xs[i])

(* Faulty variant: the order of the points is not looked at.               *)
PointsOKUnsorted(curve) ==
  curve # << >> /\ \A i \in 1..Len(curve) : curve[i].duty <= 100

(* validate_curve.                                                         *)
PointsOK(curve) ==
  /\ curve # << >>
  /\ Ascending([i \in 1..Len(curve) |-> curve[i].temp])
  /\ \A i \in 1..Len(curve) : curve[i].duty <= 100

(* Faulty variant: a poll interval of zero passes.                         *)
TopOKBusy(top) ==
  /\ PointsOK(top.curve)
  /\ top.fallback_duty <= 100
  /\ top.channels # << >>
  /\ \A i \in 1..Len(top.channels) : top.channels[i] \in 1..4
  /\ top.max_step_per_tick # 0
  /\ ~Below(top.hysteresis_c, 0)
  /\ ~Below(top.cpu_offset, 0)

TopOK(top) ==
  /\ PointsOK(top.curve)
  /\ top.fallback_duty <= 100
  /\ top.channels # << >>
  /\ \A i \in 1..Len(top.channels) : top.channels[i] \in 1..4
  /\ top.max_step_per_tick # 0
  /\ top.poll_interval_secs # 0
  /\ ~Below(top.hysteresis_c, 0)
  /\ ~Below(top.cpu_offset, 0)

(* A key of [rgb.fans] has to be a configured channel, written plainly.    *)
RgbOK(rgb, channels) ==
  /\ rgb.stops # << >>
  /\ Ascending(rgb.stops)
  /\ \A i \in 1..Len(rgb.stops) : rgb.stops[i] <= 100
  /\ rgb.fans_per_channel \in 1..6
  /\ \A key \in DOMAIN rgb.fans :
       /\ \E i \in 1..Len(channels) : channels[i] = key
       /\ rgb.fans[key] \in 1..6
  /\ rgb.buckets >= 2
  /\ rgb.brightness <= 8

AlertsOK(alerts) ==
  /\ alerts.sustained_after_secs >= 1
  /\ alerts.escalate_every_secs >= 1
  /\ alerts.cooldown_secs >= 1
  /\ ~Below(alerts.near_limit_margin_c, 0)

Weight(a) == Below(0, a) /\ AtMost(a, 100)

(* A die temperature may go without a curve of its own, the others not.    *)
SubSignalOK(k, sub) ==
  /\ \/ k \in DieTemps /\ sub.curve = << >>
     \/ PointsOK(sub.curve)
  /\ Weight(sub.rise) /\ Weight(sub.fall)
  /\ k = "cpu_temp" => ~Below(sub.offset_c, 0)
  /\ k = "gpu_power" /\ sub.percent_tdp =>
       \A i \in 1..Len(sub.curve) : ~Below(200, sub.curve[i].temp)

ThrottleOK(throttle) ==
  /\ throttle.floor_duty <= 100
  /\ throttle.reasons # {}
  /\ throttle.hold_secs <= 3600

SignalsOK(c) ==
  /\ \E k \in SubSignals : c[k].enabled
  /\ \A k \in SubSignals : c[k].enabled => SubSignalOK(k, c[k])
  /\ c.throttle.enabled => ThrottleOK(c.throttle)

(* Faulty variant: the alarm thresholds are checked even with alerts off.  *)
SectionsOKUngated(c) ==
  /\ c.rgb.enabled => RgbOK(c.rgb, c.top.channels) /\ AlertsOK(c.alerts)
  /\ c.signals.enabled => SignalsOK(c)

(* The optional sections, each only as far as it is switched on.           *)
SectionsOK(c) ==
  /\ c.rgb.enabled =>
       /\ RgbOK(c.rgb, c.top.channels)
       /\ c.alerts.enabled => AlertsOK(c.alerts)
  /\ c.signals.enabled => SignalsOK(c)

Valid(c) == TopOK(c.top) /\ SectionsOK(c)

(* Config::load answers Ok.                                                *)
Accepts(c) == c # Unreadable /\ Valid(c)

----------------------------------------------------------------------------
(* What the rest of the program relies on.                                 *)

(* The curves in use: temperature, power, headroom.                        *)
CurvesUsed(c) ==
  {c.top.curve} \cup
  { c[k].curve : k \in {k \in SubSignals :
                          c.signals.enabled /\ c[k].enabled /\ c[k].curve # << >>} }

(* Nothing in use is NaN or infinite where the checks let that pass.  With *)
(* NaN, or -inf as its first temperature, a curve asks for duty 0 between  *)
(* two points that both ask for more: the quotient of interpolate is NaN.  *)
Finite(c) ==
  /\ \A curve \in CurvesUsed(c) : \A i \in 1..Len(curve) : curve[i].temp \in Int
  /\ c.top.hysteresis_c \in Int /\ c.top.cpu_offset \in Int
  /\ c.signals.enabled /\ c.cpu_temp.enabled => c.cpu_temp.offset_c \in Int

(* hid.rs 25-30, rgb.rs 20-46: a channel's number goes into one byte of    *)
(* several packets, shifted, and in one of them next to a chain length.    *)
PacketsFit(c) ==
  \A i \in 1..Len(c.top.channels) :
    LET ch == c.top.channels[i]
    IN  /\ ch >= 1
        /\ 16 * 2^(ch - 1) <= 255
        /\ c.rgb.enabled => 16 * (ch - 1) + FansFor(c.rgb, ch) <= 255

(* interpolate answers each point of a curve with that point's own duty.   *)
Honoured(curve) ==
  \A i \in 1..Len(curve) : Interpolate(curve, curve[i].temp) = curve[i].duty

(* What the other modules assume of their constants (Controller,           *)
(* ControlLoop, LedDispatch, AlarmLadder, Fusion), and with it the         *)
(* divisions and shifts of the run-time code that have no guard.           *)
ServesLoop(top) ==
  /\ top.fallback_duty \in Duty /\ top.max_step_per_tick \in 1..255
  /\ top.hysteresis_c \in Nat /\ top.cpu_offset \in Nat
  /\ top.poll_interval_secs > 0
  /\ top.channels # << >>

ServesLeds(rgb) ==
  /\ rgb.stops # << >> /\ rgb.buckets \in 2..255
  /\ \A i \in 1..(Len(rgb.stops) - 1) : rgb.stops[i] < rgb.stops[i + 1]

ServesLadder(alerts) ==
  /\ alerts.sustained_after_secs > 0 /\ alerts.escalate_every_secs > 0
  /\ alerts.cooldown_secs > 0

ServesFusion(c) ==
  /\ \A k \in SubSignals : c[k].enabled => c[k].rise \in 1..100 /\ c[k].fall \in 1..100
  /\ c.cpu_temp.enabled => c.cpu_temp.offset_c \in Nat
  /\ c.throttle.enabled => c.throttle.floor_duty \in Duty /\ c.throttle.hold_secs \in Nat

Serviceable(c) ==
  /\ \A curve \in CurvesUsed(c) : ValidCurve(curve) /\ Honoured(curve)
  /\ ServesLoop(c.top) /\ PacketsFit(c)
  /\ c.rgb.enabled => /\ ServesLeds(c.rgb)
                      /\ c.alerts.enabled => ServesLadder(c.alerts)
  /\ c.signals.enabled => ServesFusion(c)

(* A section the configuration switches off, itself or with a section      *)
(* around it.                                                              *)
Off(c, s) ==
  CASE s = "rgb"      -> ~c.rgb.enabled
    [] s = "alerts"   -> ~c.rgb.enabled \/ ~c.alerts.enabled
    [] s \in SubSignals \cup {"throttle"} -> ~c.signals.enabled \/ ~c[s].enabled
    [] OTHER          -> FALSE

(* The same configuration with the options of those sections at their      *)
(* defaults.                                                               *)
Cleaned(c) ==
  [s \in DOMAIN c |-> IF Off(c, s) THEN [Default[s] EXCEPT !.enabled = c[s].enabled]
                                   ELSE c[s]]
=============================================================================

# A TLA+ verification of unifand

unifand is a single-threaded daemon that reads temperatures and power from a
GPU (NVML) and a CPU (hwmon), turns them into one fan duty, and drives a Lian Li
SL V2 hub over a hidraw node. It also colours the fans. It has to keep the fans
right while sensors vanish, single USB transfers fail, the hub is unplugged,
replugged or reset, and the process is terminated or killed.

The modules here model that logic; TLC checks them on small instances and TLAPS
proves the safety properties for every value of the constants. Paths such as
`main.rs:785` are relative to `src/src/`, `README.md:410` and the like to `src/`.

Contents

1. Inventory of the system
2. The plan
3. Modules, and how they correspond to the code
4. What the runs check
5. Bounds
6. Fairness
7. What is proved
8. What is only model-checked
9. Where code and documents disagree
10. What is not modelled

---------------------------------------------------------------------------

## 1. Inventory of the system

| component | source | state it keeps | operations | modelled in |
|---|---|---|---|---|
| duty controller | `curve.rs` | `last_duty`, `last_temp` | `interpolate`, `decide`, `decide_target`, `force` | Curve, Controller, Tracking |
| control loop | `main.rs` 276-888 | open hub, `consecutive_errors`, `last_applied`, gauges, the termination flag | wait for hub, sense, apply, read rpm, recover, reapply, sleep, shut down | ControlLoop |
| hub driver | `hid.rs` | an open hidraw file | `find_hidraw`, `open`, `init`, `set_duty`, `read_rpm`, `set_effect`, `set_effect_speed` | ControlLoop, LedDispatch (outcomes, not bytes) |
| signal fusion | `signals.rs`, `main.rs` 533-608 | one filter per signal, `remaining_secs` of the throttle latch | `plausible`, `SignalConditioner::update`, `reset_gpu`, `ThrottleLatch::update`, `fuse` | Fusion |
| alarm ladder | `alarm.rs`, `main.rs` 730-747 | rung, `hot_secs`, `in_state_secs`, `clear_secs` | `tick_with`, `led` | AlarmLadder |
| LED dispatch | `main.rs` 205-260 and 655-728, `rgb.rs` | `last_bucket`, `last_led`; on the hub, what every channel displays | `duty_color`, `bucket`, `bucket_duty`, `apply_led_command` | LedDispatch |
| sensors | `sensors.rs`, `main.rs` 820-866 | NVML and hwmon handles, capability flags, failure streaks, cached power limit | `discover`, `control_temp`, `probe_caps`, reads, `refresh_power_limit` | Sensors; `control_temp` in ControlLoop |
| metrics and health | `metrics.rs` | gauges, the fusion frame, `last_tick` | set, render, `/healthz`, `serve` | Process, Watchdog (`last_tick`, `/healthz`, the server); Fusion (the fusion frame); ControlLoop (`hub_present`, `fallback_active`); the plain gauges are not modelled |
| configuration | `config.rs` | - | parse, `validate` | Config, loaded by Process |
| command line and one-shot modes | `main.rs` 110-133, 321-373 | - | `parse_args`, `--oneshot`, `--probe-gpu` | Process, as ways to end before serving; not what they print |
| deployment | `deploy/`, `contrib/`, `examples/` | the container, its liveness probe | restart, probe, kill | Process, as its environment; the rest is data |

How they interact. There is one thread with state, the loop; the metrics server
only reads atomics and a signal handler only raises a flag. In every poll
interval the loop

1. reads the sensors, and either takes the hotter of GPU and offset CPU
   (`control_temp`, the *legacy* arm) to the controller's `decide`, or
   conditions and fuses all signals and calls `decide_target`; with no usable
   signal it calls `force(fallback_duty)`;
2. writes the decided duty, if any, to every channel (`apply_duty`), counting a
   pass that failed on any channel as one error, a clean pass clearing the count;
3. ticks the alarm ladder and writes gradient or alarm effect if the LED caches
   say the hub shows something else;
4. reads the rpms, counting a failed pass;
5. at three errors in a row re-enumerates and re-initialises the hub, forgets
   the LED caches and writes the last applied duty again;
6. every twelfth tick looks for sensors that are missing;
7. sleeps, and leaves through the shutdown path if the flag is up, writing the
   fallback duty once.

What is hard in it, and what makes each part correct:

* **Controller.** Hysteresis, minimum delta and slew limit interact over many
  ticks. Correct when drift is caught however slowly it creeps, the ramp never
  overshoots or reverses, duty stays in 0..100, and a steady demand is reached.
* **Loop and hub.** The hub has a memory of its own that the daemon cannot read
  back; writes fail on a part of the channels; the handle may go stale between
  any two steps. Correct when "no errors" means "in sync", a dead handle is
  noticed even when nothing is written, the hub is recovered from every state
  a fault leaves, and losing all sensors brings the fans to the fallback duty.
* **Fusion.** A sum of stateful conditioning and a maximum. Correct when no bad
  or foreign sample enters a filter, the throttle floor is held for as long as
  configured and then let go, and no signal can lower the target.
* **Alarm ladder.** Priority, hold, cooldown and re-evaluation are an ordered
  chain on counters of whole seconds. Correct when no active trigger is masked,
  no rung is left before its dwell, heat that nobody measured does not count,
  and calm brings it down.
* **LED dispatch.** Two caches of what the hub displays. Correct when they are
  right whenever the diff relies on them.
* **Sensors.** Retry cadences and capabilities cached with a handle. Correct when
  a GPU that is back is found within the interval, one that answers is left
  alone, and nothing learnt through an old handle is used with a new one.
* **Metrics.** A page kept between ticks and scraped at any moment by another
  thread. Correct when what it says of a decision is what was decided.
* **Health.** A time stamp set once per tick and read, with a clock that can be
  stepped, by another thread. Correct when a loop that lives is never killed for
  being stale and one that hangs is.
* **Configuration.** One function stands between a file and the divisions, shifts
  and lookups of everything above. Correct when what it lets through can be
  served, and sections that are off count neither way.

The full list of hazards, each at its line with the properties that watch it,
is in `PROJECT.json` under `hazards`.

---------------------------------------------------------------------------

## 2. The plan

Done, in this order:

1. Curve, Controller, and Tracking over them, with the abstract FanRamp.
2. ControlLoop on top of Controller: hub, failures, crash and restart.
3. AlarmLadder, with the abstract PriorityLadder.
4. LedDispatch, on Curve (the gradient is a curve from duty to colour).
5. Fusion, on Curve.
6. Sensors.
7. For each the proofs of its safety properties.
8. Config, and Process over it: start-up, heartbeat, `/healthz` and the liveness
   probe, with the abstract Watchdog.
9. The fusion frame of the metrics page, in Fusion.
10. The theorems on those, on the curve's own points and on the last safety
    properties that were only model-checked.
11. What liveness leaves to prove: the time limits (`HubBackInTime`,
    `NoLateSustained`, `StuckNotForLong`), the steps that end a wait, and what
    decreases while it lasts; and that hotter never means slower, for
    one curve and for the fusion of all.

What was considered and left out:

* **Composition**: ControlLoop with Fusion in the place of the arbitrary target,
  or with LedDispatch sharing `hub`, `calm` and re-init. Each component lets its
  neighbour do more than the composition would: ControlLoop takes any target,
  LedDispatch lets a hub be re-opened at any time. The safety of the components
  carries over for that reason.
* **An abstract hub keeper** (the duty wanted, the duty held, in sync or known to
  be out of sync) for ControlLoop: it would say little beyond
  `NoErrorsMeansInSync`, `HubNeverJumps` and `HubRecovers`, which say it of the
  variables of the code.

What a next step would be: how long the throttle floor takes to reach the fans
through the slew limit, across Fusion and ControlLoop; and Watchdog's liveness
half from `StuckIsKilled`, should the prover learn fairness.

Every module with a specification has its proof module.

---------------------------------------------------------------------------

## 3. Modules, and how they correspond to the code

`PROJECT.json` maps every definition to its lines. Definitions marked *faulty
variant* are not part of any specification: each is the mutated form of the
definition next to it, and makes the property it is listed with under `mutants`
fail.

### Curve, Controller, Tracking, FanRamp

`Interpolate` is `interpolate`: clamped ends, the first window whose right end is
not left of the abscissa, linear in between, rounded half up. `ValidCurve` is what
`Config::validate` guarantees. Abscissae are integers, so the f64 rounding
of the code is replaced by exact rounding of the rational.

`StepToward` is `step_toward` as four disjoint cases in the code's order: first
decision, hold (last_temp untouched), at target, slew. `NaN` is a value of its own
since a comparison with it is false. `Decide`, `DecideTarget`, `ForceDuty` are the
entry points; `decision` is what they return.

`Tracking` calls the three in any order, and remembers the call, the duty aimed
for and the temperature at which the fan last moved. `FanRamp` is the
abstract promise: asked for a duty, the fan goes a full stride toward it (`Step`, or
the whole way if that is less) or rests, and it may rest only on the duty or
closer to it than `Slack`, the code's `min_duty_delta`.

### ControlLoop (extends Controller)

`pc` names the next step of the tick. `hub` is the handle: none, valid, or stale
once the device it was opened on has gone. `device[c]` is the hub's side: manual
mode, and the duty the channel holds. `errors` is `consecutive_errors`, which is
compared with 3 only and stops counting there.

| action | code |
|---|---|
| `Start`, `HubWait` | the loop around `find_hidraw` / `open` / `init` before the first tick |
| `Sense` | both arms of the sensing block, with `force` when nothing is usable |
| `Apply` | `apply_duty` and the error count; `last_applied` moves before the outcome is known |
| `ReadRpm` | `read_rpm` on every channel and the error count |
| `Recover`, `Reapply` | re-enumeration, re-init, and the write of `last_applied` after it |
| `Terminate`, `Shutdown` | the test of the flag at the top of the loop; the single fallback write |
| `SigTerm`, `Kill`, `Restart` | signal handler; a kill; the container runtime starting a new process |
| `Unplug`, `Plug`, `CalmDown` | the device; and the point from which on nothing fails |

A pass over the channels is one step that picks the set of channels it fails
on. `init` stops at the first failure, so a failed one leaves a prefix of the
channels in manual mode. A device comes back with its old state (the node was
renumbered) or with none (power was lost). `staleTicks` is history: the ticks begun
with a stale handle, counted anew from `CalmDown` on, since before it a
re-enumeration may fail any number of times.

### AlarmLadder, PriorityLadder

`TickWith` is `tick_with`: `hot_secs` first, then the three escalations, then
hold, cooldown or stand-down with re-evaluation. The comparisons with
configured limits are inputs (`fault`, `near`, `heat`). Real time passes in
half seconds and is truncated to whole seconds as `as_secs` does. `PriorityLadder`
says: climb to the highest wanted rung at once, fall only after the rung shown
has not been wanted for `Dwell`, and never wait as long as `Patience`, both in
real time. `hot`, `quiet` and the like are history: the real time behind the
counters.

### LedDispatch (extends Curve)

`ShowGradient` and `ShowCommand` are the two arms of the LED section, `SpeedOnly`
the shortcut that re-sends only the speed, `FullPass` and `SpeedPass` the loops
over the channels with the failures of some. `shown[c]` is what a channel
displays. `set_effect` sends three packets per channel: one that fails before the
colours leaves the channel as it was, one that fails before the commit leaves it
`Halfway`, which no cache describes. `torn` is history: a full pass reached some of
the channels but not all, or one only halfway. `Reset` and `Reinit` are the leaving and the re-opening of the hub. A tick
whose duty write fails skips the section. A colour has one component.

### Fusion (extends Curve)

`Condition` is `SignalConditioner::update` (plausibility, then the asymmetric
EWMA, a missing sample holding the filter), `Latch` is `ThrottleLatch::update`,
`Candidates`, `Demand`, `Winner`, `Target` are `fuse`, `Rediscover` is `reset_gpu`
on a GPU discovered anew. Smoothed values and percentages of the power limit
are rounded down to integers where the code keeps the f64. `hull` and
`since` are history: the range of the plausible samples of the present device,
and the real time since a throttle reason was last seen.

`frame` and `floorActive` are the part of the metrics page a tick leaves behind.
`SetFusionFrame` is `set_fusion_frame`, one step under one lock, and
`PublishFloor` is `set_throttle_floor_active`, a step and a lock of its own: a
scrape may come between the two. `Shown` and `OneHot` are the lines `render` makes
of the frame.

### Sensors

`handle` is the GPU sensor: none, live, or stale once the driver it was opened on
has gone. `capSignals` and `capLimit` are the capabilities cached with it,
`samples` the drivers whose samples are in the filters.

| action | code |
|---|---|
| `Start` | the probe when the signals runtime is built, after the wait for the hub |
| `ReadAll` | `read_temps` and the streak (`CountFailures`), the power limit every `LimitEvery` ticks (`RefreshLimit`), `read_signals` |
| `Rediscover` | at the end of the tick: look for the GPU when `Due`, and `Adopt` the handle found |
| `Vanish`, `Appear`, `SetLimit`, `CalmDown` | the driver unloaded or restarted, the power limit changed, and the point from which on it stays and answers |

In every tick the driver answers everything (`up`) or any part of the calls; a
probe answered in part finds a part of the capabilities. `capFresh`, `waited` and
`limitOff` are history.

### Config, Process, Watchdog

`Config` has no state. A configuration is a record of sections; `WellTyped` is what
serde lets through, `Default` what it fills in, and `TopOK`, `RgbOK`, `AlertsOK`,
`SubSignalOK`, `ThrottleOK` are the checks of `Config::validate`, one conjunct per
`bail!`, under the conditions `SectionsOK` and `SignalsOK` gate them with. A float is
an integer or one of the three values TOML writes `nan`, `inf` and `-inf`. The
infinities compare as numbers do; every comparison with NaN is false, so that `Below`
and `Weight` differ on it as `x < 0.0` and `!(a > 0.0 && a <= 1.0)` do. `Serviceable`
is the other side: what the modules above assume of their constants, the bytes of
the packets (`PacketsFit`), and that every point of a curve is answered with its
own duty (`Honoured`).

`Process` is the life of the daemon outside a tick. Time passes in fractions of a
second; `since` is how far the wall clock is past the last stamp of `last_tick`, and
`frac` the part of a second that stamp dropped. `portless` is history: how long the
process has been running without a port.

| action | code |
|---|---|
| `Refuse`, `Usage`, `OneShot` | the three ways `main` ends before the server starts |
| `Begin` | `Metrics::new`, `serve` with or without its port (`Serve`), first attempt to open the hub |
| `Found`, `Missed`, `Slice` | the wait for the hub, stamped after every attempt and every second of the wait |
| `Beat`, `Wake` | the heartbeat at the end of a tick; `sleep_interruptible` |
| `Hang` | a HID or NVML call that never returns |
| `Leave` | SIGTERM, noticed in a sleep |
| `Ask`, `Answer` | a request for `/healthz`: the server reads `last_tick`, and up to `Lag` later the clock |
| `Kill`, `Restart` | the kubelet: three failures in a row; a new container |
| `Pass`, `StepClock` | time; and the wall clock set by NTP or by hand |

`Watchdog` is what `/healthz` and the probe promise together: a daemon that is stuck
is killed in the end, and no other ever is. `MaxAge` is the time that can take at
most, counted from the last stamp: the grace of three polls, the second that
whole-second reading may drop, the failures in a row that the probe wants, and
the time to answer the last. A process without a port gives no answer at all, so that
`Threshold` periods are its limit. With the defaults (5 s, and three failures 30 s
apart) that is about 106 s.

---------------------------------------------------------------------------

## 4. What the runs check

### Runs that pass

**Tracking** (controller alone)

* `NoUnnoticedDrift`: a temperature that has moved `HysteresisC` from where the
  fan last moved moves the fan or finds it on target, however many held calls
  came between.
* `ImplementsFanRamp`: refinement of FanRamp. The ramp does not turn, overshoot or
  dawdle, and stalls only within the minimum delta.
* `SteadyDemandSettles`: an unchanging demand is reached within `MinDutyDelta`
  and then no more writes are asked for.
* `TypeOK`: among others, that no slew leaves 0..100.

**ControlLoop** (loop, hub, faults, restart)

* `NoErrorsMeansInSync`: a tick ending with no error on the books and a live
  handle leaves every channel in manual mode at `last_applied`.
* `HubBackInTime`: once nothing fails any more, a stale handle is in use for
  `ErrorLimit` ticks at most, although hysteresis may suppress every duty write.
* `BlindFansReachFallback`: without sensors the hub gets to the fallback duty once
  nothing fails.
* `HubNeverJumps`: from an in-sync state only the fallback moves a fan by more
  than `MaxStep`, re-init and reapply included.
* `HubRecovers`: from whatever state faults left, a hub that is there and works
  is taken over and brought in sync.
* `TermEndsProcess`: SIGTERM ends the process, from the wait for a hub as well.
* `LostHubReported`: a hub that stays away is reported absent.

**AlarmLadder**

* `ImplementsPriorityLadder`: no masked trigger; climbs and falls land on the
  highest wanted rung; no rung is left before the cooldown has passed in *real*
  time, and none is kept for twice that.
* `NoLateSustained`: heat that has lasted twice `SustainedAfter` shows, although
  every tick may drop a fraction of a second.
* `NoEarlySustained`: `SustainedHot` needs that much measured heat since the last
  cool reading; ticks without a reading do not count.
* `PulseNeverSlows`: the NearLimit pulse never slows within one stay.
* `StandsDown`: calm inputs bring the ladder to Normal.

**LedDispatch**

* `CachesHonest`: unless a pass was torn, every channel shows what the caches
  say, across failures on a channel or between its packets, resets, dropped alarms
  and the speed-only shortcut.
* `TypeOK`: among others, that every channel displays one of the section's own
  effects, with colours and speed in range, or was left halfway.
* `BreathesInBucket`: the colour SustainedHot breathes in is one the gradient has in
  the bucket of the present duty; `bucket` and `bucket_duty` invert each other.
* `SettlesRight`: once nothing fails the display becomes what rung and duty
  ask for, short of a torn pass, and stays so.

**Fusion**

* `NoPoison`: a filter stays within the range of the plausible samples of the
  device it now speaks of.
* `LatchBridges`, `LatchLetsGo`: the throttle floor is held for `HoldSecs` of real
  time after the last reason was seen, with or without signals, and for less
  than twice that.
* `RaiseOnly`: leaving out any part of the candidates never raises the target.
* `NotBelowLegacy`: with the die temperatures on the top curve and the GPU
  readable, fusion asks for no less than the legacy arm. Each arm subtracts an offset
  of its own, `LegacyOffset` (`cpu_offset`) and `CpuOffset` (`offset_c`), so the property
  has a premise, `OffsetsAgree`: they are the same, or fusion's is the smaller and the
  curve rises.
* `PageExplainsTarget`: at whatever moment the page is scraped, one of the duties it
  shows is marked and it is the largest. That duty and the floor flag account for the
  target once the flag has followed the frame; in the window before that they may not.

**Sensors**

* `BackInTime`: a GPU that answers has an open handle after `Interval` + 1 ticks at
  the latest, whatever streak and tick count were left from before. With the
  code's 12 that makes a retry every 13 ticks.
* `LimitCatchesUp`: a power limit that was changed, or that could not be read, is
  used wrongly no longer than since the last refresh.
* `NothingFormer`: capabilities and filters never come from a driver before the
  one the handle was opened on.
* `GpuReturns`: once the driver stays, a lost or never found GPU is read with all
  its capabilities.

**Process** (start-up, heartbeat, probe)

* `AcceptedIsServiceable`: a configuration that `validate` accepts is what the rest
  of the program takes for granted, if the temperatures in use are finite (`Finite`).
* `DisabledIgnored`: the options of a section that is off change no verdict.
* `NoFalseAlarm`: a check that finds the heartbeat stale finds a loop that hangs, or a
  clock that was stepped since the heartbeat it looked at.
* `StuckNotForLong`: a process without a port runs no longer than `Threshold` periods
  of the probe, whatever it does and whatever the clock does. Of one with a port the
  last stamp never gets older than `MaxAge`, wherever the loop hangs, unless the clock was
  stepped: no restart of the wait, late answer or half-second put the kill off.
* `ImplementsWatchdog`: refinement of Watchdog. A daemon that hangs, or got no port,
  is killed in the end or ends by itself; no other is, although steps of the
  clock spoil single checks.
* `TypeOK`: among others, that no accepted poll interval is zero.

### Runs that find a disagreement

HubFollowsDaemon, HubPresentWhenOpen, TermLandsFallback,
BucketComesTrue and SameAsLegacy each check one statement of a document or a
comment that the code does not keep: section 9.

---------------------------------------------------------------------------

## 5. Bounds

| run | bounds | why they are enough |
|---|---|---|
| Tracking | temperatures 35..45, targets {30, 33, 50, 100}, a curve with a flat foot, a steep part and a dip; hysteresis 2, minimum delta 5, step 10 | every branch in both directions; drift of one degree at a time stays under the hysteresis and the minimum delta; targets a full ramp, a partial step and less than the delta apart |
| ControlLoop | 2 channels; duties 20 and 100, fallback 80, step 40; error limit 3; `StaleMax` 4 | two channels are what a partial failure needs; duties need more than one tick and the fallback is off the ramp's grid; the error limit is the code's; the history `staleTicks` saturates one past the limit it is compared with, so that a tick too many would show |
| AlarmLadder | half seconds; ticks of 1, 1.5, 2.5 s; sustained 3 s, cooldown 3 s, escalation 2 s; `SecsMax` 7, `RealMax` 14 | truncation loses a fraction, dwells take several ticks, the pulse reaches its top speed, and counters reach the saturation that stands for `u64::MAX`; `RealMax` is past twice the sustained time and twice the cooldown, the latest moments the properties name |
| LedDispatch | 2 channels; duties 40, 50, 100 in 4 buckets, two of them in one bucket; `PulseMax` 2 | a torn pass needs two channels, the diff needs equal and different buckets; the alert colour is also a colour of the gradient, so that the speed-only shortcut is taken between rungs |
| Fusion | GPU and CPU temperature, power in percent of the limit; readings absent, implausible, low, high; hold 2 s, ticks of 1, 1.5, 2 s; `RealMax` 8; `CpuOffset` 10 and `LegacyOffset` 15 (in SameAsLegacy 10, as in the example configuration) | every way a signal can drop out of the candidates, both filter directions, ties, and a latch that loses fractions of a second; the offsets differ in the direction the premise of `NotBelowLegacy` allows |
| Sensors | interval 4, failure limit 3, power limit every 5 ticks; two capabilities, two limits; `SinceMax` 5 | the interval is longer than the failure limit as in the code, the two cadences have no common divisor, a probe can be complete, partial or empty |
| Process | half seconds; polls of 1 and 2 s, `RetrySecs` 3, `Attempt` 2, `Work` 3, `Lag` 1, probe `Period` 9, `Threshold` 3; clock steps of -3 and +7, at most `StepsMax` 2; `Far` 44. Files: a plain one and one with everything on, with up to two options changed, some to nan, inf or -inf | the tick uses up its budget, stamp and look both drop half a second, a check falls into every part of the loop, a forward step makes a check fail and a backward one hides staleness; `Far` is beyond `MaxAge` of every poll interval used, 42 at most, so that a kill that comes late would show; `portless` needs no bound of its own, as a process is killed within `Threshold` periods; two options are what it takes to break a check in a section and switch that section off |

`errors`, `staleTicks`, `sinceProbe`, `streak`, the ladder's seconds and the histories of real time are
the only unbounded quantities; each saturates at the named constant, and no
property distinguishes values beyond it.

The time budgets of Process (`ProcessAssumption`) come from the code's own sleeps:
`Hub::init` sleeps 200 ms once and once per channel, an LED pass 30 ms per channel,
so that an attempt with four channels takes about a second, and so does the work of
a tick without its sleep; three seconds of grace with the shortest poll interval leave room for both.
`ProbeAssumption` (a poll interval and its tick are shorter than the probe's period,
and the clock is stepped less often than the probe forgives) is there for
`ImplementsWatchdog`; as `Counted` is a part of `IInv`, all theorems of ProcessProofs
cite it. The defaults, 5 s against 30 s, satisfy it; a poll interval near the probe's
period does not, although the code accepts it. `Far` stands for "stale whatever steps
are still to come": beyond it only the fraction of a second is kept.

No symmetry is used: `Channels` is a sequence where `init` depends on the order,
and liveness is checked elsewhere.

---------------------------------------------------------------------------

## 6. Fairness

* Tracking, `WF(Repeat)`; AlarmLadder, `WF(Tick(same input))`; LedDispatch,
  `WF(calm /\ Tick)`: the loop runs once per poll interval for as long as it lives, and an
  input that does not change is handed to the component again.
* ControlLoop, `WF(Daemon)`: a live process keeps executing its one thread; no
  call in it blocks for ever. `WF(Restart)`: a DaemonSet pod is restarted when
  its container ends (`deploy/base`).
* Sensors, `WF(Daemon)`: as in ControlLoop; the loop ticks on, whatever the driver does.
* LedDispatch, `WF(calm /\ hub = "stale" /\ Reinit)`: a stale handle fails its rpm
  reads and so is re-opened; ControlLoop checks that (`HubBackInTime`, `HubRecovers`).
  Both are asked for from the calm on only, where `SettlesRight` and `BucketComesTrue`
  speak.

* Process, `WF(Pass)`, `WF(Loop)`: time passes and the thread runs, unless it hangs,
  which it may do in any call; `WF(Ask)`, `WF(Answer)`, `WF(Kill)`: the server thread
  answers and the kubelet asks, counts and kills (`daemonset.yaml`). No
  restart is forced there: none is needed for what Watchdog promises.

Nothing is assumed about the environment: no fairness on plugging in, on calming
down, or on writes that succeed. Liveness properties name their condition
instead (`calm`: from here on nothing fails; or "always eventually").

Deadlock is checked in every run: none of the systems may stop. In
ControlLoop and Process an exited process can be started again.

---------------------------------------------------------------------------

## 7. What is proved

All theorems hold for every value of the constants that satisfies the named
assumptions of the module (`GraphAssumption`, `InputAssumption`, `KnobAssumption`,
`AbsentAssumption`, `LoopAssumption`, `ReadingAssumption`, `AlarmAssumption`,
`LedAssumption`, `FusionAssumption`, `SensorAssumption`, `ConfigAssumption`,
`FilesAssumption`, `ProcessAssumption`, `ProbeAssumption`). They state what
`Config::validate` accepts and that a poll takes at least a second; those of Process,
that files are typed as serde types them, the time budgets of section 5, and that
values standing for "nothing" are no ordinary ones. TLC evaluates them in the runs.
That what is accepted satisfies the assumptions on the configuration is itself a
theorem (`AcceptedServiceable`).

| module | theorems | argument |
|---|---|---|
| CurveProofs | `InterpolateInRange`: every abscissa on a valid curve gives a duty in 0..100 | `Window` exists because the set of candidate windows has a least element; `Blend` is between its ends because rounding half up of a rational between two integers is |
| | `PointsHonoured`: each point of the curve is answered with its own duty | at an inner point the least window is the one that ends there, and a blend at its right end is that end |
| | `HotterNeverSlower`: of a rising curve a hotter temperature never gets a lower duty, of a falling one never a higher | within a window a rounded blend grows with the abscissa; two windows are separated by a point of the curve, between whose duty and their own ends the two answers lie. Rising and falling are one argument over `Onward` |
| CurveProofs, TrackingProofs, ControlLoopProofs | (lemmas) `SlewBetween`, `StepTowardWalks`: `step_toward` keeps the types and moves between the last duty and the target, by at most `MaxStep`; `ForceSets` | one case per branch |
| TrackingProofs | `TypeCorrect`, `DriftCaught`, `RampImplemented`, `ClosesIn` | `IInv` = types and `DriftInv`: while a fan off target is being held, `last_temp` still is the temperature at which it last moved. Without it the hold could have moved the reference. `ClosesIn` follows from the refinement: a full stride brings the fan strictly closer |
| ControlLoopProofs | `TypeCorrect`, `NoErrorsIsSync`, `BlindIsFallback`, `StaleIsCounted`, `NeverJumps` | `IInv`, see below |
| | `BackAgain`, `WriteSyncs`, `SyncKept`, `BlindLands`, `TermRanks` | `IInv` and, for a calm system, `CalmInv`: the device stays, and a tick that ended with the handle still stale has not used up the `ErrorLimit` ticks. `StaleInv` says that by then the errors are at the limit, so the tick that uses them up re-enumerates, and calm lets that succeed |
| AlarmLadderProofs | `TypeCorrect`, `HighestWins`, `LadderImplemented`, `SustainedIsReal`, `SustainedInTime`, `CalmTicksCount`, `PulseOnlySpeedsUp` | `IInv` = types, `HighestActiveWins`, `CountsAreReal` and `CountsKeepUp`: what is counted never exceeds the real time it stands for, and is at least half of it, as a tick takes a second and loses less than one. The properties speak of real time, the code counts truncated seconds. The pulse is a quotient of the seconds in the state, which only grow within a stay |
| LedDispatchProofs | `TypeCorrect`, `NeverFooled`, `BreathStays`, `RightAfterTick`, `RightStays` | `BreathStays` is arithmetic (lemma `RoundTrip`): rounding down undoes rounding up. `NeverFooled`: `IInv` = shapes and `CachesHonest`; a pass that reaches no channel changes nothing, one that fails somewhere tears, one that succeeds makes all channels agree. `TypeCorrect` takes from CurveProofs that an interpolated colour is one, and from `WholePass` that a pass leaves every channel with an effect of the section or halfway. `RightAfterTick` is `CachesHonest` put to use: where the diff writes nothing the caches say it is right, and they do not lie |
| FusionProofs | `TypeCorrect`, `NeverPoisoned`, `FloorBridges`, `FloorLetsGo`, `RaisesOnly`, `NeverBelowLegacy`, `PageTrue`, `WorseNeverLower` | `LatchInv` ties the counter to real time from both sides: what is left plus what has passed is at least the hold, and each whole second counted stands for less than two. `FilterInv`: a filter within the hull, and a weighted mean rounded down stays between the two integers it is a mean of. `PageInv` ties frame and flag to the tick they were made of. `WorseNeverLower` puts `HotterNeverSlower` under the maximum: no candidate asks for less than it did, so the winner, whoever it is now, does not either. The rest is that the winner of a finite set is its maximum |
| SensorsProofs | `TypeCorrect`, `BackAgain`, `LimitCaughtUp`, `FormerForgotten`, `AnsweringKept` | `WaitInv`: while a GPU that answers is waited for, `sinceProbe` and, for a stale handle, the streak have counted every tick of the wait, so both conditions of `Due` hold when the interval is over. It needs the failure limit not to exceed the interval by more than one |
| ProcessProofs | `TypeCorrect`, `NeverFalseAlarm`, `KilledOnlyStuck` | `IInv`, see below |
| | `StuckIsKilled` | `IInv`, `Watched` and `Unheard`, see below |
| | `AcceptedServiceable`, `LeftoversIgnored` | one lemma per kind of check (curves, weights, offsets, bytes), with the strictness of each comparison on NaN and the place of the infinities in the order (`FiniteOrder`); for curves, `PointsHonoured` |

**ControlLoop's invariant.** "No errors means in sync" says nothing between two
program points, so it is not inductive. What is, relates handle, hub and error
count at every point of the tick:

* `HandleInv`: an open handle that is still valid means the device is there and
  every channel in manual mode (a device can only be reset by leaving the bus,
  which makes the handle stale for good);
* `AppliedInv`: the loop's `last_applied` is the controller's `last_duty` except
  between deciding and writing, where the decision is at most `MaxStep` away from
  it unless it is the fallback;
* `SyncInv`: with a valid handle and no error on the books every channel's duty is
  `last_applied`; and recovery is only entered at the error limit, so that the
  count cannot be zero between the re-init and the reapply;
* `StaleInv`: the errors have kept up with the ticks begun with a stale handle, the
  present tick's own error still to come before its rpm step.

**Process's invariant.** "No check fails without a cause" is about differences of
times that a proof has to bound at every point of the loop:

* `Shape`: what the types leave open, as that only an attempt or a tick hangs and that
  a check is answered long before the next one is due;
* `Young`: the stamp is not older than what the loop has used up of its budget since, a
  stepped clock apart; so the age at the latest point is the whole budget, which
  `ProcessAssumption` keeps within the grace;
* `Fresh`: the same of what a check has read, plus the time the answer takes;
* `InBudget`: what is left of a step never exceeds what the step may take;
* `Counted`: of a process that is well, the failures so far, the one a stepped stamp may still cause
  before the next heartbeat (`Spoiling`) and the one of a check under way are covered by
  the clock steps seen. It needs that the next stamp comes before the next
  check, hence `ProbeAssumption`.

`StuckIsKilled` needs the other direction, which `Watched` adds: as long as the clock has
not been stepped, a check under way has read the stamp the process has now
(`ReadsThis`), and the age of that stamp, the time to the next check and the
failures so far are in step (`InStep`): past the grace every period adds a
failure, so an age beyond `MaxAge` would take more failures than the probe forgives. Of a process
without a port, `Unheard` says the same without a stamp: the time it has run, the time
to the next check and the failures so far are in step, whatever the clock does.

`NeverBelowLegacy` has the premise `OffsetsAgree` of section 4. It is a premise on the
configuration: `validate` does not compare `offset_c` with `cpu_offset`, and with
`cpu_offset` below `offset_c` fusion can ask for less (section 9).

`WorseNeverLower` has a premise, `CurvesAlike`: the demand curves run in the direction of
their signal (falling for the thermal margin, rising for the others). `validate` does
not ask for that, and with a dip in a curve hotter can mean slower, as Tracking's
curve shows; those of `deploy/base/config.toml` are alike.

Proofs are laid out with a step per action and below it one per conjunct the
action can disturb; lemmas that several proofs cite come first.

---------------------------------------------------------------------------

## 8. What is only model-checked

That something happens at all: the prover has no rule for fairness and ENABLED. For
most liveness properties the parts that are not about fairness are theorems:

| checked by TLC | proved of it |
|---|---|
| `SteadyDemandSettles` | `ClosesIn`: every call settles the fan or brings it closer |
| `HubRecovers` | `BackAgain`: a limit on the ticks with a stale handle; `WriteSyncs`, `SyncKept`: the writes that end the wait, and that it stays ended |
| `BlindFansReachFallback` | `BlindLands`: the write that ends the wait |
| `TermEndsProcess` | `TermRanks`: the steps left only get fewer |
| `StandsDown` | `CalmTicksCount`: every calm tick counts; `LadderImplemented`: a limit in real time |
| `SettlesRight` | `RightAfterTick`, `RightStays`: one tick is enough, and it lasts |
| `ImplementsWatchdog`, that a stuck daemon is killed | `StuckIsKilled`: the time within which it is |
| `GpuReturns` | `BackAgain` of SensorsProofs: the limit on the wait for the handle |
| `LostHubReported` | nothing: the device may stay away and come back as it likes |

The other half of each, that the daemon, the loop or the clock takes its next step, is
what section 6 assumes and TLC uses.

Every safety property of the runs is proved.

---------------------------------------------------------------------------

## 9. Where code and documents disagree

* **HubFollowsDaemon** (`main.rs:649`). A failed duty write is counted but not
  repeated, because the controller has already moved; one or two errors stay
  below the limit. The comment at `main.rs:785-790` names that divergence as the
  thing to avoid, and the code avoids it after a re-init only. Counterexample: the
  last write of a ramp fails on one channel, and the channel stays behind for as
  long as the demand is steady.
* **HubPresentWhenOpen** (`main.rs:818`). After a failed re-enumeration the old
  handle is kept. If it works again, `hub_present` stays 0, against
  `README.md:410`.
* **TermLandsFallback** (`main.rs:882`). On SIGTERM the fallback is written once to
  the handle at hand. In the ticks between a re-plug and its detection that is a
  stale one, so the duty does not land although the hub works, against
  `README.md:64-67`.
* **BucketComesTrue** (`main.rs:685`). After a pass that failed on one channel only, or halfway,
  the cache keeps its old value; if the wanted colour returns to it, nothing is
  written and the channel keeps the abandoned effect. `CachesHonest` and
  `SettlesRight` hold precisely without such a pass.
* **SameAsLegacy** (`signals.rs:395`). Fusion subtracts the CPU offset also when the
  GPU is missing; the legacy arm does not. The two offsets are equal in this run, as in the quoted
  example configuration. `NotBelowLegacy` holds with a GPU and its premise on the
  offsets.

Noticed while reading, without a run:

* `main.rs:737`: whole seconds are taken of every interval and the fraction is
  dropped with `last_tick = now`, against the comment at `main.rs:488-490`. The ladder
  errs on the late side: `NoEarlySustained` and the real-time dwell of PriorityLadder
  hold. The same truncation delays the release of the throttle latch; `LatchLetsGo`
  says by how much.
* `offset_c` "plays the same role as the top-level cpu_offset" (`config.toml:135-136`), but
  they are two options that default to 10 each (`config.rs:172` and `config.rs:318`) and nothing ties
  them: with `cpu_offset` below `offset_c`, fusion asks for less than the legacy arm also
  while the GPU is readable. `OffsetsAgree` leaves that case out.
* `config.rs:463` and the checks of `hysteresis_c`, `cpu_offset` and `offset_c` let `nan`
  through, since a comparison with it is false, and `inf`; a curve may also begin at
  `-inf`. Of the points (-inf, 30), (50, 60), (80, 100) the second is answered with
  inf/inf, which is NaN, so with duty 0. `AcceptedIsServiceable` excludes such
  configurations by name (`Finite`); the weights are checked the strict way round.
* The options of a disabled `[signals.thermal_margin]` or `[signals.throttle]` are not
  validated, as `config.rs:632-636` says, but the smoothed headroom (`alpha`) and the
  latch (`reasons`, `hold_secs`) go to the alarm ladder as NearLimit hints whether or
  not the section is on (`main.rs:605-608`).
* When the metrics port is taken the daemon goes on, and the liveness probe kills it for it
  (`Serve`, and "stuck" in Watchdog).
* With a poll interval near or above the probe's 30 s one clock step can spoil several
  checks in a row (`ProbeAssumption`), and `3 * poll_secs` overflows for absurd
  values of `poll_interval_secs`, on which there is no upper limit.
* A scrape between `main.rs:576` and `main.rs:581` sees the new frame with the old
  floor flag, and the two need not account for the target. The model has that window
  (`floorDue`) and no property excludes it; and `README.md:416` calls the marked signal the one that set the target, while
  the code marks the best candidate also when the floor raises the target above it.
* A latched floor without any signal left takes the place of `fallback_duty`, also a
  `floor_duty` of 0.
* The gauges of the power limit and the temperatures are only ever set: the last value stays on
  the page when the reading is gone.
* The comment of `bucket_duty` promises its round trip "for every b", which fails with
  more than 101 buckets for those no duty falls into (`BreathesInBucket` is about the
  others).
* `README.md:531-532` says LEDs are written strictly after a successful duty write, while
  a held tick writes LEDs without any duty write.
* The power limit is unknown for 60 ticks after one failed refresh (`LimitCatchesUp`
  says no longer), and a capability that a probe missed because the driver was still
  starting is not looked for again as long as the temperature can be read. No property
  watches that loss: `GpuReturns` is about drivers that answer when probed, and
  `NothingFormer` about whose capabilities they are.

---------------------------------------------------------------------------

## 10. What is not modelled

* The dump of `--probe-gpu` and what `--oneshot` prints: formatting of values the
  other modules compute, without state.
* The plain gauges and counters of the metrics page, which repeat a value that was
  just computed, and its text.
* The driver behind Sensors may change its mind between two steps of a tick, not
  between two calls of the same step, and a handle whose driver went stays useless.
* HID packets, rpm parsing: formatting without
  state. The outcome of a call (it worked, it failed on some channels) is
  modelled instead.
* Floating point: temperatures, smoothed values and percentages are integers; of a
  configuration also nan and the infinities, but not finite numbers so large that their
  difference overflows.
* What a channel displays that was sent colours and no commit: `Halfway` stands for
  whatever the firmware makes of it.
* That the first decision of a process may jump, after a restart as well, is by
  design (`curve.rs:76`); `HubNeverJumps` begins where hub and process are in sync.
* Duration of calls outside Process: a tick takes some interval out of `Intervals`; that a
  re-enumeration makes a tick longer shows only as a longer interval.
* TOML syntax (one value, `Unreadable`) and the warnings about unknown or ineffective
  keys; the deployment manifests apart from the liveness probe, the alert rules
  and dashboards: data, no behaviour of the program.
* The compositions of section 2: each component is checked with neighbours that may
  do more than the real ones.

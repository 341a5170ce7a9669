----------------------------- MODULE MCProcess -----------------------------
(***************************************************************************)
(* Configuration files: two that are fine - a plain one, and one that      *)
(* switches every section on - and all that differ from one of them in at  *)
(* most two options, chosen so that each check of Config::validate is met  *)
(* on both of its sides, with its section on and with its section off.     *)
(***************************************************************************)
EXTENDS Process

P(t, d) == [temp |-> t, duty |-> d]

Line == << P(30, 20), P(50, 45), P(80, 100) >>

Plain == [Default EXCEPT !.top.curve = Line, !.top.poll_interval_secs = 1]

AllOn ==
  [Plain EXCEPT !.rgb.enabled = TRUE, !.alerts.enabled = TRUE,
                !.signals.enabled = TRUE, !.throttle.enabled = TRUE,
                !.gpu_power.enabled = TRUE, !.gpu_power.curve = Line,
                !.gpu_power.percent_tdp = TRUE,
                !.thermal_margin.enabled = TRUE, !.thermal_margin.curve = Line,
                !.mem_temp.enabled = TRUE, !.mem_temp.curve = Line]

Curves ==
  { << >>, << P(40, 50) >>, << P(40, 101) >>,
    << P(50, 30), P(40, 60) >>, << P(40, 30), P(40, 60) >>,
    << P(40, 60), P(201, 30) >>, << P(NaN, 60), P(50, 30) >>,
    << P(NegInf, 30), P(50, 60), P(80, 100) >>, << P(40, 30), P(PosInf, 60) >>,
    << P(PosInf, 30), P(40, 60) >> }

(* [section, option, value] *)
Deviations ==
       ({"top"} \X {"curve"} \X Curves)
  \cup ({"top"} \X {"poll_interval_secs"} \X {0, 2})
  \cup ({"top"} \X {"channels"} \X {<< >>, << 4 >>, << 0, 1 >>, << 5 >>})
  \cup ({"top"} \X {"fallback_duty"} \X {100, 101})
  \cup ({"top"} \X {"max_step_per_tick"} \X {0})
  \cup ({"top"} \X {"hysteresis_c", "cpu_offset"} \X {-1, 0, NaN, PosInf})
  \cup ({"rgb", "alerts", "signals", "throttle", "gpu_power"} \X {"enabled"}
          \X {TRUE, FALSE})
  \cup ({"rgb"} \X {"stops"} \X {<< >>, << 50 >>, << 50, 50 >>, << 50, 101 >>})
  \cup ({"rgb"} \X {"fans_per_channel"} \X {0, 7})
  \cup ({"rgb"} \X {"fans"} \X
          {[k \in {2} |-> 6], [k \in {2} |-> 7], [k \in {3} |-> 6],
           [k \in {OddKey} |-> 6]})
  \cup ({"rgb"} \X {"buckets"} \X {1, 2})
  \cup ({"rgb"} \X {"brightness"} \X {9})
  \cup ({"alerts"} \X {"sustained_after_secs", "escalate_every_secs",
                       "cooldown_secs"} \X {0})
  \cup ({"alerts"} \X {"near_limit_margin_c"} \X {-1})
  \cup ({"cpu_temp", "gpu_power"} \X {"curve"} \X Curves)
  \cup ({"cpu_temp"} \X {"offset_c"} \X {-1, PosInf, NegInf})
  \cup ({"gpu_temp", "gpu_power"} \X {"fall"} \X {0, 100, 101, NaN, PosInf})
  \cup ({"throttle"} \X {"floor_duty"} \X {101})
  \cup ({"throttle"} \X {"hold_secs"} \X {3601})
  \cup ({"throttle"} \X {"reasons"} \X {{}})

With(c, d) == [c EXCEPT ![d[1]][d[2]] = d[3]]

Bases == {"plain", "all on", "garbage"}

MCFiles == Bases \X Deviations \X Deviations

(* The two options in which a file differs from its base.                  *)
MCParse(f) ==
  CASE f[1] = "plain"   -> With(With(Plain, f[2]), f[3])
    [] f[1] = "all on"  -> With(With(AllOn, f[2]), f[3])
    [] f[1] = "garbage" -> Unreadable

MCSteps == {-3, 7}
=============================================================================

------------------------------ MODULE Process ------------------------------
(***************************************************************************)
(* The daemon as a process under the kubelet: configuration and command    *)
(* line, the metrics server, the wait for the hub, the heartbeat of every  *)
(* tick, and /healthz with the liveness probe that asks for it             *)
(* (main.rs 110-133, 264-433, 868-875; metrics.rs; the liveness probe in    *)
(* deploy/base/daemonset.yaml).  What a tick does is in ControlLoop.tla.   *)
(*                                                                         *)
(* Time passes in units of 1/UnitsPerSec second.  Only differences count:  *)
(* `since` is how far the wall clock is past the last stamp of last_tick   *)
(* and `frac` the part of a second that the stamp dropped, so the seconds  *)
(* healthz_ok sees are (frac + since) \div UnitsPerSec.  The wall clock    *)
(* may be stepped; sleeps and deadlines do not notice.                     *)
(*                                                                         *)
(* Simplifications:                                                        *)
(*  - a sleep takes as long as it asks for, its overrun counts as work; an *)
(*    attempt to open the hub and the work of a tick take any time up to   *)
(*    their bound, unless the call never returns (Hang);                   *)
(*  - of the configuration only the poll interval is kept once loaded;     *)
(*  - SIGTERM is noticed in a sleep (ControlLoop.tla has the flag);        *)
(*  - the server thread answers one request at a time, within Lag.         *)
(***************************************************************************)
EXTENDS Config

CONSTANTS
  Files,           \* configuration files that may be mounted
  Parse(_),        \* what a file says: a configuration, or Unreadable
  NoFile,          \* none is being loaded
  NoCheck,         \* no liveness check is under way
  UnitsPerSec,     \* resolution of time
  RetrySecs,       \* 5: seconds between two attempts to open the hub
  Attempt,         \* an attempt takes at most this long
  Work,            \* and so does a tick without its sleep
  Lag,             \* between healthz's look at last_tick and at the clock
  Period,          \* periodSeconds of the liveness probe
  Threshold,       \* its failureThreshold
  Steps,           \* distances the wall clock may be stepped by
  StepsMax,        \* bound on the clock steps one process sees
  Far              \* bound on `since`, past which it keeps its part of a
                   \* second only: stale by far, whatever steps are to come

Poll(f) == Parse(f).top.poll_interval_secs

(* The longest a heartbeat may go unnoticed with a poll interval of p: the *)
(* grace, the second its whole-second reading may drop, the checks that    *)
(* have to fail in a row, and the time to answer the last of them.         *)
MaxAge(p) == (3 * p + 1) * UnitsPerSec + Threshold * Period + Lag

(* What a check has read, and how long it still takes.                     *)
Check == [ since : Int, frac : 0..(UnitsPerSec - 1), stepped : BOOLEAN,
           lag : 0..Lag ]

ASSUME FilesAssumption ==
  \A f \in Files : Parse(f) # Unreadable => WellTyped(Parse(f))

(* The budget of a tick: with the shortest poll interval, one second, a    *)
(* heartbeat still comes within the three seconds of grace.                *)
ASSUME ProcessAssumption ==
  /\ UnitsPerSec \in Nat \ {0} /\ RetrySecs \in Nat \ {0}
  /\ Attempt \in Nat /\ Work \in Nat /\ Lag \in Nat
  /\ Attempt + Work + Lag <= 3 * UnitsPerSec
  /\ Work + Lag <= 2 * UnitsPerSec
  /\ Period \in Nat \ {0} /\ Threshold \in Nat \ {0}
  /\ Steps \subseteq Int /\ StepsMax \in Nat
  /\ Far \in Nat /\ Far >= UnitsPerSec
  /\ NoFile \notin Files /\ NoCheck \notin Check
  /\ \A f \in Files : Parse(f) # Unreadable =>
       Poll(f) \in Nat /\ MaxAge(Poll(f)) + UnitsPerSec <= Far

(* The loop gets to its next heartbeat within a probe period, even counted *)
(* from the end of a check; and the clock is stepped less often than the   *)
(* probe forgives.  Longer poll intervals are accepted by the code, but    *)
(* with them a single step can spoil several checks.                       *)
ASSUME ProbeAssumption ==
  /\ \A f \in Files : Parse(f) # Unreadable =>
       Poll(f) * UnitsPerSec + Work + Lag < Period
  /\ UnitsPerSec + Lag < Period /\ Attempt + Work + Lag < Period
  /\ StepsMax < Threshold

VARIABLES
  pc,
  file,            \* the mounted file while it is being loaded
  poll,            \* poll_interval_secs of the loaded configuration
  left,            \* time left for what the loop is doing
  slices,          \* seconds left of the wait between two attempts
  hung,            \* a call of the loop will not return
  bound,           \* the metrics server got its port
  since, frac,     \* the wall clock relative to last_tick
  stepped,         \* it was stepped since that stamp
  check,           \* /healthz being answered, or NoCheck
  probeIn,         \* time to the next liveness check
  fails,           \* checks failed in a row
  portless,        \* history: how long the process has run without a port
  steps            \* clock steps the process has seen

loopVars  == <<pc, file, poll, left, slices, hung>>
stampVars == <<since, frac, stepped>>
watchVars == <<check, probeIn, fails, portless>>
vars      == <<loopVars, bound, stampVars, watchVars, steps>>

Running == {"attempt", "wait", "work", "sleep"}
Ended   == {"left", "rejected", "killed"}

----------------------------------------------------------------------------
(* The heartbeat and its judge (metrics.rs 41-70, 112-117, 190-193).       *)

Cap(n) == IF n <= Far THEN n ELSE Far - ((Far - n) % UnitsPerSec)

(* set_last_tick(now_unix_secs()).                                         *)
Stamp ==
  /\ since' = 0
  /\ frac' = (frac + since) % UnitsPerSec
  /\ stepped' = FALSE

Age(c) == (c.frac + c.since) \div UnitsPerSec

(* Faulty variant: the difference the wrong way round, zero at the least.  *)
HealthySwapped(c) == (IF Age(c) > 0 THEN 0 ELSE -Age(c)) <= 3 * poll

(* Faulty variant: the grace is taken in the wrong unit.                   *)
HealthyLenient(c) == (IF Age(c) < 0 THEN 0 ELSE Age(c)) <= 3 * poll * UnitsPerSec

(* healthz_ok, on what the check read of last_tick and the clock.          *)
Healthy(c) == (IF Age(c) < 0 THEN 0 ELSE Age(c)) <= 3 * poll

----------------------------------------------------------------------------
(* Start-up.                                                               *)

Init ==
  /\ pc = "load" /\ file \in Files
  /\ poll = 0 /\ left = 0 /\ slices = 0 /\ hung = FALSE /\ bound = FALSE
  /\ since = 0 /\ frac = 0 /\ stepped = FALSE
  /\ check = NoCheck /\ probeIn = 0 /\ fails = 0 /\ portless = 0 /\ steps = 0

(* The process ends; the next one knows nothing of it.                     *)
End(how) ==
  /\ pc' = how /\ file' = NoFile
  /\ poll' = 0 /\ left' = 0 /\ slices' = 0 /\ hung' = FALSE /\ bound' = FALSE
  /\ since' = 0 /\ frac' = 0 /\ stepped' = FALSE
  /\ check' = NoCheck /\ probeIn' = 0 /\ fails' = 0 /\ portless' = 0 /\ steps' = 0

Loaded == Parse(file)

(* Bad arguments, an unacceptable file, or a one-shot mode, which prints   *)
(* its findings without server or hub.                                     *)
Refuse  == pc = "load" /\ ~Accepts(Loaded) /\ End("rejected")
Usage   == pc = "load" /\ End("rejected")
OneShot == pc = "load" /\ Accepts(Loaded) /\ End("left")

(* Metrics::new stamps the start.                                          *)
NewMetrics ==
  since' = 0 /\ frac' \in 0..(UnitsPerSec - 1) /\ stepped' = FALSE

(* The port may not be had: the server thread ends, the daemon goes on.    *)
Serve == bound' \in BOOLEAN

Begin ==
  /\ pc = "load" /\ Accepts(Loaded)
  /\ pc' = "attempt" /\ left' = Attempt
  /\ poll' = Poll(file)
  /\ file' = NoFile
  /\ NewMetrics /\ Serve
  /\ probeIn' \in 0..Period
  /\ UNCHANGED <<slices, hung, check, fails, portless, steps>>

Restart ==
  /\ pc \in Ended
  /\ pc' = "load" /\ file' \in Files
  /\ UNCHANGED <<poll, left, slices, hung, bound, stampVars, watchVars, steps>>

----------------------------------------------------------------------------
(* The wait for the hub, and the ticks.                                    *)

Found ==
  /\ pc = "attempt" /\ ~hung
  /\ pc' = "work" /\ left' = Work
  /\ UNCHANGED <<file, poll, slices, hung, bound, stampVars, watchVars, steps>>

Missed ==
  /\ pc = "attempt" /\ ~hung
  /\ pc' = "wait" /\ left' = UnitsPerSec /\ slices' = RetrySecs
  /\ Stamp
  /\ UNCHANGED <<file, poll, hung, bound, watchVars, steps>>

(* Faulty variant: only the attempts are stamped.                          *)
SliceUnstamped ==
  /\ pc = "wait" /\ left = 0
  /\ slices' = slices - 1
  /\ IF slices = 1 THEN pc' = "attempt" /\ left' = Attempt
                   ELSE pc' = "wait" /\ left' = UnitsPerSec
  /\ UNCHANGED <<file, poll, hung, bound, stampVars, watchVars, steps>>

(* A second of the wait is over.                                           *)
Slice ==
  /\ pc = "wait" /\ left = 0
  /\ slices' = slices - 1
  /\ IF slices = 1 THEN pc' = "attempt" /\ left' = Attempt
                   ELSE pc' = "wait" /\ left' = UnitsPerSec
  /\ Stamp
  /\ UNCHANGED <<file, poll, hung, bound, watchVars, steps>>

(* The heartbeat at the end of the tick, whatever failed in it.            *)
Beat ==
  /\ pc = "work" /\ ~hung
  /\ pc' = "sleep" /\ left' = poll * UnitsPerSec
  /\ Stamp
  /\ UNCHANGED <<file, poll, slices, hung, bound, watchVars, steps>>

Wake ==
  /\ pc = "sleep" /\ left = 0
  /\ pc' = "work" /\ left' = Work
  /\ UNCHANGED <<file, poll, slices, hung, bound, stampVars, watchVars, steps>>

Loop == Found \/ Missed \/ Slice \/ Beat \/ Wake

(* A HID or NVML call blocks for good.                                     *)
Hang ==
  /\ pc \in {"attempt", "work"} /\ ~hung
  /\ hung' = TRUE /\ left' = 0
  /\ UNCHANGED <<pc, file, poll, slices, bound, stampVars, watchVars, steps>>

(* SIGTERM or SIGINT.                                                      *)
Leave == pc \in {"wait", "sleep"} /\ End("left")

----------------------------------------------------------------------------
(* The liveness probe: periodSeconds apart, three failures in a row kill.  *)

Fail == fails' = fails + 1

(* The kubelet asks; the server reads last_tick, or nobody listens.        *)
Ask ==
  /\ pc \in Running /\ probeIn = 0 /\ check = NoCheck /\ fails < Threshold
  /\ probeIn' = Period
  /\ IF bound
     THEN /\ check' = [since |-> since, frac |-> frac, stepped |-> stepped,
                       lag |-> Lag]
          /\ UNCHANGED fails
     ELSE Fail /\ UNCHANGED check
  /\ UNCHANGED <<loopVars, bound, stampVars, portless, steps>>

(* The server reads the clock and answers 200 or 500.                      *)
Answer ==
  /\ check # NoCheck
  /\ check' = NoCheck
  /\ IF Healthy(check) THEN fails' = 0 ELSE Fail
  /\ UNCHANGED <<loopVars, bound, stampVars, probeIn, portless, steps>>

Kill == pc \in Running /\ fails = Threshold /\ End("killed")

----------------------------------------------------------------------------
(* Time.                                                                   *)

Moved(c, d) == IF c = NoCheck THEN NoCheck ELSE [c EXCEPT !.since = Cap(@ + d)]

(* Whatever is due is done before more time passes.                        *)
NothingDue ==
  /\ ~hung => left > 0
  /\ IF check = NoCheck THEN probeIn > 0 ELSE check.lag > 0
  /\ fails < Threshold

Pass ==
  /\ pc \in Running /\ NothingDue
  /\ left' = IF hung THEN left ELSE left - 1
  /\ since' = Cap(since + 1)
  /\ check' = IF check = NoCheck THEN NoCheck
              ELSE [Moved(check, 1) EXCEPT !.lag = @ - 1]
  /\ probeIn' = IF probeIn > 0 THEN probeIn - 1 ELSE 0
  /\ portless' = IF bound THEN portless ELSE portless + 1
  /\ UNCHANGED <<pc, file, poll, slices, hung, bound, frac, stepped, fails, steps>>

(* The wall clock is stepped, forwards or backwards.                       *)
StepClock ==
  /\ pc \in Running /\ steps < StepsMax
  /\ \E d \in Steps :
       /\ since' = Cap(since + d)
       /\ stepped' = TRUE
       /\ check' = IF check = NoCheck THEN NoCheck
                   ELSE [Moved(check, d) EXCEPT !.stepped = TRUE]
  /\ steps' = steps + 1
  /\ UNCHANGED <<loopVars, bound, frac, probeIn, fails, portless>>

StartUp == Refuse \/ Usage \/ OneShot \/ Begin \/ Restart
Watch   == Ask \/ Answer \/ Kill

Next == StartUp \/ Loop \/ Hang \/ Leave \/ Watch \/ Pass \/ StepClock

Spec == Init /\ [][Next]_vars

(* Time passes, the loop goes on unless a call hangs, the server answers   *)
(* and the kubelet does what it says.  No one has to restart the daemon.   *)
FairSpec ==
  /\ Spec
  /\ WF_vars(Pass) /\ WF_vars(Loop) /\ WF_vars(Ask) /\ WF_vars(Answer) /\ WF_vars(Kill)

----------------------------------------------------------------------------
TypeOK ==
  /\ pc \in {"load"} \cup Running \cup Ended
  /\ file \in Files \cup {NoFile} /\ (file # NoFile <=> pc = "load")
  /\ pc \in Running => poll \in Nat \ {0}
  /\ left \in Nat /\ slices \in 0..RetrySecs
  /\ hung \in BOOLEAN /\ bound \in BOOLEAN /\ stepped \in BOOLEAN
  /\ since \in Int /\ since <= Far /\ frac \in 0..(UnitsPerSec - 1)
  /\ check \in Check \cup {NoCheck}
  /\ probeIn \in 0..Period /\ fails \in 0..Threshold /\ portless \in Nat
  /\ steps \in 0..StepsMax

(* config.rs 541-735: a file that is accepted satisfies what every other   *)
(* module assumes of its constants - and so what the program takes for     *)
(* granted where it divides, shifts or looks up - and each point of its    *)
(* curves is commanded.  Only of files whose numbers in use are finite:    *)
(* nan and the infinities pass the checks, and are not served.             *)
AcceptedIsServiceable ==
  pc = "load" /\ Accepts(Loaded) /\ Finite(Loaded) => Serviceable(Loaded)

(* config.rs 632-636: leftovers in a section that is switched off neither  *)
(* make a file unacceptable nor save it.                                   *)
DisabledIgnored ==
  pc = "load" /\ Loaded # Unreadable =>
    (Valid(Loaded) <=> Valid(Cleaned(Loaded)))

(* README.md 433, main.rs 403-421: while the loop goes on, waiting for a   *)
(* hub or ticking, with any accepted poll interval, no check is answered   *)
(* "stale", unless the clock was stepped since the heartbeat it looks at.  *)
NoFalseAlarm ==
  check # NoCheck /\ ~Healthy(check) => hung \/ check.stepped

(* daemonset.yaml 55-60 with metrics.rs 190-193 and 334-341: a process     *)
(* that got no port runs no longer than its failures in a row take.  With  *)
(* a port, wherever the loop got stuck, its heartbeat never gets older     *)
(* than the grace and those failures add up to: no pass of the waiting     *)
(* loop, no restart and no answer that comes late puts the kill off,       *)
(* unless the clock is stepped.                                            *)
StuckNotForLong ==
  pc \in Running =>
    /\ ~bound => portless <= Threshold * Period
    /\ bound /\ ~stepped => since <= MaxAge(poll)

Status ==
  IF pc \in Running THEN IF hung \/ ~bound THEN "stuck" ELSE "well"
  ELSE IF pc = "killed" THEN "killed" ELSE "off"

Dog == INSTANCE Watchdog WITH status <- Status

(* A daemon that hangs, or could not bind its port, is killed in the end,  *)
(* and no other: a step of the clock spoils one check at most, and there   *)
(* are fewer steps than the probe forgives.                                *)
ImplementsWatchdog == Dog!Spec
=============================================================================

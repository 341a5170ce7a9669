--------------------------- MODULE ProcessProofs ---------------------------
(***************************************************************************)
(* The heartbeat, /healthz and the liveness probe for every set of files,  *)
(* every resolution of time, every duration within the budget and every    *)
(* pattern of clock steps.                                                 *)
(***************************************************************************)
EXTENDS Process, CurveProofs

(* What the types leave open.                                              *)
Shape ==
  /\ pc = "wait" => slices > 0
  /\ hung => pc \in {"attempt", "work"}
  /\ check # NoCheck => bound /\ fails < Threshold /\ check.lag + Period <= probeIn + Lag
  /\ pc \notin Running => check = NoCheck /\ fails = 0 /\ ~hung

Grace == 3 * (poll * UnitsPerSec)

(* How old a heartbeat can get before the next one: what has passed since, *)
(* what the loop is about to take, and a check read on the way.            *)
Young ==
  pc \in Running /\ ~hung /\ ~stepped =>
    /\ pc = "attempt" => since + left + Work + Lag <= 3 * UnitsPerSec
    /\ pc = "wait"    => since + left <= UnitsPerSec
    /\ pc = "work"    => since + left + Lag <= Grace
    /\ pc = "sleep"   => since + left <= poll * UnitsPerSec

(* A check under way will not find one older than that.                    *)
Fresh ==
  check # NoCheck /\ ~hung /\ ~check.stepped =>
    check.since + check.lag <= Grace

(* The longest the loop can still go without a heartbeat.                  *)
ToStamp == IF pc \in {"attempt", "sleep"} THEN left + Work ELSE left

InBudget ==
  pc \in Running /\ ~hung =>
    /\ ToStamp + Lag < Period
    /\ pc = "sleep" => left <= poll * UnitsPerSec
    /\ poll * UnitsPerSec + Work + Lag < Period

(* Clock steps that will spoil a check or have done so: a step is forgotten*)
(* with the next heartbeat, which comes before the next check unless the   *)
(* loop is too far from it.                                                *)
Spoilt  == IF check # NoCheck /\ check.stepped THEN 1 ELSE 0
Spoiling == IF stepped /\ ToStamp >= probeIn THEN 1 ELSE 0

Counted ==
  pc \in Running /\ ~hung /\ bound => fails + Spoilt + Spoiling <= steps

IInv == TypeOK /\ Shape /\ Young /\ Fresh /\ InBudget /\ Counted

----------------------------------------------------------------------------
LEMMA Consts ==
  /\ UnitsPerSec \in Nat /\ UnitsPerSec > 0
  /\ RetrySecs \in Nat /\ RetrySecs > 0
  /\ Attempt \in Nat /\ Work \in Nat /\ Lag \in Nat
  /\ Attempt + Work + Lag <= 3 * UnitsPerSec
  /\ Work + Lag <= 2 * UnitsPerSec
  /\ Period \in Nat /\ Period > 0 /\ Threshold \in Nat /\ Threshold > 0
  /\ StepsMax \in Nat /\ StepsMax < Threshold
  /\ Far \in Nat /\ Far >= UnitsPerSec
  /\ NoFile \notin Files /\ NoCheck \notin Check
  /\ UnitsPerSec + Lag < Period /\ Attempt + Work + Lag < Period
BY ProcessAssumption, ProbeAssumption DEF ProcessAssumption, ProbeAssumption

(* The remainder of a division.                                            *)
LEMMA ModRange ==
  ASSUME NEW n \in Int, NEW d \in Nat, d > 0
  PROVE  n % d \in 0..(d - 1)
OBVIOUS

(* A difference that fits into q + 1 whole seconds less one unit counts as *)
(* q seconds at most.                                                      *)
LEMMA DivAtMost ==
  ASSUME NEW n \in Int, NEW d \in Nat, d > 0, NEW q \in Nat, n < d * (q + 1)
  PROVE  n \div d \in Int /\ n \div d <= q
<1> DEFINE r == n \div d
<1>1. r \in Int /\ d * r <= n
  OBVIOUS
<1> HIDE DEF r
<1>2. r <= q
  <2>1. SUFFICES ASSUME q + 1 <= r PROVE FALSE  BY <1>1
  <2>2. d * (q + 1) <= d * r  BY <1>1, <2>1
  <2>3. d * (q + 1) \in Int /\ d * r \in Int  BY <1>1
  <2> QED BY <1>1, <2>2, <2>3
<1> QED BY <1>1, <1>2 DEF r

(* Capping never adds.                                                     *)
LEMMA CapBelow ==
  ASSUME NEW n \in Int
  PROVE  Cap(n) \in Int /\ Cap(n) <= n /\ Cap(n) <= Far
<1>1. CASE n <= Far
  BY <1>1 DEF Cap
<1>2. CASE ~(n <= Far)
  <2>1. (Far - n) % UnitsPerSec \in 0..(UnitsPerSec - 1)
    BY Consts, ModRange
  <2> DEFINE r == (Far - n) % UnitsPerSec
  <2> HIDE DEF r
  <2>2. Cap(n) = Far - r
    BY <1>2 DEF Cap, r
  <2>3. r \in 0..(UnitsPerSec - 1)
    BY <2>1 DEF r
  <2> QED BY <1>2, <2>2, <2>3, Consts
<1> QED BY <1>1, <1>2

(* A fresh check is answered with ok.                                      *)
LEMMA FreshIsHealthy ==
  ASSUME IInv, check # NoCheck, ~hung, ~check.stepped, pc \in Running
  PROVE  Healthy(check)
<1>1. check.since \in Int /\ check.frac \in 0..(UnitsPerSec - 1) /\ check.lag \in Nat
  BY Consts DEF IInv, TypeOK, Check
<1>2. poll \in Nat
  BY DEF IInv, TypeOK
<1>3. check.since + check.lag <= 3 * (poll * UnitsPerSec)
  BY DEF IInv, Fresh, Grace
<1> DEFINE n == check.frac + check.since
           q == 3 * poll
<1>4. poll * UnitsPerSec \in Int /\ UnitsPerSec * (q + 1) = 3 * (poll * UnitsPerSec) + UnitsPerSec
  BY <1>2, Consts
<1>5. n \in Int /\ q \in Nat /\ n < UnitsPerSec * (q + 1)
  BY <1>1, <1>2, <1>3, <1>4, Consts
<1> HIDE DEF n, q
<1>6. n \div UnitsPerSec \in Int /\ n \div UnitsPerSec <= q
  BY <1>5, Consts, DivAtMost
<1>7. Age(check) = n \div UnitsPerSec
  BY DEF Age, n
<1> QED BY <1>5, <1>6, <1>7 DEF Healthy, q

(* A poll interval is a second at least.                                   *)
LEMMA Interval ==
  ASSUME TypeOK, pc \in Running
  PROVE  /\ poll \in Nat /\ poll > 0
         /\ poll * UnitsPerSec \in Nat /\ poll * UnitsPerSec >= UnitsPerSec
<1>1. PICK p \in Nat : poll = p + 1
  <2>1. poll - 1 \in Nat /\ poll = (poll - 1) + 1  BY DEF TypeOK
  <2> QED BY <2>1
<1>2. poll * UnitsPerSec = p * UnitsPerSec + UnitsPerSec /\ p * UnitsPerSec \in Nat
  BY <1>1, Consts
<1> QED BY <1>1, <1>2, Consts

----------------------------------------------------------------------------
(* Each action keeps the invariant.                                        *)

LEMMA InitInv == Init => IInv
<1> SUFFICES ASSUME Init PROVE IInv
  OBVIOUS
<1>1. pc = "load" /\ pc \notin Running
  BY DEF Init, Running
<1>2. TypeOK
  <2>1. hung \in BOOLEAN /\ bound \in BOOLEAN /\ stepped \in BOOLEAN
    BY Zenon DEF Init
  <2>2. file \in Files \cup {NoFile} /\ (file # NoFile <=> pc = "load")
    BY <1>1, Consts DEF Init
  <2> QED BY <1>1, <2>1, <2>2, Consts DEF Init, TypeOK
<1>3. Shape /\ Young /\ Fresh /\ InBudget /\ Counted
  BY <1>1 DEF Init, Shape, Young, Fresh, InBudget, Counted
<1> QED BY <1>2, <1>3 DEF IInv

LEMMA EndStep ==
  ASSUME NEW how \in Ended, End(how)
  PROVE  IInv'
<1>1. pc' \in Ended /\ pc' \notin Running /\ pc' # "load" /\ pc' # "wait"
  BY DEF End, Ended, Running
<1>2. TypeOK'
  <2>1. hung' \in BOOLEAN /\ bound' \in BOOLEAN /\ stepped' \in BOOLEAN
    BY Zenon DEF End
  <2> QED BY <1>1, <2>1, Consts DEF End, TypeOK
<1>3. Shape' /\ Young' /\ Fresh' /\ InBudget' /\ Counted'
  BY <1>1 DEF End, Shape, Young, Fresh, InBudget, Counted
<1> QED BY <1>2, <1>3 DEF IInv

LEMMA BeginStep == IInv /\ Begin => IInv'
<1> SUFFICES ASSUME IInv, Begin PROVE IInv'
  OBVIOUS
<1>1. /\ pc = "load" /\ pc' = "attempt" /\ left' = Attempt
      /\ since' = 0 /\ stepped' = FALSE
      /\ UNCHANGED <<slices, hung, check, fails, portless, steps>>
      /\ check = NoCheck /\ fails = 0 /\ ~hung
  BY DEF Begin, NewMetrics, IInv, Shape, Running
<1>2. file \in Files /\ Parse(file) # Unreadable
  BY <1>1, Consts DEF Begin, Accepts, Loaded, IInv, TypeOK
<1>3. poll' \in Nat \ {0} /\ poll' * UnitsPerSec + Work + Lag < Period
  <2>1. poll' = Poll(file) /\ Poll(file) # 0
    BY DEF Begin, Accepts, Valid, TopOK, Loaded, Poll
  <2>2. Poll(file) \in Nat /\ Poll(file) * UnitsPerSec + Work + Lag < Period
    BY <1>2, ProcessAssumption, ProbeAssumption DEF ProcessAssumption, ProbeAssumption
  <2> QED BY <2>1, <2>2
<1>4. TypeOK'
  <2>1. hung' \in BOOLEAN /\ bound' \in BOOLEAN /\ stepped' \in BOOLEAN
    BY <1>1, Zenon DEF Begin, Serve, IInv, TypeOK
  <2>2. file' = NoFile /\ frac' \in 0..(UnitsPerSec - 1) /\ probeIn' \in 0..Period
    BY DEF Begin, NewMetrics
  <2>3. check' \in Check \cup {NoCheck} /\ fails' \in 0..Threshold
        /\ slices' \in 0..RetrySecs /\ steps' \in 0..StepsMax /\ portless' \in Nat
    BY <1>1 DEF IInv, TypeOK
  <2>4. pc' \in Running /\ pc' # "load"
    BY <1>1 DEF Running
  <2> QED BY <1>1, <1>3, <2>1, <2>2, <2>3, <2>4, Consts DEF TypeOK
<1>5. Shape' /\ Fresh'
  BY <1>1 DEF Shape, Fresh, Running
<1>6. Young'
  BY <1>1, Consts DEF Young
<1>7. InBudget'
  BY <1>1, <1>3, Consts DEF InBudget, ToStamp
<1>8. Counted'
  BY <1>1, <1>4 DEF Counted, Spoilt, Spoiling, TypeOK
<1> QED BY <1>4, <1>5, <1>6, <1>7, <1>8 DEF IInv

LEMMA RestartStep == IInv /\ Restart => IInv'
<1> SUFFICES ASSUME IInv, Restart PROVE IInv'
  OBVIOUS
<1>1. pc' = "load" /\ pc \notin Running /\ pc' \notin Running
  BY DEF Restart, Running, Ended
<1>2. UNCHANGED <<poll, left, slices, hung, bound, since, frac, stepped,
                  check, probeIn, fails, portless, steps>>
  BY DEF Restart, stampVars, watchVars
<1>3. TypeOK'
  BY <1>1, <1>2, Consts DEF Restart, IInv, TypeOK
<1>4. Shape' /\ Young' /\ Fresh' /\ InBudget' /\ Counted'
  BY <1>1, <1>2 DEF IInv, Shape, Young, Fresh, InBudget, Counted
<1> QED BY <1>3, <1>4 DEF IInv

(* What a heartbeat does, whatever the loop turns to after it.             *)
LEMMA StampStep ==
  ASSUME IInv, Stamp, pc \in Running, ~hung,
         UNCHANGED <<file, poll, hung, bound, watchVars, steps>>,
         \/ pc' = "wait" /\ left' = UnitsPerSec /\ slices' \in 1..RetrySecs
         \/ pc' = "attempt" /\ left' = Attempt /\ slices' \in 0..RetrySecs
         \/ pc' = "sleep" /\ left' = poll * UnitsPerSec /\ slices' \in 0..RetrySecs
  PROVE  IInv'
<1>1. since' = 0 /\ stepped' = FALSE /\ pc' \in Running
  BY DEF Stamp, Running
<1>2. UNCHANGED <<file, poll, hung, bound, check, probeIn, fails, portless, steps>>
  BY DEF watchVars
<1>3. poll \in Nat /\ poll > 0 /\ poll * UnitsPerSec \in Nat
      /\ poll * UnitsPerSec >= UnitsPerSec
  BY Interval DEF IInv
<1>4. frac' \in 0..(UnitsPerSec - 1)
  <2>1. frac + since \in Int
    BY Consts DEF IInv, TypeOK
  <2> QED BY <2>1, Consts, ModRange DEF Stamp
<1>5. TypeOK'
  <2>1. pc' # "load" /\ file' = NoFile
    BY <1>2 DEF IInv, TypeOK, Running
  <2>2. left' \in Nat /\ slices' \in 0..RetrySecs
    BY <1>3, Consts
  <2>3. hung' \in BOOLEAN /\ bound' \in BOOLEAN /\ stepped' \in BOOLEAN
    BY <1>1, <1>2, Zenon DEF IInv, TypeOK
  <2>4. check' \in Check \cup {NoCheck} /\ fails' \in 0..Threshold
        /\ probeIn' \in 0..Period /\ steps' \in 0..StepsMax /\ poll' \in Nat \ {0}
        /\ portless' \in Nat
    BY <1>2, <1>3 DEF IInv, TypeOK
  <2> QED BY <1>1, <1>4, <2>1, <2>2, <2>3, <2>4, Consts DEF TypeOK
<1>6. Shape'
  BY <1>1, <1>2 DEF IInv, Shape, Running
<1>7. Young'
  <2>1. poll' * UnitsPerSec = poll * UnitsPerSec
    BY <1>2
  <2>2. pc' = "wait" => since' + left' <= UnitsPerSec
    BY <1>1, Consts
  <2>3. pc' = "attempt" => since' + left' + Work + Lag <= 3 * UnitsPerSec
    BY <1>1, Consts
  <2>4. pc' = "sleep" => since' + left' <= poll * UnitsPerSec
    BY <1>1, <1>3
  <2>5. pc' \in {"wait", "attempt", "sleep"}
    OBVIOUS
  <2> QED BY <2>1, <2>2, <2>3, <2>4, <2>5 DEF Young
<1>8. Fresh'
  BY <1>2 DEF IInv, Fresh, Grace
<1>9. InBudget'
  BY <1>1, <1>2, <1>3, Consts DEF IInv, InBudget, ToStamp
<1>10. Counted'
  <2>1. CASE bound
    <3>1. fails + Spoilt + Spoiling <= steps
      BY <2>1 DEF IInv, Counted
    <3>2. Spoilt' = Spoilt /\ Spoiling' = 0 /\ Spoiling \in 0..1 /\ Spoilt \in 0..1
      BY <1>1, <1>2 DEF Spoilt, Spoiling
    <3>3. fails \in Nat /\ steps \in Nat
      BY Consts DEF IInv, TypeOK
    <3> QED BY <1>2, <3>1, <3>2, <3>3 DEF Counted
  <2>2. CASE ~bound
    BY <1>2, <2>2 DEF Counted
  <2> QED BY <2>1, <2>2
<1> QED BY <1>5, <1>6, <1>7, <1>8, <1>9, <1>10 DEF IInv

(* What a change of phase without a heartbeat does.                        *)
LEMMA TurnStep ==
  ASSUME IInv, pc \in {"attempt", "sleep"}, ~hung, pc = "sleep" => left = 0,
         pc' = "work", left' = Work,
         UNCHANGED <<file, poll, slices, hung, bound, stampVars, watchVars, steps>>
  PROVE  IInv'
<1>1. pc \in Running /\ pc' \in Running
  BY DEF Running
<1>2. UNCHANGED <<file, poll, slices, hung, bound, since, frac, stepped,
                  check, probeIn, fails, portless, steps>>
  BY DEF stampVars, watchVars
<1>3. poll \in Nat /\ poll > 0 /\ poll * UnitsPerSec \in Nat
      /\ poll * UnitsPerSec >= UnitsPerSec
  BY <1>1, Interval DEF IInv
<1>4. left \in Nat /\ since \in Int /\ fails \in Nat /\ steps \in Nat /\ probeIn \in Nat
  BY Consts DEF IInv, TypeOK
<1>5. TypeOK'
  BY <1>1, <1>2, Consts DEF IInv, TypeOK, Running
<1>6. Shape'
  BY <1>1, <1>2 DEF IInv, Shape
<1>7. Young'
  <2>1. CASE ~stepped
    <3> DEFINE g == poll * UnitsPerSec
    <3>1. since + Work + Lag <= 3 * g
      <4>1. g \in Nat /\ g >= UnitsPerSec
        BY <1>3
      <4>2. CASE pc = "attempt"
        <5>1. since + left + Work + Lag <= 3 * UnitsPerSec
          BY <1>1, <2>1, <4>2 DEF IInv, Young
        <5> HIDE DEF g
        <5> QED BY <1>4, <4>1, <5>1, Consts
      <4>3. CASE pc = "sleep"
        <5>1. since + left <= g
          BY <1>1, <2>1, <4>3 DEF IInv, Young
        <5> HIDE DEF g
        <5> QED BY <1>4, <4>1, <5>1, Consts
      <4> QED BY <4>2, <4>3
    <3> QED BY <1>2, <3>1 DEF Young, Grace
  <2>2. CASE stepped
    BY <1>2, <2>2 DEF Young
  <2> QED BY <2>1, <2>2
<1>8. Fresh'
  BY <1>2 DEF IInv, Fresh, Grace
<1>9. PICK a \in Nat, b \in Nat : ToStamp = a /\ ToStamp' = b /\ b <= a
  <2>1. ToStamp = left + Work /\ ToStamp' = Work /\ left + Work \in Nat /\ Work <= left + Work
    BY <1>4, Consts DEF ToStamp
  <2> QED BY <2>1, Consts
<1>10. InBudget'
  <2>1. ToStamp + Lag < Period /\ poll * UnitsPerSec + Work + Lag < Period
    BY <1>1 DEF IInv, InBudget
  <2>2. ToStamp' + Lag < Period
    <3>1. a + Lag < Period  BY <1>9, <2>1
    <3>2. b + Lag < Period  BY <1>9, <3>1, Consts
    <3> QED BY <1>9, <3>2
  <2>3. poll' * UnitsPerSec = poll * UnitsPerSec
    BY <1>2
  <2> QED BY <2>1, <2>2, <2>3 DEF InBudget
<1>11. Counted'
  <2>1. CASE bound
    <3>1. fails + Spoilt + Spoiling <= steps
      BY <1>1, <2>1 DEF IInv, Counted
    <3>2. Spoilt' = Spoilt /\ Spoilt \in 0..1
      BY <1>2 DEF Spoilt
    <3>3. PICK m \in 0..1, n \in 0..1 : Spoiling = m /\ Spoiling' = n /\ n <= m
      BY <1>2, <1>4, <1>9 DEF Spoiling
    <3>4. fails + Spoilt + m <= steps
      BY <3>1, <3>3
    <3>5. fails + Spoilt + n <= steps
      BY <1>4, <3>2, <3>3, <3>4
    <3> QED BY <1>2, <3>2, <3>3, <3>5 DEF Counted
  <2>2. CASE ~bound
    BY <1>2, <2>2 DEF Counted
  <2> QED BY <2>1, <2>2
<1> QED BY <1>5, <1>6, <1>7, <1>8, <1>10, <1>11 DEF IInv

LEMMA LoopStep == IInv /\ Loop => IInv'
<1> SUFFICES ASSUME IInv, Loop PROVE IInv'
  OBVIOUS
<1>1. RetrySecs \in 1..RetrySecs /\ slices \in 0..RetrySecs
  BY Consts DEF IInv, TypeOK
<1>2. CASE Found
  BY <1>2, TurnStep DEF Found
<1>3. CASE Wake
  <2>1. ~hung
    BY <1>3 DEF Wake, IInv, Shape
  <2> QED BY <1>3, <2>1, TurnStep DEF Wake
<1>4. CASE Missed
  BY <1>1, <1>4, StampStep DEF Missed, Running
<1>5. CASE Slice
  <2>1. ~hung
    BY <1>5 DEF Slice, IInv, Shape
  <2>2. slices' \in 0..RetrySecs /\ (slices # 1 => slices' \in 1..RetrySecs)
    BY <1>1, <1>5 DEF Slice, IInv, Shape
  <2> QED BY <1>5, <2>1, <2>2, StampStep DEF Slice, Running
<1>6. CASE Beat
  BY <1>1, <1>6, StampStep DEF Beat, Running
<1> QED BY <1>2, <1>3, <1>4, <1>5, <1>6 DEF Loop

LEMMA HangStep == IInv /\ Hang => IInv'
<1> SUFFICES ASSUME IInv, Hang PROVE IInv'
  OBVIOUS
<1>1. /\ pc \in {"attempt", "work"} /\ pc \in Running /\ pc # "load"
      /\ hung' = TRUE /\ left' = 0
      /\ UNCHANGED <<pc, file, poll, slices, bound, since, frac, stepped,
                     check, probeIn, fails, portless, steps>>
  BY DEF Hang, stampVars, watchVars, Running
<1>2. TypeOK'
  <2>1. hung' \in BOOLEAN /\ bound' \in BOOLEAN /\ stepped' \in BOOLEAN
    BY <1>1, Zenon DEF IInv, TypeOK
  <2> QED BY <1>1, <2>1 DEF IInv, TypeOK
<1>3. Shape'
  BY <1>1 DEF IInv, Shape
<1>4. Young' /\ Fresh' /\ InBudget' /\ Counted'
  BY <1>1, Zenon DEF Young, Fresh, InBudget, Counted
<1> QED BY <1>2, <1>3, <1>4 DEF IInv

(* A heartbeat that is on time is fresh, whoever looks at it.              *)
LEMMA YoungIsFresh ==
  ASSUME IInv, pc \in Running, ~hung, ~stepped
  PROVE  since + Lag <= Grace
<1>1. poll \in Nat /\ poll * UnitsPerSec \in Nat /\ poll * UnitsPerSec >= UnitsPerSec
  BY Interval DEF IInv
<1>2. left \in Nat /\ since \in Int
  BY DEF IInv, TypeOK
<1> DEFINE g == poll * UnitsPerSec
<1>3. g \in Nat /\ g >= UnitsPerSec
  BY <1>1
<1>4. Grace = 3 * g
  BY DEF Grace
<1>5. CASE pc = "attempt"
  <2>1. since + left + Work + Lag <= 3 * UnitsPerSec
    BY <1>5 DEF IInv, Young
  <2> HIDE DEF g
  <2> QED BY <1>2, <1>3, <1>4, <2>1, Consts
<1>6. CASE pc = "wait"
  <2>1. since + left <= UnitsPerSec
    BY <1>6 DEF IInv, Young
  <2> HIDE DEF g
  <2> QED BY <1>2, <1>3, <1>4, <2>1, Consts
<1>7. CASE pc = "work"
  <2>1. since + left + Lag <= 3 * g
    BY <1>4, <1>7 DEF IInv, Young
  <2> HIDE DEF g
  <2> QED BY <1>2, <1>3, <1>4, <2>1, Consts
<1>8. CASE pc = "sleep"
  <2>1. since + left <= g
    BY <1>8 DEF IInv, Young
  <2> HIDE DEF g
  <2> QED BY <1>2, <1>3, <1>4, <2>1, Consts
<1> QED BY <1>5, <1>6, <1>7, <1>8 DEF Running

LEMMA AskStep == IInv /\ Ask => IInv'
<1> SUFFICES ASSUME IInv, Ask PROVE IInv'
  OBVIOUS
<1>1. /\ pc \in Running /\ probeIn = 0 /\ check = NoCheck /\ fails < Threshold
      /\ probeIn' = Period
      /\ UNCHANGED <<pc, file, poll, left, slices, hung, bound,
                     since, frac, stepped, portless, steps>>
  BY DEF Ask, loopVars, stampVars
<1>2. /\ since \in Int /\ left \in Nat /\ fails \in Nat /\ steps \in Nat
      /\ frac \in 0..(UnitsPerSec - 1)
  BY Consts DEF IInv, TypeOK
<1>3. stepped \in BOOLEAN
  BY Zenon DEF IInv, TypeOK
<1>4. Young' /\ InBudget'
  BY <1>1 DEF IInv, Young, InBudget, Grace, ToStamp
<1>5. CASE bound
  <2>1. /\ check' = [since |-> since, frac |-> frac, stepped |-> stepped, lag |-> Lag]
        /\ fails' = fails
    BY <1>5 DEF Ask
  <2>2. check' \in Check
    BY <1>2, <1>3, <2>1, Consts DEF Check
  <2>3. check' # NoCheck
    BY <2>2, Consts
  <2>4. TypeOK'
    <3>1. hung' \in BOOLEAN /\ bound' \in BOOLEAN /\ stepped' \in BOOLEAN
      BY <1>1, Zenon DEF IInv, TypeOK
    <3> QED BY <1>1, <2>1, <2>2, <3>1, Consts DEF IInv, TypeOK, Running
  <2>5. Shape'
    <3>1. check'.lag + Period <= probeIn' + Lag
      BY <1>1, <2>1, Consts
    <3>2. (pc' = "wait" => slices' > 0) /\ (hung' => pc' \in {"attempt", "work"})
      BY <1>1 DEF IInv, Shape
    <3> QED BY <1>1, <1>5, <2>1, <3>1, <3>2 DEF Shape
  <2>6. Fresh'
    <3>1. SUFFICES ASSUME ~hung, ~stepped PROVE since + Lag <= Grace
      BY <1>1, <2>1, <3>1 DEF Fresh, Grace
    <3> QED BY <1>1, <3>1, YoungIsFresh
  <2>7. Counted'
    <3>1. SUFFICES ASSUME ~hung PROVE Counted'
      BY <1>1 DEF Counted
    <3>2. fails + Spoilt + Spoiling <= steps /\ ToStamp + Lag < Period
      BY <1>1, <1>5, <3>1 DEF IInv, Counted, InBudget
    <3>3. PICK a \in Nat : ToStamp = a /\ ToStamp' = a
      BY <1>1, <1>2, Consts DEF ToStamp
    <3>4. Spoilt = 0 /\ Spoiling = IF stepped THEN 1 ELSE 0
      BY <1>1, <3>3 DEF Spoilt, Spoiling
    <3>5. Spoilt' = IF stepped THEN 1 ELSE 0
      BY <2>1, <2>3 DEF Spoilt
    <3>6. Spoiling' = 0
      <4>1. ~(a >= Period)  BY <3>2, <3>3, Consts
      <4> QED BY <1>1, <3>3, <4>1 DEF Spoiling
    <3>7. CASE stepped
      BY <1>1, <1>2, <2>1, <3>2, <3>4, <3>5, <3>6, <3>7 DEF Counted
    <3>8. CASE ~stepped
      BY <1>1, <1>2, <2>1, <3>2, <3>4, <3>5, <3>6, <3>8 DEF Counted
    <3> QED BY <3>7, <3>8
  <2> QED BY <1>4, <2>4, <2>5, <2>6, <2>7 DEF IInv
<1>6. CASE ~bound
  <2>1. check' = NoCheck /\ fails' = fails + 1
    BY <1>1, <1>6 DEF Ask, Fail
  <2>2. TypeOK'
    <3>1. hung' \in BOOLEAN /\ bound' \in BOOLEAN /\ stepped' \in BOOLEAN
      BY <1>1, Zenon DEF IInv, TypeOK
    <3>2. fails' \in 0..Threshold
      BY <1>1, <1>2, <2>1, Consts
    <3> QED BY <1>1, <2>1, <3>1, <3>2, Consts DEF IInv, TypeOK, Running
  <2>3. Shape'
    BY <1>1, <2>1 DEF IInv, Shape
  <2>4. Fresh' /\ Counted'
    BY <1>1, <1>6, <2>1 DEF Fresh, Counted
  <2> QED BY <1>4, <2>2, <2>3, <2>4 DEF IInv
<1> QED BY <1>5, <1>6

LEMMA AnswerStep == IInv /\ Answer => IInv'
<1> SUFFICES ASSUME IInv, Answer PROVE IInv'
  OBVIOUS
<1>1. /\ check # NoCheck /\ check' = NoCheck
      /\ UNCHANGED <<pc, file, poll, left, slices, hung, bound,
                     since, frac, stepped, probeIn, portless, steps>>
  BY DEF Answer, loopVars, stampVars
<1>2. pc \in Running /\ bound /\ fails < Threshold
  BY <1>1, Zenon DEF IInv, Shape
<1>3. fails \in Nat /\ steps \in Nat
  BY Consts DEF IInv, TypeOK
<1>4. fails' = 0 \/ (~Healthy(check) /\ fails' = fails + 1)
  BY DEF Answer, Fail
<1>5. TypeOK'
  <2>1. hung' \in BOOLEAN /\ bound' \in BOOLEAN /\ stepped' \in BOOLEAN
    BY <1>1, Zenon DEF IInv, TypeOK
  <2>2. fails' \in 0..Threshold
    BY <1>2, <1>3, <1>4, Consts
  <2> QED BY <1>1, <2>1, <2>2 DEF IInv, TypeOK
<1>6. Shape'
  BY <1>1, <1>2 DEF IInv, Shape
<1>7. Young' /\ Fresh' /\ InBudget'
  BY <1>1 DEF IInv, Young, Fresh, InBudget, Grace, ToStamp
<1>8. Counted'
  <2>1. SUFFICES ASSUME ~hung PROVE Counted'
    BY <1>1 DEF Counted
  <2>2. fails + Spoilt + Spoiling <= steps
    BY <1>2, <2>1 DEF IInv, Counted
  <2>3. Spoilt' = 0 /\ Spoilt \in 0..1
    BY <1>1 DEF Spoilt
  <2>4. PICK m \in 0..1 : Spoiling = m /\ Spoiling' = m
    BY <1>1 DEF Spoiling, ToStamp
  <2>5. CASE fails' = 0
    BY <1>1, <1>3, <2>2, <2>3, <2>4, <2>5 DEF Counted
  <2>6. CASE ~Healthy(check) /\ fails' = fails + 1
    <3>1. check.stepped
      BY <1>1, <1>2, <2>1, <2>6, FreshIsHealthy
    <3>2. Spoilt = 1
      BY <1>1, <3>1 DEF Spoilt
    <3> QED BY <1>1, <1>3, <2>2, <2>3, <2>4, <2>6, <3>2 DEF Counted
  <2> QED BY <1>4, <2>5, <2>6
<1> QED BY <1>5, <1>6, <1>7, <1>8 DEF IInv

(* While a check is read the next one is too far off for the loop to miss. *)
LEMMA ProbeFar ==
  ASSUME IInv, check # NoCheck, ~hung
  PROVE  ToStamp < probeIn
<1>1. pc \in Running /\ check.lag + Period <= probeIn + Lag
  BY DEF IInv, Shape
<1>2. check.lag \in Nat /\ probeIn \in Nat /\ left \in Nat
  BY Consts DEF IInv, TypeOK, Check
<1>3. PICK a \in Nat : ToStamp = a
  BY <1>2, Consts DEF ToStamp
<1>4. a + Lag < Period
  BY <1>1, <1>3 DEF IInv, InBudget
<1> QED BY <1>1, <1>2, <1>3, <1>4, Consts

LEMMA PassStep == IInv /\ Pass => IInv'
<1> SUFFICES ASSUME IInv, Pass PROVE IInv'
  OBVIOUS
<1>1. /\ pc \in Running /\ pc # "load" /\ NothingDue
      /\ since' = Cap(since + 1)
      /\ UNCHANGED <<pc, file, poll, slices, hung, bound, frac, stepped, fails, steps>>
  BY DEF Pass, Running
<1>2. since \in Int /\ left \in Nat /\ probeIn \in 0..Period /\ probeIn \in Nat
      /\ fails \in Nat /\ steps \in Nat
  BY Consts DEF IInv, TypeOK
<1>3. since' \in Int /\ since' <= since + 1 /\ since' <= Far
  BY <1>1, <1>2, CapBelow
<1>4. (hung => left' = left) /\ (~hung => left > 0 /\ left' = left - 1)
  BY <1>1, Zenon DEF Pass, NothingDue
<1>5. check # NoCheck =>
        /\ check.since \in Int /\ check.frac \in 0..(UnitsPerSec - 1)
        /\ check.stepped \in BOOLEAN /\ check.lag \in 0..Lag /\ check.lag > 0
        /\ check' = [since |-> Cap(check.since + 1), frac |-> check.frac,
                     stepped |-> check.stepped, lag |-> check.lag - 1]
  <2>1. SUFFICES ASSUME check # NoCheck PROVE
        /\ check.since \in Int /\ check.frac \in 0..(UnitsPerSec - 1)
        /\ check.stepped \in BOOLEAN /\ check.lag \in 0..Lag /\ check.lag > 0
        /\ check' = [since |-> Cap(check.since + 1), frac |-> check.frac,
                     stepped |-> check.stepped, lag |-> check.lag - 1]
    BY <2>1
  <2>2. check \in Check
    BY <2>1 DEF IInv, TypeOK
  <2>3. check' = [[check EXCEPT !.since = Cap(@ + 1)] EXCEPT !.lag = @ - 1]
    BY <2>1 DEF Pass, Moved
  <2>4. check.lag > 0
    BY <1>1, <2>1 DEF NothingDue
  <2> QED BY <2>2, <2>3, <2>4 DEF Check
<1>6. check = NoCheck => check' = NoCheck
  BY DEF Pass
<1>7. check # NoCheck =>
        /\ check' \in Check /\ check' # NoCheck
        /\ check'.since <= check.since + 1 /\ check'.since \in Int
        /\ check'.lag = check.lag - 1 /\ check'.stepped = check.stepped
  <2>1. SUFFICES ASSUME check # NoCheck PROVE
        /\ check' \in Check /\ check' # NoCheck
        /\ check'.since <= check.since + 1 /\ check'.since \in Int
        /\ check'.lag = check.lag - 1 /\ check'.stepped = check.stepped
    BY <2>1
  <2>2. Cap(check.since + 1) \in Int /\ Cap(check.since + 1) <= check.since + 1
    BY <1>5, <2>1, CapBelow
  <2>3. check.lag - 1 \in 0..Lag
    BY <1>5, <2>1, Consts
  <2>4. check' \in Check
    BY <1>5, <2>1, <2>2, <2>3 DEF Check
  <2> QED BY <1>5, <2>1, <2>2, <2>4, Consts
<1>8. probeIn > 0 /\ probeIn' = probeIn - 1
  <2>1. CASE check = NoCheck
    BY <1>1, <1>2, <2>1 DEF NothingDue, Pass
  <2>2. CASE check # NoCheck
    <3>1. check.lag + Period <= probeIn + Lag /\ check.lag \in Nat /\ check.lag > 0
      BY <1>5, <2>2, Consts DEF IInv, Shape
    <3>2. probeIn > 0
      BY <1>2, <3>1, Consts
    <3> QED BY <3>2 DEF Pass
  <2> QED BY <2>1, <2>2
<1>9. TypeOK'
  <2>1. hung' \in BOOLEAN /\ bound' \in BOOLEAN /\ stepped' \in BOOLEAN
    BY <1>1, Zenon DEF IInv, TypeOK
  <2>2. left' \in Nat /\ probeIn' \in 0..Period
    <3>1. left' = left \/ (left > 0 /\ left' = left - 1)
      BY <1>4, Zenon
    <3>2. left' \in Nat
      BY <1>2, <3>1
    <3>3. probeIn' \in 0..Period
      BY <1>2, <1>8, Consts
    <3> QED BY <3>2, <3>3
  <2>3. check' \in Check \cup {NoCheck}
    BY <1>6, <1>7
  <2>4. portless' \in Nat
    BY DEF Pass, IInv, TypeOK
  <2> QED BY <1>1, <1>3, <2>1, <2>2, <2>3, <2>4 DEF IInv, TypeOK
<1>10. Shape'
  <2>1. check' # NoCheck => check # NoCheck
    BY <1>6
  <2>2. check # NoCheck => check'.lag + Period <= probeIn' + Lag
    BY <1>2, <1>5, <1>7, <1>8, Consts DEF IInv, Shape
  <2>3. check # NoCheck => bound' /\ fails' < Threshold
    BY <1>1 DEF IInv, Shape
  <2>4. (pc' = "wait" => slices' > 0) /\ (hung' => pc' \in {"attempt", "work"})
    BY <1>1 DEF IInv, Shape
  <2> QED BY <1>1, <2>1, <2>2, <2>3, <2>4 DEF Shape
<1>11. poll * UnitsPerSec \in Int /\ poll' * UnitsPerSec = poll * UnitsPerSec
  BY <1>1, Interval, Consts DEF IInv
<1>12. Young'
  <2>1. SUFFICES ASSUME ~hung, ~stepped PROVE Young'
    BY <1>1 DEF Young
  <2> DEFINE g == poll * UnitsPerSec
  <2>2. g \in Int  BY <1>11
  <2>8. left > 0 /\ left' = left - 1
    BY <1>4, <2>1, Zenon
  <2>9. PICK l \in Nat : left = l + 1 /\ left' = l
    <3>1. left - 1 \in Nat /\ left = (left - 1) + 1
      BY <1>2, <2>8
    <3> QED BY <2>8, <3>1
  <2>10. PICK n \in Int : since' = n /\ n <= since + 1
    BY <1>3
  <2>3. Grace = 3 * g /\ Grace' = 3 * g
    BY <1>11 DEF Grace
  <2>4. CASE pc = "attempt"
    <3>1. since + left + Work + Lag <= 3 * UnitsPerSec
      BY <2>1, <2>4, <1>1 DEF IInv, Young
    <3>2. n + l + Work + Lag <= 3 * UnitsPerSec
      BY <1>2, <2>9, <2>10, <3>1, Consts
    <3> QED BY <1>1, <2>4, <2>9, <2>10, <3>2 DEF Young
  <2>5. CASE pc = "wait"
    <3>1. since + left <= UnitsPerSec
      BY <2>1, <2>5, <1>1 DEF IInv, Young
    <3>2. n + l <= UnitsPerSec
      BY <1>2, <2>9, <2>10, <3>1, Consts
    <3> QED BY <1>1, <2>5, <2>9, <2>10, <3>2 DEF Young
  <2>6. CASE pc = "work"
    <3>1. since + left + Lag <= 3 * g
      BY <2>1, <2>3, <2>6, <1>1 DEF IInv, Young
    <3> HIDE DEF g
    <3>2. n + l + Lag <= 3 * g
      BY <1>2, <2>2, <2>9, <2>10, <3>1, Consts
    <3> QED BY <1>1, <2>3, <2>6, <2>9, <2>10, <3>2 DEF Young
  <2>7. CASE pc = "sleep"
    <3>1. since + left <= g
      BY <2>1, <2>7, <1>1 DEF IInv, Young
    <3> HIDE DEF g
    <3>2. n + l <= g
      BY <1>2, <2>2, <2>9, <2>10, <3>1
    <3> QED BY <1>1, <1>11, <2>7, <2>9, <2>10, <3>2 DEF Young, g
  <2> QED BY <1>1, <2>4, <2>5, <2>6, <2>7 DEF Running
<1>13. Fresh'
  <2>1. SUFFICES ASSUME check # NoCheck, ~hung, ~check.stepped
        PROVE check'.since + check'.lag <= Grace'
    BY <1>1, <1>6, <1>7 DEF Fresh
  <2> DEFINE g == poll * UnitsPerSec
  <2>2. g \in Int /\ Grace = 3 * g /\ Grace' = 3 * g
    BY <1>11 DEF Grace
  <2>3. check.since + check.lag <= 3 * g
    BY <2>1, <2>2 DEF IInv, Fresh
  <2> HIDE DEF g
  <2> QED BY <1>5, <1>7, <2>1, <2>2, <2>3, Consts
<1>14. ~hung => \E a \in Nat : ToStamp = a + 1 /\ ToStamp' = a
  <2>1. SUFFICES ASSUME ~hung PROVE \E a \in Nat : ToStamp = a + 1 /\ ToStamp' = a
    OBVIOUS
  <2>2. PICK l \in Nat : left = l + 1 /\ left' = l
    <3>1. left' \in Nat /\ left = left' + 1
      BY <1>2, <1>4, <2>1
    <3> QED BY <3>1
  <2>3. l + Work \in Nat /\ l + 1 + Work = (l + Work) + 1
    BY Consts
  <2>4. CASE pc \in {"attempt", "sleep"}
    BY <1>1, <2>2, <2>3, <2>4 DEF ToStamp
  <2>5. CASE pc \notin {"attempt", "sleep"}
    BY <1>1, <2>2, <2>5 DEF ToStamp
  <2> QED BY <2>4, <2>5
<1>15. InBudget'
  <2>1. SUFFICES ASSUME ~hung PROVE InBudget'
    BY <1>1 DEF InBudget
  <2>2. PICK a \in Nat : ToStamp = a + 1 /\ ToStamp' = a
    BY <1>14, <2>1
  <2>3. /\ a + 1 + Lag < Period
        /\ pc = "sleep" => left <= poll * UnitsPerSec
        /\ poll * UnitsPerSec + Work + Lag < Period
    BY <1>1, <2>1, <2>2 DEF IInv, InBudget
  <2>4. a + Lag < Period
    BY <2>3, Consts
  <2>5. pc = "sleep" => left' <= poll * UnitsPerSec
    BY <1>2, <1>4, <1>11, <2>1, <2>3
  <2> QED BY <1>1, <1>11, <2>2, <2>3, <2>4, <2>5 DEF InBudget
<1>16. Counted'
  <2>1. SUFFICES ASSUME ~hung, bound PROVE Counted'
    BY <1>1 DEF Counted
  <2>2. fails + Spoilt + Spoiling <= steps
    BY <1>1, <2>1 DEF IInv, Counted
  <2>3. PICK a \in Nat : ToStamp = a + 1 /\ ToStamp' = a
    BY <1>14, <2>1
  <2>4. Spoilt' = Spoilt
    BY <1>6, <1>7 DEF Spoilt
  <2>5. (a + 1 >= probeIn) = (a >= probeIn')
    BY <1>2, <1>8
  <2>6. Spoiling' = Spoiling
    BY <1>1, <2>3, <2>5 DEF Spoiling
  <2> QED BY <1>1, <2>2, <2>4, <2>6 DEF Counted
<1> QED BY <1>9, <1>10, <1>12, <1>13, <1>15, <1>16 DEF IInv

LEMMA StepClockStep == IInv /\ StepClock => IInv'
<1> SUFFICES ASSUME IInv, StepClock PROVE IInv'
  OBVIOUS
<1>1. PICK d \in Steps :
        /\ since' = Cap(since + d)
        /\ stepped' = TRUE
        /\ check' = IF check = NoCheck THEN NoCheck
                    ELSE [Moved(check, d) EXCEPT !.stepped = TRUE]
  BY DEF StepClock
<1>2. /\ pc \in Running /\ pc # "load" /\ steps < StepsMax /\ steps' = steps + 1
      /\ UNCHANGED <<pc, file, poll, left, slices, hung, bound, frac, probeIn, fails, portless>>
  BY DEF StepClock, loopVars, Running
<1>3. since \in Int /\ d \in Int /\ steps \in Nat /\ fails \in Nat /\ left \in Nat
      /\ probeIn \in Nat
  BY ProcessAssumption DEF ProcessAssumption, IInv, TypeOK
<1>4. since' \in Int /\ since' <= Far
  <2>1. since + d \in Int  BY <1>3
  <2> QED BY <1>1, <2>1, CapBelow
<1>5. check # NoCheck =>
        check' \in Check /\ check' # NoCheck /\ check'.stepped /\ check'.lag = check.lag
  <2>1. SUFFICES ASSUME check # NoCheck PROVE
        check' \in Check /\ check' # NoCheck /\ check'.stepped /\ check'.lag = check.lag
    BY <2>1
  <2>2. check \in Check
    BY <2>1 DEF IInv, TypeOK
  <2>3. check' = [[check EXCEPT !.since = Cap(@ + d)] EXCEPT !.stepped = TRUE]
    BY <1>1, <2>1 DEF Moved
  <2>4. Cap(check.since + d) \in Int
    <3>1. check.since + d \in Int  BY <1>3, <2>2 DEF Check
    <3> QED BY <3>1, CapBelow
  <2>5. check' = [since |-> Cap(check.since + d), frac |-> check.frac,
                  stepped |-> TRUE, lag |-> check.lag]
    BY <2>2, <2>3 DEF Check
  <2>6. check' \in Check
    BY <2>2, <2>4, <2>5 DEF Check
  <2> QED BY <2>5, <2>6, Consts
<1>6. check = NoCheck => check' = NoCheck
  BY <1>1
<1>7. TypeOK'
  <2>1. hung' \in BOOLEAN /\ bound' \in BOOLEAN /\ stepped' \in BOOLEAN
    BY <1>1, <1>2, Zenon DEF IInv, TypeOK
  <2>2. check' \in Check \cup {NoCheck} /\ steps' \in 0..StepsMax
    BY <1>2, <1>3, <1>5, <1>6, Consts
  <2> QED BY <1>2, <1>4, <2>1, <2>2 DEF IInv, TypeOK
<1>8. Shape'
  <2>1. check' # NoCheck =>
          bound' /\ fails' < Threshold /\ check'.lag + Period <= probeIn' + Lag
    BY <1>2, <1>5, <1>6 DEF IInv, Shape
  <2>2. (pc' = "wait" => slices' > 0) /\ (hung' => pc' \in {"attempt", "work"})
    BY <1>2 DEF IInv, Shape
  <2> QED BY <1>2, <2>1, <2>2 DEF Shape
<1>9. Young' /\ Fresh'
  BY <1>1, <1>5, <1>6 DEF Young, Fresh
<1>10. InBudget'
  BY <1>2 DEF IInv, InBudget, ToStamp
<1>11. Counted'
  <2>1. SUFFICES ASSUME ~hung, bound PROVE Counted'
    BY <1>2 DEF Counted
  <2>2. fails + Spoilt + Spoiling <= steps
    BY <1>2, <2>1 DEF IInv, Counted
  <2>3. Spoilt \in 0..1 /\ Spoiling \in 0..1
    BY DEF Spoilt, Spoiling
  <2>4. PICK a \in Nat : ToStamp = a /\ ToStamp' = a
    BY <1>2, <1>3, Consts DEF ToStamp
  <2>5. CASE check = NoCheck
    <3>1. Spoilt' = 0
      BY <1>6, <2>5 DEF Spoilt
    <3>2. PICK n \in 0..1 : Spoiling' = n
      BY DEF Spoiling
    <3> QED BY <1>2, <1>3, <2>2, <2>3, <3>1, <3>2 DEF Counted
  <2>6. CASE check # NoCheck
    <3>1. a < probeIn
      BY <2>1, <2>4, <2>6, ProbeFar
    <3>2. Spoiling' = 0
      BY <1>2, <1>3, <2>4, <3>1 DEF Spoiling
    <3>3. Spoilt' = 1
      BY <1>5, <2>6 DEF Spoilt
    <3> QED BY <1>2, <1>3, <2>2, <2>3, <3>2, <3>3 DEF Counted
  <2> QED BY <2>5, <2>6
<1> QED BY <1>7, <1>8, <1>9, <1>10, <1>11 DEF IInv

LEMMA NextInv == IInv /\ [Next]_vars => IInv'
<1> SUFFICES ASSUME IInv, [Next]_vars PROVE IInv'
  OBVIOUS
<1> DEFINE Ending == Refuse \/ Usage \/ OneShot \/ Leave \/ Kill
<1>1. CASE Ending
  <2>1. PICK how \in Ended : End(how)
    BY <1>1 DEF Refuse, Usage, OneShot, Leave, Kill, Ended
  <2> QED BY <2>1, EndStep
<1>2. CASE Begin    BY <1>2, BeginStep
<1>3. CASE Restart  BY <1>3, RestartStep
<1>4. CASE Loop     BY <1>4, LoopStep
<1>5. CASE Hang     BY <1>5, HangStep
<1>6. CASE Ask      BY <1>6, AskStep
<1>7. CASE Answer   BY <1>7, AnswerStep
<1>8. CASE Pass     BY <1>8, PassStep
<1>9. CASE StepClock  BY <1>9, StepClockStep
<1>10. CASE UNCHANGED vars
  BY <1>10 DEF vars, loopVars, stampVars, watchVars, IInv, TypeOK, Shape, Young,
     Fresh, InBudget, Counted, Grace, ToStamp, Spoilt, Spoiling
<1> QED
  BY <1>1, <1>2, <1>3, <1>4, <1>5, <1>6, <1>7, <1>8, <1>9, <1>10
     DEF Next, StartUp, Watch

LEMMA Invariance == Spec => []IInv
BY InitInv, NextInv, PTL DEF Spec

----------------------------------------------------------------------------
(* The daemon and its probe have the types Process.tla declares: no age,   *)
(* budget or count leaves its range, however the clock is stepped.         *)
THEOREM TypeCorrect == Spec => []TypeOK
<1>1. IInv => TypeOK
  BY DEF IInv
<1> QED BY <1>1, Invariance, PTL

(* No check of a daemon whose loop goes on is answered "stale" because of  *)
(* the daemon: with every accepted poll interval the wait for the hub and  *)
(* the ticks stamp their heartbeats early enough.                          *)
THEOREM NeverFalseAlarm == Spec => []NoFalseAlarm
<1>1. IInv => NoFalseAlarm
  <2> SUFFICES ASSUME IInv, check # NoCheck, ~Healthy(check), ~hung, ~check.stepped
               PROVE  FALSE
    BY DEF NoFalseAlarm
  <2>1. pc \in Running
    BY DEF IInv, Shape
  <2> QED BY <2>1, FreshIsHealthy
<1> QED BY <1>1, Invariance, PTL

(* The safety half of ImplementsWatchdog: every step is one the watchdog   *)
(* may take, so that only a daemon that is stuck - hung, or without its    *)
(* metrics port - is ever killed.                                          *)
THEOREM KilledOnlyStuck == Spec => Dog!Init /\ [][Dog!Next]_Status
<1>1. Init => Dog!Init
  BY DEF Init, Dog!Init, Status, Running
<1>2. IInv /\ [Next]_vars => [Dog!Next]_Status
  <2> SUFFICES ASSUME IInv, [Next]_vars PROVE [Dog!Next]_Status
    OBVIOUS
  <2> DEFINE Same == UNCHANGED <<pc, hung, bound>>
  <2>1. CASE Same
    BY <2>1 DEF Status
  <2>2. CASE Refuse \/ Usage \/ OneShot
    <3>1. pc = "load" /\ pc' \in {"rejected", "left"}
      BY <2>2 DEF Refuse, Usage, OneShot, End
    <3> QED BY <3>1 DEF Status, Running
  <2>3. CASE Begin
    <3>1. pc = "load" /\ pc' = "attempt"
      BY <2>3 DEF Begin
    <3>2. Status = "off" /\ Status' \in {"stuck", "well"}
      BY <3>1 DEF Status, Running
    <3> QED BY <3>2 DEF Dog!Next, Dog!ComeUp
  <2>4. CASE Restart
    <3>1. pc \in Ended /\ pc' = "load"
      BY <2>4 DEF Restart
    <3>2. Status \in {"off", "killed"} /\ Status' = "off"
      BY <3>1 DEF Status, Running, Ended
    <3> QED BY <3>2 DEF Dog!Next, Dog!ComeUp
  <2>5. CASE Loop
    <3>1. pc \in Running /\ pc' \in Running /\ UNCHANGED <<hung, bound>>
      BY <2>5 DEF Loop, Found, Missed, Slice, Beat, Wake, Running
    <3> QED BY <3>1 DEF Status
  <2>6. CASE Hang
    <3>1. pc \in Running /\ UNCHANGED <<pc, bound>> /\ hung'
      BY <2>6 DEF Hang, Running
    <3>2. Status \in {"well", "stuck"} /\ Status' = "stuck"
      BY <3>1, Zenon DEF Status
    <3> QED BY <3>2 DEF Dog!Next, Dog!Stick
  <2>7. CASE Leave
    <3>1. pc \in Running /\ pc' = "left"
      BY <2>7 DEF Leave, End, Running
    <3>2. Status \in {"well", "stuck"} /\ Status' = "off"
      BY <3>1 DEF Status, Running
    <3> QED BY <3>2 DEF Dog!Next, Dog!GoOff
  <2>8. CASE Kill
    <3>1. pc \in Running /\ pc' = "killed" /\ fails = Threshold
      BY <2>8 DEF Kill, End
    <3>2. hung \/ ~bound
      <4> SUFFICES ASSUME ~hung, bound PROVE FALSE
        OBVIOUS
      <4>1. fails + Spoilt + Spoiling <= steps
        BY <3>1 DEF IInv, Counted
      <4>2. Spoilt \in 0..1 /\ Spoiling \in 0..1
        BY DEF Spoilt, Spoiling
      <4>3. steps \in Nat /\ steps <= StepsMax
        BY Consts DEF IInv, TypeOK
      <4> QED BY <3>1, <4>1, <4>2, <4>3, Consts
    <3>3. Status = "stuck" /\ Status' = "killed"
      BY <3>1, <3>2 DEF Status, Running
    <3> QED BY <3>3 DEF Dog!Next, Dog!Kill
  <2>9. CASE Ask
    BY <2>1, <2>9 DEF Ask, loopVars
  <2>10. CASE Answer
    BY <2>1, <2>10 DEF Answer, loopVars
  <2>11. CASE Pass
    BY <2>1, <2>11 DEF Pass
  <2>12. CASE StepClock
    BY <2>1, <2>12 DEF StepClock, loopVars
  <2>13. CASE UNCHANGED vars
    BY <2>1, <2>13 DEF vars, loopVars
  <2> QED
    BY <2>2, <2>3, <2>4, <2>5, <2>6, <2>7, <2>8, <2>9, <2>10, <2>11, <2>12, <2>13
       DEF Next, StartUp, Watch
<1> QED BY <1>1, <1>2, Invariance, PTL DEF Spec

----------------------------------------------------------------------------
(* How long a stuck daemon can last: its heartbeat and the time to the     *)
(* next check, which is asked a period after the one before, are bounded   *)
(* by the point where it counts as stale and a period for each failure.    *)

(* From this age on a heartbeat is stale, whatever its stamp dropped.      *)
Stale == (3 * poll + 1) * UnitsPerSec

Pending == IF check # NoCheck THEN 1 ELSE 0

(* A check under way has read this heartbeat, or one before it, in which   *)
(* case this one is no older than the check.                               *)
ReadsThis ==
  check # NoCheck => since <= check.since \/ since + check.lag <= Lag

InStep == since + probeIn <= Stale + Period * (fails + 1 + Pending)

Watched ==
  pc \in Running =>
    /\ MaxAge(poll) + UnitsPerSec <= Far
    /\ bound /\ fails = Threshold => check = NoCheck /\ Period <= probeIn + Lag
    /\ bound /\ ~stepped => ReadsThis /\ InStep

LEMMA PeriodTimes ==
  ASSUME NEW n \in Nat
  PROVE  /\ Period * n \in Nat /\ Period * (n + 1) = Period * n + Period
         /\ n >= 1 => Period <= Period * n
<1>1. Period * n \in Nat /\ Period * (n + 1) = Period * n + Period
  BY Consts
<1>2. n >= 1 => Period <= Period * n
  <2>1. SUFFICES ASSUME n >= 1 PROVE Period <= Period * n
    OBVIOUS
  <2>2. PICK k \in Nat : n = k + 1
    <3>1. n - 1 \in Nat /\ n = (n - 1) + 1  BY <2>1
    <3> QED BY <3>1
  <2>3. Period * (k + 1) = Period * k + Period /\ Period * k \in Nat
    BY Consts
  <2> QED BY <2>2, <2>3, Consts
<1> QED BY <1>1, <1>2

LEMMA StaleFacts ==
  ASSUME TypeOK, pc \in Running
  PROVE  Stale \in Nat /\ Lag <= Stale
<1>1. poll * UnitsPerSec \in Nat /\ poll \in Nat
      /\ Stale = 3 * (poll * UnitsPerSec) + UnitsPerSec
      /\ poll * UnitsPerSec >= UnitsPerSec
  BY Interval, Consts DEF Stale
<1> QED BY <1>1, Consts

(* A check answered with ok has read a heartbeat that is not stale yet.    *)
LEMMA OkIsYoung ==
  ASSUME TypeOK, pc \in Running, Healthy(check),
         check.since \in Int, check.frac \in 0..(UnitsPerSec - 1)
  PROVE  check.since < Stale
<1> DEFINE n == check.frac + check.since
           r == n \div UnitsPerSec
<1>1. n \in Int /\ n >= check.since
  BY Consts
<1> HIDE DEF n
<1>2. r \in Int /\ n < UnitsPerSec * (r + 1)
  BY <1>1, Consts
<1>3. poll \in Nat
  BY DEF TypeOK
<1>4. Age(check) = r
  BY DEF Age, n
<1> HIDE DEF r
<1>5. r <= 3 * poll
  BY <1>2, <1>3, <1>4 DEF Healthy
<1>6. UnitsPerSec * (r + 1) <= UnitsPerSec * (3 * poll + 1)
  <2>1. PICK k \in Nat : 3 * poll + 1 = (r + 1) + k
    <3>1. (3 * poll) - r \in Nat /\ 3 * poll + 1 = (r + 1) + ((3 * poll) - r)
      BY <1>2, <1>3, <1>5
    <3> QED BY <3>1
  <2>2. UnitsPerSec * ((r + 1) + k) = UnitsPerSec * (r + 1) + UnitsPerSec * k
        /\ UnitsPerSec * k \in Nat /\ UnitsPerSec * (r + 1) \in Int
    BY <1>2, <2>1, Consts
  <2> QED BY <2>1, <2>2
<1>7. Stale = UnitsPerSec * (3 * poll + 1) /\ Stale \in Int
      /\ UnitsPerSec * (r + 1) \in Int
  BY <1>2, <1>3, Consts DEF Stale
<1> QED BY <1>1, <1>2, <1>6, <1>7

(* Capping a sum takes a second off at most.                               *)
LEMMA CapAbove ==
  ASSUME NEW n \in Int
  PROVE  /\ n <= Far => Cap(n) = n
         /\ n > Far => Cap(n) + UnitsPerSec > Far
<1>1. n > Far => (Far - n) % UnitsPerSec \in 0..(UnitsPerSec - 1)
  BY Consts, ModRange
<1> DEFINE r == (Far - n) % UnitsPerSec
<1>2. Cap(n) = IF n <= Far THEN n ELSE Far - r
  BY DEF Cap
<1> HIDE DEF r
<1>3. n > Far => r \in 0..(UnitsPerSec - 1)
  BY <1>1 DEF r
<1> QED BY <1>2, <1>3, Consts

(* What the invariant says of the age.                                     *)
LEMMA AgeBounded ==
  ASSUME IInv, Watched, pc \in Running, bound, ~stepped
  PROVE  since <= MaxAge(poll)
<1>1. /\ since \in Int /\ probeIn \in Nat /\ fails \in Nat /\ fails <= Threshold
      /\ Threshold \in Nat
  BY Consts DEF IInv, TypeOK
<1>2. Stale \in Nat
  BY StaleFacts DEF IInv
<1>3. MaxAge(poll) = Stale + Period * Threshold + Lag /\ Period * Threshold \in Nat
  BY <1>2, Consts DEF MaxAge, Stale
<1>4. InStep
  BY DEF Watched
<1>5. CASE check # NoCheck
  <2>1. check.lag \in Nat /\ fails < Threshold /\ check.lag + Period <= probeIn + Lag
    BY <1>5, Consts DEF IInv, TypeOK, Shape, Check
  <2>2. since + probeIn <= Stale + Period * (fails + 1 + 1)
    BY <1>4, <1>5 DEF InStep, Pending
  <2>3. Period * (fails + 1 + 1) = Period * (fails + 1) + Period
        /\ Period * (fails + 1) \in Nat
    BY <1>1, PeriodTimes
  <2>4. Period * (fails + 1) <= Period * Threshold
    <3>1. fails + 1 \in 0..Threshold
      BY <1>1, <2>1
    <3>2. (fails + 1) * Period <= Threshold * Period
      BY <1>1, <3>1, ProductBounds, Consts
    <3>3. (fails + 1) * Period = Period * (fails + 1)
          /\ Threshold * Period = Period * Threshold
      BY <1>1, Consts
    <3> QED BY <3>2, <3>3
  <2> QED BY <1>1, <1>2, <1>3, <2>1, <2>2, <2>3, <2>4, Consts
<1>6. CASE check = NoCheck /\ fails < Threshold
  <2>1. since + probeIn <= Stale + Period * (fails + 1)
    <3>1. since + probeIn <= Stale + Period * (fails + 1 + 0)
      BY <1>4, <1>6 DEF InStep, Pending
    <3>2. fails + 1 + 0 = fails + 1
      BY <1>1
    <3> QED BY <3>1, <3>2
  <2>2. Period * (fails + 1) <= Period * Threshold /\ Period * (fails + 1) \in Nat
    <3>1. fails + 1 \in 0..Threshold
      BY <1>1, <1>6
    <3>2. (fails + 1) * Period <= Threshold * Period
      BY <1>1, <3>1, ProductBounds, Consts
    <3>3. (fails + 1) * Period = Period * (fails + 1)
          /\ Threshold * Period = Period * Threshold
          /\ Period * (fails + 1) \in Nat
      BY <1>1, Consts
    <3> QED BY <3>2, <3>3
  <2> QED BY <1>1, <1>2, <1>3, <2>1, <2>2, Consts
<1>7. CASE fails = Threshold
  <2>1. check = NoCheck /\ Period <= probeIn + Lag
    BY <1>7 DEF Watched
  <2>2. since + probeIn <= Stale + Period * (Threshold + 1)
    <3>1. since + probeIn <= Stale + Period * (Threshold + 1 + 0)
      BY <1>4, <1>7, <2>1 DEF InStep, Pending
    <3>2. Threshold + 1 + 0 = Threshold + 1
      BY <1>1
    <3> QED BY <3>1, <3>2
  <2>3. Period * (Threshold + 1) = Period * Threshold + Period
    BY <1>1, PeriodTimes
  <2> QED BY <1>1, <1>2, <1>3, <2>1, <2>2, <2>3, Consts
<1> QED BY <1>1, <1>5, <1>6, <1>7

(* A heartbeat just stamped is in step with any check.                     *)
LEMMA StampedWatched ==
  ASSUME IInv, IInv', pc' \in Running, since' = 0, probeIn' \in 0..Period,
         MaxAge(poll)' + UnitsPerSec <= Far,
         bound' /\ fails' = Threshold =>
           check' = NoCheck /\ Period <= probeIn' + Lag
  PROVE  Watched'
<1>1. ReadsThis'
  <2>1. SUFFICES ASSUME check' # NoCheck PROVE since' + check'.lag <= Lag
    BY DEF ReadsThis
  <2>2. check'.lag \in 0..Lag
    BY <2>1 DEF IInv, TypeOK, Check
  <2> QED BY <2>2, Consts
<1>2. InStep'
  <2>1. Stale' \in Nat
    <3>1. 3 * poll' + 1 \in Nat
      BY DEF IInv, TypeOK
    <3>2. (3 * poll' + 1) * UnitsPerSec \in Nat
      BY <3>1, Consts
    <3> QED BY <3>2 DEF Stale
  <2>2. PICK m \in Nat, e \in 0..1 : fails' = m /\ Pending' = e
    <3>1. fails' \in Nat
      BY Consts DEF IInv, TypeOK
    <3>2. Pending' = 0 \/ Pending' = 1
      BY DEF Pending
    <3> QED BY <3>1, <3>2
  <2>3. PICK n \in Nat : n = m + 1 + e /\ n >= 1
    <3>1. m + 1 + e \in Nat /\ m + 1 + e >= 1
      OBVIOUS
    <3> QED BY <3>1
  <2>4. Period <= Period * n /\ Period * n \in Nat
    BY <2>3, PeriodTimes
  <2>5. PICK z \in Nat, w \in Nat : Stale' = z /\ Period * n = w /\ Period <= w
    BY <2>1, <2>4
  <2>6. 0 + probeIn' <= z + w
    <3>1. PICK p \in 0..Period : probeIn' = p
      OBVIOUS
    <3>2. 0 + p <= z + w
      <4>1. p \in Nat /\ p <= Period
        BY Consts
      <4> QED BY <2>5, <4>1, Consts
    <3> QED BY <3>1, <3>2
  <2> QED BY <2>2, <2>3, <2>5, <2>6 DEF InStep
<1> QED BY <1>1, <1>2 DEF Watched

LEMMA WatchedStep == IInv /\ IInv' /\ Watched /\ [Next]_vars => Watched'
<1> SUFFICES ASSUME IInv, IInv', Watched, [Next]_vars, pc' \in Running
             PROVE  Watched'
  BY DEF Watched
<1> DEFINE Kept == UNCHANGED <<poll, bound, since, stepped, check, probeIn, fails>>
<1>1. CASE pc \in Running /\ Kept
  BY <1>1 DEF Watched, ReadsThis, InStep, Stale, Pending
<1>2. CASE Begin
  <2>1. /\ since' = 0 /\ check' = NoCheck /\ fails' = 0 /\ probeIn' \in 0..Period
        /\ poll' = Poll(file) /\ pc = "load" /\ Parse(file) # Unreadable
    BY <1>2 DEF Begin, NewMetrics, IInv, Shape, Running, Accepts, Loaded
  <2>2. file \in Files
    BY <2>1 DEF IInv, TypeOK
  <2>3. MaxAge(poll)' + UnitsPerSec <= Far
    BY <2>1, <2>2, ProcessAssumption DEF ProcessAssumption, MaxAge
  <2>4. fails' # Threshold
    BY <2>1, Consts
  <2> QED BY <2>1, <2>3, <2>4, StampedWatched
<1>3. CASE Loop
  <2>1. pc \in Running /\ UNCHANGED <<poll, bound, check, probeIn, fails>>
    BY <1>3 DEF Loop, Found, Missed, Slice, Beat, Wake, Running, watchVars
  <2>2. Stamp \/ UNCHANGED stampVars
    BY <1>3 DEF Loop, Found, Missed, Slice, Beat, Wake
  <2>3. CASE Stamp
    <3>1. since' = 0 /\ probeIn' \in 0..Period /\ MaxAge(poll)' = MaxAge(poll)
      BY <2>1, <2>3 DEF Stamp, IInv, TypeOK, MaxAge
    <3> QED BY <2>1, <3>1, StampedWatched DEF Watched
  <2>4. CASE UNCHANGED stampVars
    BY <1>1, <2>1, <2>4 DEF stampVars
  <2> QED BY <2>2, <2>3, <2>4
<1>4. CASE Hang
  BY <1>1, <1>4 DEF Hang, stampVars, watchVars, Running
<1>5. CASE Ask
  <2>1. /\ pc \in Running /\ probeIn = 0 /\ check = NoCheck /\ fails < Threshold
        /\ probeIn' = Period
        /\ UNCHANGED <<poll, bound, since, stepped>>
    BY <1>5 DEF Ask, loopVars, stampVars
  <2>2. CASE bound
    <3>1. /\ check' = [since |-> since, frac |-> frac, stepped |-> stepped, lag |-> Lag]
          /\ fails' = fails
      BY <1>5, <2>2 DEF Ask
    <3>2. since \in Int /\ fails \in Nat
      BY Consts DEF IInv, TypeOK
    <3>3. check' # NoCheck
      BY <2>2, <3>1, Consts DEF IInv, TypeOK, Check
    <3>4. ReadsThis'
      BY <2>1, <3>1, <3>2 DEF ReadsThis
    <3>5. ~stepped => InStep'
      <4>1. SUFFICES ASSUME ~stepped PROVE InStep'
        OBVIOUS
      <4>2. since + 0 <= Stale + Period * (fails + 1 + 0)
        BY <2>1, <2>2, <4>1 DEF Watched, InStep, Pending
      <4>3. /\ Period * (fails + 1 + 1) = Period * (fails + 1 + 0) + Period
            /\ Period * (fails + 1 + 0) \in Nat
        BY <3>2, PeriodTimes
      <4>4. Stale' = Stale /\ Stale \in Nat
        BY <2>1, StaleFacts DEF Stale, IInv
      <4>5. since' + probeIn' <= Stale' + Period * (fails' + 1 + 1)
        BY <2>1, <3>1, <3>2, <4>2, <4>3, <4>4, Consts
      <4> QED BY <3>3, <4>5 DEF InStep, Pending
    <3>6. fails' # Threshold
      BY <2>1, <3>1, <3>2, Consts
    <3>7. MaxAge(poll)' + UnitsPerSec <= Far
      BY <2>1 DEF Watched, MaxAge
    <3> QED BY <2>1, <3>4, <3>5, <3>6, <3>7 DEF Watched
  <2>3. CASE ~bound
    BY <2>1, <2>3 DEF Watched, MaxAge
  <2> QED BY <2>2, <2>3
<1>6. CASE Answer
  <2>1. /\ check # NoCheck /\ check' = NoCheck
        /\ UNCHANGED <<pc, poll, bound, since, stepped, probeIn>>
    BY <1>6 DEF Answer, loopVars, stampVars
  <2>2. pc \in Running /\ bound /\ fails < Threshold
        /\ check.lag + Period <= probeIn + Lag
    BY <2>1, Zenon DEF IInv, Shape
  <2>3. /\ since \in Int /\ fails \in Nat /\ probeIn \in 0..Period
        /\ check.since \in Int /\ check.frac \in 0..(UnitsPerSec - 1)
        /\ check.lag \in Nat
    BY <2>1, Consts DEF IInv, TypeOK, Check
  <2>4. Stale' = Stale /\ Stale \in Nat /\ Lag <= Stale
    BY <2>1, <2>2, StaleFacts DEF Stale, IInv
  <2>5. MaxAge(poll)' + UnitsPerSec <= Far
    BY <2>1, <2>2 DEF Watched, MaxAge
  <2>6. Period <= probeIn' + Lag
    BY <2>1, <2>2, <2>3, Consts
  <2>7. ReadsThis'
    BY <2>1 DEF ReadsThis
  <2>8. ~stepped => InStep'
    <3>1. SUFFICES ASSUME ~stepped PROVE InStep'
      OBVIOUS
    <3>2. /\ since + probeIn <= Stale + Period * (fails + 1 + 1)
          /\ since <= check.since \/ since + check.lag <= Lag
      BY <2>1, <2>2, <3>1 DEF Watched, InStep, ReadsThis, Pending
    <3>3. Pending' = 0
      BY <2>1 DEF Pending
    <3>4. CASE fails' = fails + 1
      <4>1. fails' + 1 + 0 = fails + 1 + 1
        BY <2>3, <3>4
      <4> QED BY <2>1, <2>4, <3>2, <3>3, <4>1 DEF InStep
    <3>5. CASE Healthy(check) /\ fails' = 0
      <4>1. since <= Stale
        <5>1. CASE since <= check.since
          <6>1. check.since < Stale
            BY <2>2, <2>3, <3>5, OkIsYoung DEF IInv
          <6> QED BY <2>3, <2>4, <5>1, <6>1
        <5>2. CASE since + check.lag <= Lag
          BY <2>3, <2>4, <5>2, Consts
        <5> QED BY <3>2, <5>1, <5>2
      <4>2. Period * (fails' + 1 + Pending') = Period
        BY <3>3, <3>5, Consts
      <4> QED BY <2>1, <2>3, <2>4, <4>1, <4>2, Consts DEF InStep
    <3> QED BY <1>6, <3>4, <3>5 DEF Answer, Fail
  <2> QED BY <2>1, <2>5, <2>6, <2>7, <2>8 DEF Watched
<1>7. CASE Pass
  <2>1. /\ pc \in Running /\ NothingDue /\ fails < Threshold
        /\ since' = Cap(since + 1)
        /\ UNCHANGED <<poll, bound, stepped, fails>>
    BY <1>7 DEF Pass, NothingDue
  <2>2. since \in Int /\ fails \in Nat /\ probeIn \in Nat
    BY Consts DEF IInv, TypeOK
  <2>3. MaxAge(poll)' + UnitsPerSec <= Far /\ MaxAge(poll) + UnitsPerSec <= Far
    BY <2>1 DEF Watched, MaxAge
  <2>4. fails' # Threshold
    BY <2>1, <2>2, Consts
  <2>5. ASSUME bound, ~stepped PROVE ReadsThis' /\ InStep'
    <3>1. since <= MaxAge(poll)
      BY <2>1, <2>5, AgeBounded
    <3>2. MaxAge(poll) \in Nat
      <4>1. poll \in Nat
        BY <2>1 DEF IInv, TypeOK
      <4> QED BY <4>1, Consts DEF MaxAge
    <3>3. since + 1 <= Far /\ since + 1 + UnitsPerSec <= Far + 1
      BY <2>2, <2>3, <3>1, <3>2, Consts
    <3>4. since' = since + 1
      BY <2>1, <2>2, <3>3, CapAbove
    <3>5. CASE check = NoCheck
      <4>1. check' = NoCheck /\ probeIn > 0 /\ probeIn' = probeIn - 1
        BY <1>7, <2>1, <3>5 DEF Pass, NothingDue
      <4>2. since' + probeIn' = since + probeIn
        BY <2>2, <3>4, <4>1
      <4>3. Pending' = Pending /\ Stale' = Stale
        BY <2>1, <3>5, <4>1 DEF Pending, Stale
      <4> QED BY <2>1, <2>5, <4>1, <4>2, <4>3 DEF Watched, InStep, ReadsThis
    <3>6. CASE check # NoCheck
      <4>1. check \in Check
        BY <3>6 DEF IInv, TypeOK
      <4>2. check' = [[check EXCEPT !.since = Cap(@ + 1)] EXCEPT !.lag = @ - 1]
        BY <1>7, <3>6 DEF Pass, Moved
      <4>3. /\ check.since \in Int /\ check.lag \in Nat /\ check.lag > 0
            /\ check'.since = Cap(check.since + 1) /\ check'.lag = check.lag - 1
        BY <2>1, <3>6, <4>1, <4>2, Consts DEF Check, NothingDue
      <4>4. probeIn > 0 /\ probeIn' = probeIn - 1
        <5>1. check.lag + Period <= probeIn + Lag
          BY <3>6 DEF IInv, Shape
        <5>2. probeIn > 0
          BY <2>2, <4>3, <5>1, Consts
        <5> QED BY <1>7, <5>2 DEF Pass
      <4>5. ReadsThis'
        <5>1. CASE since <= check.since
          <6>1. CASE check.since + 1 <= Far
            <7>1. check'.since = check.since + 1
              BY <4>3, <6>1, CapAbove
            <7> QED BY <2>2, <3>4, <4>3, <5>1, <7>1 DEF ReadsThis
          <6>2. CASE ~(check.since + 1 <= Far)
            <7>1. check'.since + UnitsPerSec > Far /\ check'.since \in Int
              BY <4>3, <6>2, CapAbove, CapBelow, Consts
            <7>2. since + 1 <= check'.since
              BY <2>2, <3>3, <7>1, Consts
            <7> QED BY <3>4, <7>2 DEF ReadsThis
          <6> QED BY <6>1, <6>2
        <5>2. CASE since + check.lag <= Lag
          <6>1. since' + check'.lag <= Lag
            BY <2>2, <3>4, <4>3, <5>2, Consts
          <6> QED BY <6>1 DEF ReadsThis
        <5> QED BY <2>1, <2>5, <3>6, <5>1, <5>2 DEF Watched, ReadsThis
      <4>6. check' # NoCheck
        <5>1. Cap(check.since + 1) \in Int /\ check.lag - 1 \in 0..Lag
          BY <4>1, <4>3, CapBelow, Consts DEF Check
        <5>2. check' = [since |-> Cap(check.since + 1), frac |-> check.frac,
                        stepped |-> check.stepped, lag |-> check.lag - 1]
          BY <4>1, <4>2 DEF Check
        <5>3. check' \in Check
          BY <4>1, <5>1, <5>2 DEF Check
        <5> QED BY <5>3, Consts
      <4>7. InStep'
        <5>1. since' + probeIn' = since + probeIn
          BY <2>2, <3>4, <4>4
        <5>2. Pending' = Pending /\ Stale' = Stale
          BY <2>1, <3>6, <4>6 DEF Pending, Stale
        <5> QED BY <2>1, <2>5, <5>1, <5>2 DEF Watched, InStep
      <4> QED BY <4>5, <4>7
    <3> QED BY <3>5, <3>6
  <2> QED BY <2>1, <2>3, <2>4, <2>5 DEF Watched
<1>8. CASE StepClock
  <2>1. /\ pc \in Running /\ stepped' = TRUE
        /\ UNCHANGED <<poll, bound, probeIn, fails>>
        /\ check = NoCheck => check' = NoCheck
    BY <1>8 DEF StepClock, loopVars
  <2> QED BY <2>1 DEF Watched, MaxAge
<1>9. CASE UNCHANGED vars
  BY <1>1, <1>9 DEF vars, loopVars, stampVars, watchVars
<1>10. CASE Refuse \/ Usage \/ OneShot \/ Leave \/ Kill \/ Restart
  <2>1. pc' \in Ended \/ pc' = "load"
    BY <1>10 DEF Refuse, Usage, OneShot, Leave, Kill, Restart, End, Ended
  <2> QED BY <2>1 DEF Running, Ended
<1> QED
  BY <1>2, <1>3, <1>4, <1>5, <1>6, <1>7, <1>8, <1>9, <1>10
     DEF Next, StartUp, Watch

(* A process without a port: nobody answers, so every check fails, and the *)
(* time it has run is that of the failures so far, up to the next check.   *)
Unheard ==
  /\ pc \notin Running => portless = 0
  /\ pc \in Running /\ ~bound =>
       IF fails < Threshold THEN portless + probeIn <= Period * (fails + 1)
                            ELSE portless <= Period * Threshold

LEMMA UnheardStep == IInv /\ IInv' /\ Unheard /\ [Next]_vars => Unheard'
<1> SUFFICES ASSUME IInv, IInv', Unheard, [Next]_vars
             PROVE  Unheard'
  OBVIOUS
<1>1. /\ portless \in Nat /\ probeIn \in 0..Period /\ probeIn \in Nat
      /\ fails \in 0..Threshold /\ fails \in Nat
  BY Consts DEF IInv, TypeOK
<1>2. ASSUME UNCHANGED <<bound, probeIn, fails, portless>>,
             pc \in Running <=> pc' \in Running
      PROVE  Unheard'
  BY <1>2 DEF Unheard
<1>3. CASE Begin
  <2>1. /\ pc \notin Running /\ pc' \in Running /\ fails = 0
        /\ fails' = fails /\ portless' = portless /\ probeIn' \in 0..Period
    BY <1>3 DEF Begin, Running, IInv, Shape
  <2>2. portless' = 0 /\ fails' = 0 /\ Period * (0 + 1) = Period
    BY <2>1, Consts DEF Unheard
  <2>3. PICK p \in 0..Period : probeIn' = p
    BY <2>1
  <2>4. 0 + p <= Period
    BY <2>3, Consts
  <2> QED BY <2>1, <2>2, <2>3, <2>4, Consts DEF Unheard
<1>4. CASE Restart
  BY <1>2, <1>4 DEF Restart, watchVars, Running, Ended
<1>5. CASE Refuse \/ Usage \/ OneShot \/ Leave \/ Kill
  <2>1. pc' \notin Running /\ portless' = 0
    BY <1>5 DEF Refuse, Usage, OneShot, Leave, Kill, End, Running
  <2> QED BY <2>1 DEF Unheard
<1>6. CASE Loop
  BY <1>2, <1>6 DEF Loop, Found, Missed, Slice, Beat, Wake, Running, watchVars
<1>7. CASE Hang
  BY <1>2, <1>7 DEF Hang, watchVars, Running
<1>8. CASE Ask
  <2>1. /\ pc \in Running /\ probeIn = 0 /\ fails < Threshold
        /\ probeIn' = Period
        /\ UNCHANGED <<pc, bound, portless>>
        /\ ~bound => fails' = fails + 1
    BY <1>8 DEF Ask, Fail, loopVars
  <2>2. CASE ~bound
    <3>1. portless + 0 <= Period * (fails + 1)
      BY <2>1, <2>2 DEF Unheard
    <3>2. /\ Period * (fails + 1 + 1) = Period * (fails + 1) + Period
          /\ Period * (fails + 1) \in Nat
      BY <1>1, PeriodTimes
    <3>3. fails' < Threshold \/ fails' = Threshold
      BY <1>1, <2>1, <2>2, Consts
    <3>4. CASE fails' < Threshold
      <4>1. portless + Period <= Period * (fails + 1 + 1)
        BY <1>1, <3>1, <3>2, Consts
      <4> QED BY <2>1, <2>2, <3>4, <4>1 DEF Unheard
    <3>5. CASE fails' = Threshold
      <4>1. portless <= Period * Threshold /\ ~(fails' < Threshold)
        BY <1>1, <2>1, <2>2, <3>1, <3>5, Consts
      <4> QED BY <2>1, <4>1 DEF Unheard
    <3> QED BY <3>3, <3>4, <3>5
  <2>3. CASE bound
    BY <2>1, <2>3 DEF Unheard
  <2> QED BY <2>2, <2>3
<1>9. CASE Answer
  <2>1. pc \in Running /\ pc' = pc /\ bound'
    <3>1. check # NoCheck /\ pc' = pc /\ bound' = bound
      BY <1>9 DEF Answer, loopVars
    <3>2. pc \in Running /\ bound
      BY <3>1, Zenon DEF IInv, Shape
    <3> QED BY <3>1, <3>2
  <2> QED BY <2>1 DEF Unheard
<1>10. CASE Pass
  <2>1. /\ pc \in Running /\ fails < Threshold
        /\ UNCHANGED <<pc, bound, fails>>
    BY <1>10 DEF Pass, NothingDue
  <2>2. CASE ~bound
    <3>1. check = NoCheck
      BY <2>2, Zenon DEF IInv, Shape
    <3>2. probeIn > 0 /\ probeIn' = probeIn - 1 /\ portless' = portless + 1
      BY <1>10, <2>2, <3>1 DEF Pass, NothingDue
    <3>3. portless' + probeIn' = portless + probeIn
      BY <1>1, <3>2
    <3> QED BY <2>1, <2>2, <3>3 DEF Unheard
  <2>3. CASE bound
    BY <2>1, <2>3 DEF Unheard
  <2> QED BY <2>2, <2>3
<1>11. CASE StepClock
  BY <1>2, <1>11 DEF StepClock, loopVars
<1>12. CASE UNCHANGED vars
  BY <1>2, <1>12 DEF vars, loopVars, watchVars
<1> QED
  BY <1>3, <1>4, <1>5, <1>6, <1>7, <1>8, <1>9, <1>10, <1>11, <1>12
     DEF Next, StartUp, Watch

LEMMA UnheardBounded ==
  ASSUME IInv, Unheard, pc \in Running, ~bound
  PROVE  portless <= Threshold * Period
<1>1. /\ portless \in Nat /\ probeIn \in Nat /\ fails \in 0..Threshold
      /\ Threshold \in Nat /\ Period \in Nat
  BY Consts DEF IInv, TypeOK
<1>2. Threshold * Period = Period * Threshold /\ Threshold * Period \in Nat
  BY Consts
<1>3. CASE fails < Threshold
  <2>1. portless + probeIn <= Period * (fails + 1)
    BY <1>3 DEF Unheard
  <2>2. fails + 1 \in 0..Threshold
    BY <1>1, <1>3
  <2>3. (fails + 1) * Period <= Threshold * Period
    BY <1>1, <2>2, ProductBounds, Consts
  <2>4. (fails + 1) * Period = Period * (fails + 1) /\ Period * (fails + 1) \in Nat
    BY <1>1, Consts
  <2> QED BY <1>1, <1>2, <2>1, <2>3, <2>4
<1>4. CASE ~(fails < Threshold)
  BY <1>2, <1>4 DEF Unheard
<1> QED BY <1>3, <1>4

(* No daemon without a port outlives the failures in a row, and none with  *)
(* one its heartbeat by more than the grace and those failures take: what  *)
(* the fairness half of ImplementsWatchdog promises for some time, with    *)
(* the time.                                                               *)
THEOREM StuckIsKilled == Spec => []StuckNotForLong
<1>1. Init => Watched /\ Unheard
  BY DEF Init, Watched, Unheard, Running
<1>2. IInv /\ IInv' /\ Watched /\ [Next]_vars => Watched'
  BY WatchedStep
<1>3. IInv /\ IInv' /\ Unheard /\ [Next]_vars => Unheard'
  BY UnheardStep
<1>4. IInv /\ Watched /\ Unheard => StuckNotForLong
  BY AgeBounded, UnheardBounded DEF StuckNotForLong
<1> QED BY <1>1, <1>2, <1>3, <1>4, Invariance, PTL DEF Spec

----------------------------------------------------------------------------
(* A byte is a natural, and a duty when it is at most 100.                 *)
LEMMA ByteDuty ==
  /\ \A x \in Byte : x <= 100 => x \in Duty
  /\ \A x \in Byte : x \in Nat
  /\ \A x \in Byte : x \in Int
  /\ \A x \in Nat : x # 0 => x > 0
  /\ \A x \in Byte : x >= 2 => x \in 2..255
  /\ \A x \in Byte : x # 0 => x \in 1..255
  /\ \A x \in Nat : x >= 1 => x > 0
BY DEF Byte, Duty

(* Between integers a comparison of floats is the plain one.               *)
LEMMA FiniteOrder ==
  ASSUME NEW x \in Int, NEW y \in Int
  PROVE  /\ Below(x, y) <=> x < y
         /\ ~AtMost(y, x) => x < y
BY ConfigAssumption DEF ConfigAssumption, Below, AtMost

(* What validate_curve accepts is a curve, if its temperatures are finite, *)
(* and is honoured.                                                        *)
LEMMA CurveServes ==
  ASSUME NEW curve \in Seq(RawPoint), PointsOK(curve),
         \A i \in 1..Len(curve) : curve[i].temp \in Int
  PROVE  ValidCurve(curve) /\ Honoured(curve)
<1>1. /\ Len(curve) \in Nat /\ curve # << >>
      /\ \A i \in 1..Len(curve) : curve[i] \in RawPoint /\ curve[i].duty <= 100
  BY DEF PointsOK
<1>2. \A i \in 1..Len(curve) : curve[i].temp \in Int /\ curve[i].duty \in Duty
  <2> TAKE i \in 1..Len(curve)
  <2>1. curve[i].duty \in Byte
    BY <1>1 DEF RawPoint
  <2>2. curve[i].duty \in Duty
    BY <1>1, <2>1, ByteDuty
  <2> QED BY <2>2
<1>3. \A i \in 1..Len(curve) : curve[i] \in CurvePoint
  BY <1>1, <1>2 DEF RawPoint, CurvePoint
<1>4. curve \in Seq(CurvePoint)
  BY <1>1, <1>3
<1>5. \A i \in 1..(Len(curve) - 1) : curve[i].temp < curve[i + 1].temp
  <2> DEFINE temps == [i \in 1..Len(curve) |-> curve[i].temp]
  <2>1. Len(temps) = Len(curve)
    BY <1>1
  <2>2. \A i \in 1..(Len(temps) - 1) : ~AtMost(temps[i + 1], temps[i])
    BY DEF PointsOK, Ascending
  <2> SUFFICES ASSUME NEW i \in 1..(Len(curve) - 1)
               PROVE  curve[i].temp < curve[i + 1].temp
    OBVIOUS
  <2>3. i \in 1..Len(curve) /\ i + 1 \in 1..Len(curve)
    BY <1>1
  <2>4. ~AtMost(curve[i + 1].temp, curve[i].temp)
    BY <2>1, <2>2, <2>3
  <2>5. curve[i].temp \in Int /\ curve[i + 1].temp \in Int
    BY <1>2, <2>3
  <2> QED BY <2>4, <2>5, FiniteOrder
<1>6. ValidCurve(curve)
  BY <1>1, <1>4, <1>5 DEF ValidCurve
<1> QED BY <1>6, PointsHonoured DEF Honoured

(* A weight that passes is one.                                            *)
LEMMA WeightServes ==
  ASSUME NEW a \in Float, Weight(a)
  PROVE  a \in 1..100
BY ConfigAssumption DEF ConfigAssumption, Float, Weight, Below, AtMost

LEMMA OffsetServes ==
  ASSUME NEW x \in Int, ~Below(x, 0)
  PROVE  x \in Nat
BY FiniteOrder

LEMMA BytesAscend ==
  ASSUME NEW xs \in Seq(Byte), Ascending(xs)
  PROVE  \A i \in 1..(Len(xs) - 1) : xs[i] < xs[i + 1]
<1> SUFFICES ASSUME NEW i \in 1..(Len(xs) - 1)
             PROVE  xs[i] < xs[i + 1]
  OBVIOUS
<1>1. xs[i] \in Byte /\ xs[i + 1] \in Byte
  <2>1. Len(xs) \in Nat /\ \A j \in 1..Len(xs) : xs[j] \in Byte
    OBVIOUS
  <2>2. i \in 1..Len(xs) /\ i + 1 \in 1..Len(xs)
    BY <2>1
  <2> QED BY <2>1, <2>2
<1>2. xs[i] \in Int /\ xs[i + 1] \in Int
  BY <1>1, ByteDuty
<1>3. ~AtMost(xs[i + 1], xs[i])
  BY DEF Ascending
<1> QED BY <1>2, <1>3, FiniteOrder

LEMMA AcceptedServes ==
  ASSUME NEW c, WellTyped(c), Accepts(c), Finite(c)
  PROVE  Serviceable(c)
<1>1. /\ c.top.curve \in Seq(RawPoint) /\ c.top.channels \in Seq(Byte)
      /\ c.top.fallback_duty \in Byte /\ c.top.max_step_per_tick \in Byte
      /\ c.top.poll_interval_secs \in Nat
  BY DEF WellTyped
<1>2. /\ \A k \in SubSignals : /\ c[k].curve \in Seq(RawPoint)
                              /\ c[k].rise \in Float /\ c[k].fall \in Float
      /\ c.rgb.stops \in Seq(Byte) /\ c.rgb.buckets \in Byte
      /\ c.throttle.floor_duty \in Byte /\ c.throttle.hold_secs \in Nat
      /\ c.alerts.escalate_every_secs \in Nat /\ c.alerts.cooldown_secs \in Nat
      /\ c.alerts.sustained_after_secs \in Nat
  BY DEF WellTyped
<1>3. TopOK(c.top) /\ SectionsOK(c)
  BY DEF Accepts, Valid
<1>4. \A curve \in CurvesUsed(c) : ValidCurve(curve) /\ Honoured(curve)
  <2> SUFFICES ASSUME NEW curve \in CurvesUsed(c)
               PROVE  ValidCurve(curve) /\ Honoured(curve)
    OBVIOUS
  <2>1. \A i \in 1..Len(curve) : curve[i].temp \in Int
    BY DEF Finite
  <2>2. CASE curve = c.top.curve
    BY <1>1, <1>3, <2>1, <2>2, CurveServes DEF TopOK
  <2>3. CASE curve # c.top.curve
    <3>1. PICK k \in SubSignals : /\ c.signals.enabled /\ c[k].enabled
                                  /\ c[k].curve # << >> /\ curve = c[k].curve
      BY <2>3 DEF CurvesUsed
    <3>2. SubSignalOK(k, c[k])
      BY <1>3, <3>1 DEF SectionsOK, SignalsOK
    <3>3. PointsOK(curve) /\ curve \in Seq(RawPoint)
      BY <1>2, <3>1, <3>2 DEF SubSignalOK
    <3> QED BY <2>1, <3>3, CurveServes
  <2> QED BY <2>2, <2>3
<1>5. ServesLoop(c.top)
  <2>1. c.top.hysteresis_c \in Nat /\ c.top.cpu_offset \in Nat
    BY <1>1, <1>3, OffsetServes DEF TopOK, Finite
  <2> QED BY <1>1, <1>3, <2>1, ByteDuty DEF TopOK, ServesLoop
<1>6. PacketsFit(c)
  <2> SUFFICES ASSUME NEW i \in 1..Len(c.top.channels), NEW ch, ch = c.top.channels[i]
               PROVE  /\ ch >= 1 /\ 16 * 2^(ch - 1) <= 255
                      /\ c.rgb.enabled => 16 * (ch - 1) + FansFor(c.rgb, ch) <= 255
    BY DEF PacketsFit
  <2>1. ch \in 1..4
    BY <1>3 DEF TopOK
  <2>2. 16 * 2^(ch - 1) <= 255
    <3>1. CASE ch = 1  BY <3>1
    <3>2. CASE ch = 2  BY <3>2
    <3>3. CASE ch = 3  BY <3>3
    <3>4. CASE ch = 4  BY <3>4
    <3> QED BY <2>1, <3>1, <3>2, <3>3, <3>4
  <2>3. c.rgb.enabled => FansFor(c.rgb, ch) \in 1..6
    BY <1>3 DEF SectionsOK, RgbOK, FansFor
  <2>4. ASSUME c.rgb.enabled PROVE 16 * (ch - 1) + FansFor(c.rgb, ch) <= 255
    <3>1. PICK fans \in 1..6 : fans = FansFor(c.rgb, ch)
      BY <2>3, <2>4
    <3>2. \A n \in 1..4, f \in 1..6 : 16 * (n - 1) + f <= 255
      OBVIOUS
    <3> QED BY <2>1, <3>1, <3>2
  <2> QED BY <2>1, <2>2, <2>4
<1>7. ASSUME c.rgb.enabled
      PROVE  ServesLeds(c.rgb) /\ (c.alerts.enabled => ServesLadder(c.alerts))
  <2>1. RgbOK(c.rgb, c.top.channels) /\ (c.alerts.enabled => AlertsOK(c.alerts))
    BY <1>3, <1>7 DEF SectionsOK
  <2>2. c.rgb.buckets \in 2..255
    BY <1>2, <2>1, ByteDuty DEF RgbOK
  <2>3. \A i \in 1..(Len(c.rgb.stops) - 1) : c.rgb.stops[i] < c.rgb.stops[i + 1]
    BY <1>2, <2>1, BytesAscend DEF RgbOK
  <2>4. c.alerts.enabled => ServesLadder(c.alerts)
    BY <1>2, <2>1, ByteDuty DEF AlertsOK, ServesLadder
  <2> QED BY <2>1, <2>2, <2>3, <2>4 DEF RgbOK, ServesLeds
<1>8. ASSUME c.signals.enabled
      PROVE  ServesFusion(c)
  <2>1. SignalsOK(c)
    BY <1>3, <1>8 DEF SectionsOK
  <2>2. \A k \in SubSignals : c[k].enabled => Weight(c[k].rise) /\ Weight(c[k].fall)
    BY <2>1 DEF SignalsOK, SubSignalOK
  <2>3. c.throttle.enabled => c.throttle.floor_duty \in Duty
    BY <1>2, <2>1, ByteDuty DEF SignalsOK, ThrottleOK
  <2>4. ASSUME c.cpu_temp.enabled PROVE c.cpu_temp.offset_c \in Nat
    <3>1. "cpu_temp" \in SubSignals
      BY DEF SubSignals
    <3>2. ~Below(c.cpu_temp.offset_c, 0)
      BY <2>1, <2>4, <3>1 DEF SignalsOK, SubSignalOK
    <3>3. c.cpu_temp.offset_c \in Int
      BY <1>8, <2>4 DEF Finite
    <3> QED BY <3>2, <3>3, OffsetServes
  <2> QED BY <1>2, <2>2, <2>3, <2>4, WeightServes DEF ServesFusion
<1> QED BY <1>4, <1>5, <1>6, <1>7, <1>8 DEF Serviceable

(* Every configuration that validate lets through, and whose numbers in    *)
(* use are finite, satisfies what the other modules assume of their        *)
(* constants.                                                              *)
THEOREM AcceptedServiceable == Spec => []AcceptedIsServiceable
<1>1. IInv => AcceptedIsServiceable
  <2> SUFFICES ASSUME IInv, pc = "load", Accepts(Loaded), Finite(Loaded)
               PROVE  Serviceable(Loaded)
    BY DEF AcceptedIsServiceable
  <2>1. file \in Files
    BY DEF IInv, TypeOK
  <2>2. WellTyped(Loaded)
    BY <2>1, FilesAssumption DEF Loaded, Accepts
  <2> QED BY <2>2, AcceptedServes
<1> QED BY <1>1, Invariance, PTL

(* What Cleaned does to each section.                                      *)
LEMMA CleanedSections ==
  ASSUME NEW c, WellTyped(c)
  PROVE  LET d == Cleaned(c)
         IN  /\ d.top = c.top /\ d.signals = c.signals
             /\ d.rgb.enabled = c.rgb.enabled
             /\ c.rgb.enabled => d.rgb = c.rgb
             /\ d.alerts.enabled = c.alerts.enabled
             /\ c.rgb.enabled /\ c.alerts.enabled => d.alerts = c.alerts
             /\ \A k \in SubSignals :
                  /\ d[k].enabled = c[k].enabled
                  /\ c.signals.enabled /\ c[k].enabled => d[k] = c[k]
             /\ d.throttle.enabled = c.throttle.enabled
             /\ c.signals.enabled /\ c.throttle.enabled => d.throttle = c.throttle
<1> DEFINE d == Cleaned(c)
           Switched == {"rgb", "alerts", "throttle"} \cup SubSignals
<1>1. DOMAIN c = {"top", "signals"} \cup Switched
  BY DEF WellTyped, Default, SubSignals
<1>2. \A s \in {"top", "signals"} \cup Switched :
        d[s] = IF Off(c, s) THEN [Default[s] EXCEPT !.enabled = c[s].enabled]
                            ELSE c[s]
  BY <1>1 DEF Cleaned
<1>3. ~Off(c, "top") /\ ~Off(c, "signals")
  BY DEF Off, SubSignals
<1>4. /\ Off(c, "rgb") <=> ~c.rgb.enabled
      /\ Off(c, "alerts") <=> ~c.rgb.enabled \/ ~c.alerts.enabled
      /\ \A s \in SubSignals \cup {"throttle"} :
           Off(c, s) <=> ~c.signals.enabled \/ ~c[s].enabled
  BY DEF Off, SubSignals
<1>5. \A s \in Switched : "enabled" \in DOMAIN Default[s]
  BY DEF Default, SubSignals, RgbDefault, AlertsDefault, ThrottleDefault, SubDefault
<1>6. \A s \in Switched : d[s].enabled = c[s].enabled
  BY <1>2, <1>5
<1> HIDE DEF d
<1>7. d.top = c.top /\ d.signals = c.signals
  BY <1>2, <1>3
<1>8. /\ c.rgb.enabled => d.rgb = c.rgb
      /\ c.rgb.enabled /\ c.alerts.enabled => d.alerts = c.alerts
  BY <1>2, <1>4
<1>9. \A s \in SubSignals \cup {"throttle"} :
        c.signals.enabled /\ c[s].enabled => d[s] = c[s]
  BY <1>2, <1>4
<1> QED BY <1>6, <1>7, <1>8, <1>9 DEF d

(* Leftovers in a section that is switched off decide nothing, in whatever *)
(* way the sections are nested.                                            *)
THEOREM LeftoversIgnored == Spec => []DisabledIgnored
<1>1. ASSUME NEW c, WellTyped(c)
      PROVE  Valid(c) <=> Valid(Cleaned(c))
  <2> DEFINE d == Cleaned(c)
  <2>1. /\ d.top = c.top /\ d.signals = c.signals
        /\ d.rgb.enabled = c.rgb.enabled
        /\ c.rgb.enabled => d.rgb = c.rgb
        /\ d.alerts.enabled = c.alerts.enabled
        /\ c.rgb.enabled /\ c.alerts.enabled => d.alerts = c.alerts
        /\ \A k \in SubSignals :
             /\ d[k].enabled = c[k].enabled
             /\ c.signals.enabled /\ c[k].enabled => d[k] = c[k]
        /\ d.throttle.enabled = c.throttle.enabled
        /\ c.signals.enabled /\ c.throttle.enabled => d.throttle = c.throttle
    BY <1>1, CleanedSections
  <2> HIDE DEF d
  <2>2. c.signals.enabled => (SignalsOK(c) <=> SignalsOK(d))
    BY <2>1 DEF SignalsOK
  <2>3. SectionsOK(c) <=> SectionsOK(d)
    BY <2>1, <2>2 DEF SectionsOK
  <2> QED BY <2>1, <2>3 DEF Valid, d
<1>2. IInv => DisabledIgnored
  <2> SUFFICES ASSUME IInv, pc = "load", Loaded # Unreadable
               PROVE  Valid(Loaded) <=> Valid(Cleaned(Loaded))
    BY DEF DisabledIgnored
  <2>1. file \in Files
    BY DEF IInv, TypeOK
  <2>2. WellTyped(Loaded)
    BY <2>1, FilesAssumption DEF Loaded
  <2> QED BY <2>2, <1>1
<1> QED BY <1>2, Invariance, PTL
=============================================================================

------------------------- MODULE AlarmLadderProofs -------------------------
(***************************************************************************)
(* The alarm ladder for every choice of dwell times, cooldown, poll        *)
(* interval and resolution of the clock.                                   *)
(***************************************************************************)
EXTENDS AlarmLadder, TLAPS

(* The seconds the machine counts never run ahead of real time, although   *)
(* every tick hands it a rounded figure.                                   *)
CountsAreReal ==
  /\ hotSecs * UnitsPerSec <= hot
  /\ clearSecs * UnitsPerSec <= quiet

(* Nor do they fall behind it by more than half: a tick takes at least a   *)
(* second and loses less than one.  A hot_secs that has saturated counts   *)
(* no more, but by then it has long passed SustainedAfter.                 *)
CountsKeepUp ==
  /\ hotSecs < SecsMax => hot <= 2 * (hotSecs * UnitsPerSec)
  /\ quiet <= 2 * (clearSecs * UnitsPerSec)

(* The inductive invariant: the types, no trigger masked, and the counters *)
(* within real time and at least half of it.  HighestActiveWins needs no   *)
(* help from the others; the bounds in real time need the counts.          *)
IInv == TypeOK /\ HighestActiveWins /\ CountsAreReal /\ CountsKeepUp

----------------------------------------------------------------------------
(* A whole number of seconds read off an interval is no more than it.      *)
LEMMA ElapsedIsReal ==
  ASSUME NEW d \in Nat
  PROVE  Elapsed(d) \in Nat /\ Elapsed(d) * UnitsPerSec <= d
<1>1. UnitsPerSec \in Nat /\ UnitsPerSec > 0
  BY AlarmAssumption
<1>2. \A u \in Nat : u > 0 => (d \div u) \in Nat /\ (d \div u) * u <= d
  OBVIOUS
<1> QED BY <1>1, <1>2 DEF Elapsed

(* Scaling seconds to units of real time keeps their order.                *)
LEMMA ScaleMonotone ==
  ASSUME NEW a \in Nat, NEW b \in Nat, NEW u \in Nat, a <= b
  PROVE  a * u <= b * u /\ a * u \in Nat /\ b * u \in Nat
<1>1. PICK c \in Nat : b = a + c
  <2>1. b - a \in Nat /\ b = a + (b - a)  OBVIOUS
  <2> QED BY <2>1
<1>2. b * u = a * u + c * u
  BY <1>1
<1>3. a * u \in Nat /\ c * u \in Nat
  BY <1>1
<1> QED BY <1>2, <1>3

(* And at least half of it, of an interval a tick can take.                *)
LEMMA HalfIsCounted ==
  ASSUME NEW d \in Intervals \cup {0}
  PROVE  d \in Nat /\ d <= 2 * (Elapsed(d) * UnitsPerSec)
<1>1. /\ UnitsPerSec \in Nat /\ UnitsPerSec > 0
      /\ d \in Nat /\ (d = 0 \/ d >= UnitsPerSec)
  BY AlarmAssumption
<1>2. PICK u \in Nat : u = UnitsPerSec
  BY <1>1
<1>3. PICK q \in Nat : /\ q = Elapsed(d)
                       /\ q * u <= d /\ d < q * u + u
  <2>1. (d \div u) \in Nat /\ (d \div u) * u <= d /\ d < (d \div u) * u + u
    BY <1>1, <1>2
  <2> QED BY <1>2, <2>1 DEF Elapsed
<1>4. CASE d = 0
  <2>1. q * u \in Nat
    OBVIOUS
  <2> QED BY <1>1, <1>2, <1>3, <1>4, <2>1
<1>5. CASE d >= u
  <2>1. q # 0
    BY <1>1, <1>3, <1>5
  <2>2. PICK r \in Nat : q = r + 1
    <3>1. q - 1 \in Nat /\ q = (q - 1) + 1
      BY <2>1
    <3> QED BY <3>1
  <2>3. q * u = r * u + u /\ r * u \in Nat
    BY <2>2
  <2>4. d <= 2 * (q * u)
    BY <1>1, <1>3, <2>3
  <2> QED BY <1>1, <1>2, <1>3, <2>4
<1> QED BY <1>1, <1>2, <1>4, <1>5

(* So adding an interval keeps a counter above half of its real time.      *)
LEMMA PlusKeepsUp ==
  ASSUME NEW secs \in Nat, NEW real \in Nat, NEW d \in Intervals \cup {0},
         real <= 2 * (secs * UnitsPerSec)
  PROVE  /\ Elapsed(d) \in Nat /\ d \in Nat
         /\ real + d <= 2 * ((secs + Elapsed(d)) * UnitsPerSec)
<1>1. /\ UnitsPerSec \in Nat /\ d \in Nat /\ Elapsed(d) \in Nat
      /\ d <= 2 * (Elapsed(d) * UnitsPerSec)
  BY AlarmAssumption, HalfIsCounted, ElapsedIsReal
<1>2. PICK e \in Nat, u \in Nat : e = Elapsed(d) /\ u = UnitsPerSec
  BY <1>1
<1>3. /\ (secs + e) * u = secs * u + e * u
      /\ secs * u \in Nat /\ e * u \in Nat
  BY <1>2
<1>4. real + d <= 2 * ((secs + e) * u)
  <2>1. real <= 2 * (secs * u) /\ d <= 2 * (e * u)
    BY <1>1, <1>2
  <2> QED BY <1>1, <1>3, <2>1
<1> QED BY <1>1, <1>2, <1>4

(* Adding an interval keeps a counter of seconds within its real time,     *)
(* saturation of either included.                                          *)
LEMMA PlusIsReal ==
  ASSUME NEW secs \in 0..SecsMax, NEW real \in 0..RealMax, NEW d \in Nat,
         secs * UnitsPerSec <= real
  PROVE  /\ Plus(secs, Elapsed(d), SecsMax) \in 0..SecsMax
         /\ Plus(real, d, RealMax) \in 0..RealMax
         /\ Plus(secs, Elapsed(d), SecsMax) * UnitsPerSec <= Plus(real, d, RealMax)
         /\ (secs + Elapsed(d)) * UnitsPerSec <= real + d
<1>1. /\ UnitsPerSec \in Nat /\ SecsMax \in Nat /\ RealMax \in Nat
      /\ SecsMax * UnitsPerSec <= RealMax
  BY AlarmAssumption
<1>2. Elapsed(d) \in Nat /\ Elapsed(d) * UnitsPerSec <= d
  BY ElapsedIsReal
<1>3. /\ Plus(secs, Elapsed(d), SecsMax) \in 0..SecsMax
      /\ Plus(secs, Elapsed(d), SecsMax) <= secs + Elapsed(d)
      /\ Plus(real, d, RealMax) \in 0..RealMax
  BY <1>1, <1>2 DEF Plus
<1>4. (secs + Elapsed(d)) * UnitsPerSec = secs * UnitsPerSec + Elapsed(d) * UnitsPerSec
  BY <1>1, <1>2
<1>5. secs * UnitsPerSec \in Int /\ Elapsed(d) * UnitsPerSec \in Int
  BY <1>1, <1>2
<1>6. (secs + Elapsed(d)) * UnitsPerSec <= real + d
  BY <1>1, <1>2, <1>4, <1>5
<1>8. /\ Plus(secs, Elapsed(d), SecsMax) * UnitsPerSec <= SecsMax * UnitsPerSec
      /\ Plus(secs, Elapsed(d), SecsMax) * UnitsPerSec <= (secs + Elapsed(d)) * UnitsPerSec
  BY <1>1, <1>2, <1>3, ScaleMonotone
<1>9. /\ Plus(secs, Elapsed(d), SecsMax) * UnitsPerSec \in Int
      /\ SecsMax * UnitsPerSec \in Int
      /\ (secs + Elapsed(d)) * UnitsPerSec \in Int
  BY <1>1, <1>2, <1>3
<1> QED BY <1>1, <1>3, <1>6, <1>8, <1>9 DEF Plus

----------------------------------------------------------------------------
(* The rung a tick's input asks for.                                       *)
Asked(in, heated) == IF in.fault THEN Fault
                     ELSE IF in.near THEN NearLimit
                     ELSE IF Sustained(heated) THEN SustainedHot ELSE Normal

Inputs == [fault : BOOLEAN, near : BOOLEAN, heat : Heat, after : Intervals \cup {0}]

(* The four ways a tick can go, told apart by where the rung asked for     *)
(* lies: the if-else chain of tick_with climbs to it, stays on it, waits   *)
(* above it, or falls to it.                                               *)
LEMMA FourWays ==
  ASSUME NEW in \in Inputs, NEW heated \in Nat, NEW secs \in Nat,
         state \in Normal..Fault,
         \/ Escalate(in, heated)
         \/ /\ ~Escalating(in, heated)
            /\ \/ Persist(in, heated, secs)
               \/ CoolDown(in, heated, secs)
               \/ StandDown(in, heated, secs)
  PROVE  \/ /\ state < Asked(in, heated) /\ EnterState(Asked(in, heated))
         \/ /\ state = Asked(in, heated) /\ StillHolds(in, heated)
            /\ Persist(in, heated, secs)
         \/ /\ state > Asked(in, heated) /\ ~StillHolds(in, heated)
            /\ CoolDown(in, heated, secs)
         \/ /\ state > Asked(in, heated)
            /\ Plus(clearSecs, secs, SecsMax) >= Cooldown
            /\ EnterState(Asked(in, heated))
<1>1. SustainedAfter \in Nat
  BY AlarmAssumption
<1>2. state \in 0..3
  BY DEF Normal, Fault
<1>3. /\ in.fault \in BOOLEAN /\ in.near \in BOOLEAN
      /\ Sustained(heated) \in BOOLEAN
  BY <1>1 DEF Inputs, Sustained
<1>4. Escalating(in, heated) <=> state < Asked(in, heated)
  BY <1>2, <1>3 DEF Escalating, ToFault, ToNearLimit, ToSustained, Asked,
                    Fault, NearLimit, SustainedHot, Normal
<1>5. ASSUME ~Escalating(in, heated)
      PROVE  StillHolds(in, heated) <=> state = Asked(in, heated)
  BY <1>2, <1>3, <1>5 DEF Escalating, ToFault, ToNearLimit, ToSustained, Asked,
                    StillHolds, Fault, NearLimit, SustainedHot, Normal
<1>6. Asked(in, heated) \in 0..3
  BY DEF Asked, Fault, NearLimit, SustainedHot, Normal
<1>7. CASE Escalate(in, heated)
  <2>1. EnterState(Asked(in, heated)) /\ Escalating(in, heated)
    BY <1>2, <1>3, <1>7 DEF Escalate, Escalating, ToFault, ToNearLimit,
         ToSustained, Asked, Fault, NearLimit, SustainedHot, Normal
  <2> QED BY <1>4, <2>1
<1>8. CASE ~Escalating(in, heated) /\ Persist(in, heated, secs)
  BY <1>5, <1>8 DEF Persist
<1>9. CASE ~Escalating(in, heated) /\ CoolDown(in, heated, secs)
  BY <1>2, <1>4, <1>5, <1>6, <1>9 DEF CoolDown
<1>10. CASE ~Escalating(in, heated) /\ StandDown(in, heated, secs)
  <2>1. state > Asked(in, heated)
    BY <1>2, <1>4, <1>5, <1>6, <1>10 DEF StandDown
  <2>2. (IF state > NearLimit /\ in.near THEN NearLimit
         ELSE IF state > SustainedHot /\ Sustained(heated)
              THEN SustainedHot ELSE Normal) = Asked(in, heated)
    BY <1>2, <1>3, <2>1 DEF Asked, Fault, NearLimit, SustainedHot, Normal
  <2> QED BY <1>10, <2>1, <2>2 DEF StandDown
<1> QED BY <1>7, <1>8, <1>9, <1>10

----------------------------------------------------------------------------
(* One tick, from any state of the inductive invariant: what it is told,   *)
(* how the hot counters move, and which of the four ways it goes.          *)
LEMMA TickGoes ==
  ASSUME IInv, Next
  PROVE  /\ input' \in Inputs /\ input'.after \in Nat
         /\ hotSecs' \in 0..SecsMax /\ hot' \in 0..RealMax
         /\ hotSecs' * UnitsPerSec <= hot'
         /\ hotSecs' < SecsMax => hot' <= 2 * (hotSecs' * UnitsPerSec)
         /\ ticking' = TRUE
         /\ Wanted' = Asked(input', hotSecs')
         /\ quiet' = IF state' # state \/ StillHolds(input', hotSecs') THEN 0
                     ELSE Plus(quiet, input'.after, RealMax)
         /\ LET secs == Elapsed(input'.after)
            IN  \/ state < Wanted' /\ EnterState(Wanted')
                \/ /\ state = Wanted' /\ StillHolds(input', hotSecs')
                   /\ Persist(input', hotSecs', secs)
                \/ /\ state > Wanted' /\ ~StillHolds(input', hotSecs')
                   /\ CoolDown(input', hotSecs', secs)
                \/ /\ state > Wanted'
                   /\ Plus(clearSecs, secs, SecsMax) >= Cooldown
                   /\ EnterState(Wanted')
<1>1. PICK fault \in BOOLEAN, near \in BOOLEAN, heat \in Heat :
        Tick(fault, near, heat)
  BY DEF Next
<1>2. PICK d \in Intervals \cup {0} :
        LET in == [fault |-> fault, near |-> near, heat |-> heat, after |-> d]
        IN  /\ TickWith(in, Elapsed(d))
            /\ ticking' = TRUE
            /\ input' = in
            /\ hot' = CASE heat = "hot"     -> Plus(hot, d, RealMax)
                        [] heat = "cool"    -> 0
                        [] heat = "unknown" -> hot
            /\ quiet' = IF state' # state \/ StillHolds(in, hotSecs') THEN 0
                        ELSE Plus(quiet, d, RealMax)
  BY <1>1 DEF Tick
<1>3. d \in Nat
  BY AlarmAssumption
<1>4. /\ input' = [fault |-> fault, near |-> near, heat |-> heat, after |-> d]
      /\ input' \in Inputs /\ input'.after = d /\ input'.heat = heat
  BY <1>2 DEF Inputs
<1>5. /\ hotSecs \in 0..SecsMax /\ hot \in 0..RealMax
      /\ hotSecs * UnitsPerSec <= hot
      /\ hotSecs < SecsMax => hot <= 2 * (hotSecs * UnitsPerSec)
      /\ state \in Normal..Fault
  BY DEF IInv, TypeOK, CountsAreReal, CountsKeepUp
<1>6. hotSecs' = Heated(input', Elapsed(d))
  BY <1>2, <1>4 DEF TickWith
<1>7. /\ hotSecs' \in 0..SecsMax /\ hot' \in 0..RealMax
      /\ hotSecs' * UnitsPerSec <= hot'
  <2>1. CASE heat = "hot"
    <3>1. /\ hotSecs' = Plus(hotSecs, Elapsed(d), SecsMax)
          /\ hot' = Plus(hot, d, RealMax)
      BY <1>2, <1>4, <1>6, <2>1 DEF Heated
    <3> QED BY <1>3, <1>5, <3>1, PlusIsReal
  <2>2. CASE heat = "cool"
    <3>1. hotSecs' = 0 /\ hot' = 0
      BY <1>2, <1>4, <1>6, <2>2 DEF Heated
    <3> QED BY <3>1, AlarmAssumption
  <2>3. CASE heat = "unknown"
    <3>1. hotSecs' = hotSecs /\ hot' = hot
      BY <1>2, <1>4, <1>6, <2>3 DEF Heated
    <3> QED BY <1>5, <3>1
  <2> QED BY <2>1, <2>2, <2>3 DEF Heat
<1>11. hotSecs' < SecsMax => hot' <= 2 * (hotSecs' * UnitsPerSec)
  <2> SUFFICES ASSUME hotSecs' < SecsMax
               PROVE  hot' <= 2 * (hotSecs' * UnitsPerSec)
    OBVIOUS
  <2>1. CASE heat = "hot"
    <3>1. /\ hotSecs' = Plus(hotSecs, Elapsed(d), SecsMax)
          /\ hot' = Plus(hot, d, RealMax)
      BY <1>2, <1>4, <1>6, <2>1 DEF Heated
    <3>2. Elapsed(d) \in Nat /\ SecsMax \in Nat /\ RealMax \in Nat
      BY <1>3, ElapsedIsReal, AlarmAssumption
    <3>3. hotSecs < SecsMax /\ hotSecs' = hotSecs + Elapsed(d)
      BY <1>5, <3>1, <3>2 DEF Plus
    <3>4. hot + d <= 2 * ((hotSecs + Elapsed(d)) * UnitsPerSec)
      BY <1>5, <3>3, PlusKeepsUp
    <3>5. hot' <= hot + d
      BY <1>3, <1>5, <3>1, <3>2 DEF Plus
    <3>6. hot + d <= 2 * (hotSecs' * UnitsPerSec)
      BY <3>3, <3>4
    <3>7. 2 * (hotSecs' * UnitsPerSec) \in Int
      BY <1>7, AlarmAssumption
    <3> QED BY <1>3, <1>5, <1>7, <3>5, <3>6, <3>7
  <2>2. CASE heat = "cool"
    <3>1. hotSecs' = 0 /\ hot' = 0
      BY <1>2, <1>4, <1>6, <2>2 DEF Heated
    <3> QED BY <3>1, AlarmAssumption
  <2>3. CASE heat = "unknown"
    <3>1. hotSecs' = hotSecs /\ hot' = hot
      BY <1>2, <1>4, <1>6, <2>3 DEF Heated
    <3> QED BY <1>5, <3>1
  <2> QED BY <2>1, <2>2, <2>3 DEF Heat
<1>8. Wanted' = Asked(input', hotSecs')
  BY DEF Wanted, Asked, Sustained
<1>9. Elapsed(d) \in Nat /\ hotSecs' \in Nat
  BY <1>3, <1>7, ElapsedIsReal
<1>10. \/ Escalate(input', hotSecs')
       \/ /\ ~Escalating(input', hotSecs')
          /\ \/ Persist(input', hotSecs', Elapsed(d))
             \/ CoolDown(input', hotSecs', Elapsed(d))
             \/ StandDown(input', hotSecs', Elapsed(d))
  BY <1>2, <1>4, <1>6 DEF TickWith
<1> QED BY <1>2, <1>3, <1>4, <1>5, <1>7, <1>8, <1>9, <1>10, <1>11, FourWays

(* While a rung cools down, the time since its trigger was last seen true  *)
(* is exactly the sum of the intervals, and less than twice the cooldown.  *)
LEMMA CoolingIsTimed ==
  ASSUME IInv, NEW d \in Intervals \cup {0},
         Plus(clearSecs, Elapsed(d), SecsMax) < Cooldown
  PROVE  /\ Plus(clearSecs, Elapsed(d), SecsMax) = clearSecs + Elapsed(d)
         /\ Plus(quiet, d, RealMax) = quiet + d
         /\ quiet + d <= 2 * ((clearSecs + Elapsed(d)) * UnitsPerSec)
         /\ quiet + d < 2 * Cooldown * UnitsPerSec
<1>1. /\ clearSecs \in Nat /\ quiet \in Nat
      /\ quiet <= 2 * (clearSecs * UnitsPerSec)
      /\ SecsMax \in Nat /\ SecsMax >= Cooldown /\ Cooldown \in Nat /\ Cooldown > 0
      /\ UnitsPerSec \in Nat /\ UnitsPerSec > 0
      /\ RealMax \in Nat /\ RealMax >= 2 * Cooldown * UnitsPerSec
  BY AlarmAssumption DEF IInv, TypeOK, CountsKeepUp
<1>2. /\ Elapsed(d) \in Nat /\ d \in Nat
      /\ quiet + d <= 2 * ((clearSecs + Elapsed(d)) * UnitsPerSec)
  BY <1>1, PlusKeepsUp
<1>3. /\ Plus(clearSecs, Elapsed(d), SecsMax) = clearSecs + Elapsed(d)
      /\ clearSecs + Elapsed(d) < Cooldown
  BY <1>1, <1>2 DEF Plus
<1>4. quiet + d < 2 * Cooldown * UnitsPerSec
  <2>1. PICK s \in Nat, u \in Nat : s = clearSecs + Elapsed(d) /\ u = UnitsPerSec
    BY <1>1, <1>2
  <2>2. PICK r \in Nat : Cooldown = s + (r + 1)
    <3>1. Cooldown - s - 1 \in Nat /\ Cooldown = s + ((Cooldown - s - 1) + 1)
      BY <1>1, <1>3, <2>1
    <3> QED BY <3>1
  <2>3. /\ 2 * Cooldown * u = 2 * (s * u) + 2 * (r * u) + 2 * u
        /\ s * u \in Nat /\ r * u \in Nat
    BY <2>2
  <2> QED BY <1>1, <1>2, <2>1, <2>3
<1>5. 2 * Cooldown * UnitsPerSec \in Nat
  BY <1>1
<1> QED BY <1>1, <1>2, <1>3, <1>4, <1>5 DEF Plus

LEMMA TickPreserves ==
  ASSUME IInv, Next
  PROVE  IInv'
<1> DEFINE secs == Elapsed(input'.after)
<1>1. /\ SecsMax \in Nat /\ RealMax \in Nat /\ UnitsPerSec \in Nat
      /\ Cooldown \in Nat /\ Cooldown > 0
  BY AlarmAssumption
<1>2. /\ state \in 0..3 /\ Wanted' \in 0..3
      /\ inStateSecs \in 0..SecsMax
      /\ clearSecs \in 0..(Cooldown - 1) /\ clearSecs \in 0..SecsMax
      /\ quiet \in 0..RealMax /\ clearSecs * UnitsPerSec <= quiet
  BY AlarmAssumption DEF IInv, TypeOK, CountsAreReal, Wanted, Normal,
     SustainedHot, NearLimit, Fault
<1>3. /\ input' \in Inputs /\ input'.after \in Nat
      /\ hotSecs' \in 0..SecsMax /\ hot' \in 0..RealMax
      /\ hotSecs' * UnitsPerSec <= hot'
      /\ hotSecs' < SecsMax => hot' <= 2 * (hotSecs' * UnitsPerSec)
      /\ ticking' = TRUE
      /\ input'.after \in Intervals \cup {0}
  BY TickGoes DEF Inputs
<1>4. /\ secs \in Nat
      /\ Plus(inStateSecs, secs, SecsMax) \in 0..SecsMax
      /\ Plus(clearSecs, secs, SecsMax) \in 0..SecsMax
      /\ Plus(quiet, input'.after, RealMax) \in 0..RealMax
      /\ Plus(clearSecs, secs, SecsMax) * UnitsPerSec
           <= Plus(quiet, input'.after, RealMax)
  <2>1. secs \in Nat
    BY <1>3, ElapsedIsReal
  <2>2. Plus(inStateSecs, secs, SecsMax) \in 0..SecsMax
    BY <1>1, <1>2, <2>1 DEF Plus
  <2> QED BY <1>2, <1>3, <2>1, <2>2, PlusIsReal
<1> HIDE DEF secs
<1>5. /\ state' \in 0..3 /\ state' >= Wanted'
      /\ inStateSecs' \in 0..SecsMax
      /\ clearSecs' \in 0..(Cooldown - 1)
      /\ quiet' \in 0..RealMax
      /\ clearSecs' * UnitsPerSec <= quiet'
      /\ quiet' <= 2 * (clearSecs' * UnitsPerSec)
  <2> DEFINE holds == StillHolds(input', hotSecs')
  <2>0. quiet' = IF state' # state \/ holds THEN 0
                 ELSE Plus(quiet, input'.after, RealMax)
    BY TickGoes
  <2>1. CASE state # Wanted' /\ EnterState(Wanted')
    BY <1>1, <1>2, <1>4, <2>0, <2>1 DEF EnterState
  <2>2. CASE state = Wanted' /\ holds /\ Persist(input', hotSecs', secs)
    BY <1>1, <1>2, <1>4, <2>0, <2>2 DEF Persist
  <2>3. CASE state > Wanted' /\ ~holds /\ CoolDown(input', hotSecs', secs)
    <3>1. Plus(clearSecs, secs, SecsMax) < Cooldown
      BY <2>3 DEF CoolDown
    <3>2. Plus(quiet, input'.after, RealMax)
            <= 2 * (Plus(clearSecs, secs, SecsMax) * UnitsPerSec)
      BY <1>3, <3>1, CoolingIsTimed DEF secs
    <3> QED BY <1>1, <1>2, <1>4, <2>0, <2>3, <3>1, <3>2 DEF CoolDown
  <2> QED BY <1>2, <2>1, <2>2, <2>3, TickGoes DEF secs
<1> QED BY <1>3, <1>5 DEF IInv, TypeOK, HighestActiveWins, CountsAreReal,
           CountsKeepUp, Inputs, Normal, Fault

LEMMA Invariance == Spec => []IInv
<1>1. Init => IInv
  <2> SUFFICES ASSUME Init PROVE IInv
    OBVIOUS
  <2>1. /\ SustainedAfter \in Nat /\ SustainedAfter > 0 /\ Cooldown \in Nat
        /\ Cooldown > 0 /\ SecsMax \in Nat /\ RealMax \in Nat /\ UnitsPerSec \in Nat
    BY AlarmAssumption
  <2>2. TypeOK
    <3>1. input \in [fault : BOOLEAN, near : BOOLEAN, heat : Heat,
                     after : Intervals \cup {0}]
      BY DEF Init, Heat
    <3>2. state \in Normal..Fault
      BY DEF Init, Normal, Fault
    <3>4. ticking \in BOOLEAN
      BY DEF Init
    <3>3. /\ hotSecs \in 0..SecsMax /\ inStateSecs \in 0..SecsMax
          /\ clearSecs \in 0..(Cooldown - 1)
          /\ quiet \in 0..RealMax /\ hot \in 0..RealMax
      BY <2>1 DEF Init
    <3> QED BY <3>1, <3>2, <3>3, <3>4 DEF TypeOK
  <2>3. Wanted = Normal
    BY <2>1 DEF Init, Wanted, Sustained
  <2>4. HighestActiveWins
    BY <2>3 DEF Init, HighestActiveWins, Normal
  <2>5. CountsAreReal
    BY <2>1 DEF Init, CountsAreReal
  <2>6. CountsKeepUp
    BY <2>1 DEF Init, CountsKeepUp
  <2> QED BY <2>2, <2>4, <2>5, <2>6 DEF IInv
<1>2. IInv /\ [Next]_vars => IInv'
  <2> SUFFICES ASSUME IInv, [Next]_vars PROVE IInv'
    OBVIOUS
  <2>1. CASE Next
    BY <2>1, TickPreserves
  <2>2. CASE UNCHANGED vars
    BY <2>2 DEF vars, IInv, TypeOK, HighestActiveWins, Wanted, CountsAreReal,
                CountsKeepUp, Sustained
  <2> QED BY <2>1, <2>2
<1> QED BY <1>1, <1>2, PTL DEF Spec

(* The rung is a rung, the counters stay in range and clear_secs never     *)
(* reaches the cooldown it waits for.                                      *)
THEOREM TypeCorrect == Spec => []TypeOK
<1>1. IInv => TypeOK
  BY DEF IInv
<1> QED BY <1>1, Invariance, PTL

(* No trigger is ever masked by a rung that is cooling down or by the      *)
(* order in which rungs were climbed and left.                             *)
THEOREM HighestWins == Spec => []HighestActiveWins
<1>1. IInv => HighestActiveWins
  BY DEF IInv
<1> QED BY <1>1, Invariance, PTL

(* The ladder implements PriorityLadder: no rung is left before its        *)
(* trigger has been clear for Cooldown seconds of real time, none is kept  *)
(* for twice that, and every climb and fall lands on the highest active    *)
(* rung.                                                                   *)
THEOREM LadderImplemented == Spec => ImplementsPriorityLadder
<1>1. Init => Priority!LadderInit
  <2> SUFFICES ASSUME Init PROVE Priority!LadderInit
    OBVIOUS
  <2>1. Wanted = Normal
    BY AlarmAssumption DEF Init, Wanted, Sustained
  <2> QED BY <2>1 DEF Init, Priority!LadderInit, Normal
<1>2. IInv /\ [Next]_vars => [Priority!LadderNext]_(Priority!ladder)
  <2> SUFFICES ASSUME IInv, [Next]_vars
               PROVE  Priority!LadderNext \/ UNCHANGED Priority!ladder
    OBVIOUS
  <2>1. CASE Next
    <3> DEFINE secs  == Elapsed(input'.after)
               holds == StillHolds(input', hotSecs')
    <3>1. /\ input'.after \in Nat
          /\ quiet' = IF state' # state \/ holds THEN 0
                      ELSE Plus(quiet, input'.after, RealMax)
      BY <2>1, TickGoes
    <3>2. /\ state \in 0..3 /\ Wanted' \in 0..Fault
          /\ quiet \in 0..RealMax /\ RealMax \in Nat
          /\ clearSecs \in 0..(Cooldown - 1) /\ Cooldown \in Nat
          /\ clearSecs \in 0..SecsMax
          /\ clearSecs * UnitsPerSec <= quiet
          /\ UnitsPerSec \in Nat /\ SecsMax \in Nat
      BY AlarmAssumption DEF IInv, TypeOK, CountsAreReal, Wanted, Normal,
         SustainedHot, NearLimit, Fault
    <3>3. /\ secs \in Nat
          /\ (clearSecs + secs) * UnitsPerSec <= quiet + input'.after
      BY <3>1, <3>2, ElapsedIsReal, PlusIsReal
    <3> HIDE DEF secs, holds
    <3>4. CASE state < Wanted' /\ EnterState(Wanted')
      BY <3>1, <3>2, <3>4 DEF EnterState, Priority!Climb, Priority!LadderNext
    <3>5. CASE state = Wanted' /\ holds /\ Persist(input', hotSecs', secs)
      <4>1. 0 < 2 * Cooldown * UnitsPerSec
        <5>1. Cooldown > 0 /\ UnitsPerSec > 0
          BY AlarmAssumption
        <5> QED BY <3>2, <5>1
      <4> QED BY <3>1, <3>2, <3>5, <4>1 DEF Persist, Priority!Keep, Priority!LadderNext
    <3>6. CASE state > Wanted' /\ ~holds /\ CoolDown(input', hotSecs', secs)
      <4>1. input'.after \in Intervals \cup {0}
        BY <2>1, TickGoes DEF Inputs
      <4>2. /\ quiet' = quiet + input'.after
            /\ quiet' < 2 * Cooldown * UnitsPerSec
            /\ state' = state
        BY <3>1, <3>6, <4>1, CoolingIsTimed DEF CoolDown, secs
      <4> QED BY <3>1, <3>2, <3>6, <4>2 DEF Priority!Keep, Priority!LadderNext
    <3>7. CASE /\ state > Wanted'
               /\ Plus(clearSecs, secs, SecsMax) >= Cooldown
               /\ EnterState(Wanted')
      <4>1. Cooldown <= clearSecs + secs
        BY <3>2, <3>3, <3>7 DEF Plus
      <4>3. Cooldown * UnitsPerSec <= (clearSecs + secs) * UnitsPerSec
        BY <3>2, <3>3, <4>1, ScaleMonotone
      <4>4. /\ Cooldown * UnitsPerSec \in Int
            /\ (clearSecs + secs) * UnitsPerSec \in Int
        BY <3>2, <3>3
      <4>5. quiet + input'.after >= Cooldown * UnitsPerSec
        BY <3>1, <3>2, <3>3, <4>3, <4>4
      <4>6. state' = Wanted' /\ quiet' = 0
        BY <3>1, <3>2, <3>7 DEF EnterState
      <4> QED BY <3>1, <3>2, <3>7, <4>5, <4>6 DEF Priority!Fall, Priority!LadderNext
    <3> QED BY <2>1, <3>4, <3>5, <3>6, <3>7, TickGoes DEF secs, holds
  <2>2. CASE UNCHANGED vars
    BY <2>2 DEF vars, Priority!ladder, Wanted, Sustained
  <2> QED BY <2>1, <2>2
<1> QED BY <1>1, <1>2, Invariance, PTL
       DEF Spec, ImplementsPriorityLadder, Priority!LadderSpec

(* SustainedHot is entered only after SustainedAfter seconds of real heat. *)
THEOREM SustainedIsReal == Spec => NoEarlySustained
<1> DEFINE Earned == (state # SustainedHot /\ state' = SustainedHot)
                       => hot' >= SustainedAfter * UnitsPerSec
<1>1. IInv /\ [Next]_vars => [Earned]_vars
  <2> SUFFICES ASSUME IInv, Next, state # SustainedHot, state' = SustainedHot
               PROVE  hot' >= SustainedAfter * UnitsPerSec
    OBVIOUS
  <2>1. Wanted' = SustainedHot
    BY TickGoes DEF EnterState, Persist, CoolDown
  <2>2. hotSecs' >= SustainedAfter
    BY <2>1 DEF Wanted, Sustained, Fault, NearLimit, SustainedHot, Normal
  <2>3. /\ hotSecs' \in Nat /\ SustainedAfter \in Nat /\ UnitsPerSec \in Nat
        /\ hot' \in Nat /\ hotSecs' * UnitsPerSec <= hot'
    BY TickGoes, AlarmAssumption
  <2>4. PICK secs \in Nat, real \in Nat : secs = hotSecs' /\ real = hot'
    BY <2>3
  <2>5. /\ SustainedAfter * UnitsPerSec <= secs * UnitsPerSec
        /\ SustainedAfter * UnitsPerSec \in Nat /\ secs * UnitsPerSec \in Nat
    BY <2>2, <2>3, <2>4, ScaleMonotone
  <2>6. secs * UnitsPerSec <= real
    BY <2>3, <2>4
  <2>7. SustainedAfter * UnitsPerSec <= real
    BY <2>5, <2>6
  <2> QED BY <2>4, <2>7, <2>3
<1> QED BY <1>1, Invariance, PTL DEF Spec, NoEarlySustained

(* Nor later than after twice that: by then hot_secs has reached           *)
(* SustainedAfter, and no trigger is masked.                               *)
THEOREM SustainedInTime == Spec => []NoLateSustained
<1>1. IInv => NoLateSustained
  <2> SUFFICES ASSUME IInv, hot >= 2 * SustainedAfter * UnitsPerSec
               PROVE  state >= SustainedHot
    BY DEF NoLateSustained
  <2>1. /\ SustainedAfter \in Nat /\ SecsMax \in Nat /\ SecsMax >= SustainedAfter
        /\ UnitsPerSec \in Nat /\ UnitsPerSec > 0
        /\ hotSecs \in 0..SecsMax /\ hot \in Nat
        /\ state \in 0..3 /\ state >= Wanted
        /\ hotSecs < SecsMax => hot <= 2 * (hotSecs * UnitsPerSec)
    BY AlarmAssumption
       DEF IInv, TypeOK, HighestActiveWins, CountsKeepUp, Normal, Fault
  <2>2. hotSecs >= SustainedAfter
    <3> SUFFICES ASSUME hotSecs < SustainedAfter PROVE FALSE
      BY <2>1
    <3>1. PICK u \in Nat, h \in Nat : u = UnitsPerSec /\ h = hotSecs /\ u > 0
      BY <2>1
    <3>2. PICK r \in Nat : SustainedAfter = h + (r + 1)
      <4>1. /\ SustainedAfter - h - 1 \in Nat
            /\ SustainedAfter = h + ((SustainedAfter - h - 1) + 1)
        BY <2>1, <3>1
      <4> QED BY <4>1
    <3>3. /\ 2 * SustainedAfter * u = 2 * (h * u) + 2 * (r * u) + 2 * u
          /\ h * u \in Nat /\ r * u \in Nat
      BY <3>2
    <3>4. hot <= 2 * (h * u)
      BY <2>1, <3>1
    <3>5. hot >= 2 * SustainedAfter * u
      BY <3>1
    <3> QED BY <2>1, <3>1, <3>3, <3>4, <3>5
  <2>3. Wanted >= 1
    BY <2>2 DEF Wanted, Sustained, Fault, NearLimit, SustainedHot
  <2>4. Wanted \in 0..3
    BY DEF Wanted, Fault, NearLimit, SustainedHot, Normal
  <2> QED BY <2>1, <2>3, <2>4 DEF SustainedHot
<1> QED BY <1>1, Invariance, PTL

(* The safety half of StandsDown, as a ranking: with calm inputs a rung    *)
(* above Normal is either left for Normal or one whole second or more      *)
(* nearer to the end of its cooldown, and no rung is climbed.  clear_secs  *)
(* stays below Cooldown, so Cooldown such ticks are enough.                *)
CalmInput == ~input.fault /\ ~input.near /\ input.heat = "cool"

EachCalmTickCounts ==
  [][(ticking /\ CalmInput')
       => \/ state' = Normal
          \/ state' = state /\ clearSecs' >= clearSecs + 1]_vars

THEOREM CalmTicksCount == Spec => EachCalmTickCounts
<1> DEFINE Counts == (ticking /\ CalmInput')
                       => \/ state' = Normal
                          \/ state' = state /\ clearSecs' >= clearSecs + 1
<1>1. IInv /\ [Next]_vars => [Counts]_vars
  <2> SUFFICES ASSUME IInv, Next, ticking, CalmInput', state' # Normal
               PROVE  state' = state /\ clearSecs' >= clearSecs + 1
    OBVIOUS
  <2>1. Wanted' = Normal
    <3>1. hotSecs' = 0
      BY DEF Next, Tick, TickWith, Heated, CalmInput
    <3>2. ~Sustained(hotSecs')
      BY <3>1, AlarmAssumption DEF Sustained
    <3> QED BY <3>2 DEF CalmInput, Wanted, Sustained
  <2>2. input'.after \in Intervals
    BY DEF Next, Tick
  <2>3. /\ input'.after \in Nat /\ input'.after >= UnitsPerSec
        /\ UnitsPerSec \in Nat /\ UnitsPerSec > 0
    BY <2>2, AlarmAssumption
  <2>4. Elapsed(input'.after) \in Nat /\ Elapsed(input'.after) >= 1
    <3>1. Elapsed(input'.after) \in Nat
      BY <2>3, ElapsedIsReal
    <3>2. input'.after <= 2 * (Elapsed(input'.after) * UnitsPerSec)
      BY <2>2, HalfIsCounted
    <3>3. Elapsed(input'.after) # 0
      <4> SUFFICES ASSUME Elapsed(input'.after) = 0 PROVE FALSE
        OBVIOUS
      <4>1. Elapsed(input'.after) * UnitsPerSec = 0
        BY <2>3
      <4> QED BY <2>3, <3>2, <4>1
    <3> QED BY <3>1, <3>3
  <2>5. state \in 0..3
    BY DEF IInv, TypeOK, Normal, Fault
  <2>6. /\ state > Wanted'
        /\ CoolDown(input', hotSecs', Elapsed(input'.after))
    <3>1. ~EnterState(Wanted')
      BY <2>1 DEF EnterState
    <3>2. CASE state = Wanted' /\ Persist(input', hotSecs', Elapsed(input'.after))
      BY <2>1, <3>2 DEF Persist
    <3> QED BY <3>1, <3>2, TickGoes
  <2>7. Plus(clearSecs, Elapsed(input'.after), SecsMax)
          = clearSecs + Elapsed(input'.after)
    BY <2>2, <2>6, CoolingIsTimed DEF CoolDown
  <2>8. clearSecs \in Nat
    BY AlarmAssumption DEF IInv, TypeOK
  <2> QED BY <2>4, <2>6, <2>7, <2>8 DEF CoolDown
<1> QED BY <1>1, Invariance, PTL DEF Spec, EachCalmTickCounts

(* More seconds make no fewer steps.                                       *)
LEMMA DivMonotone ==
  ASSUME NEW a \in Nat, NEW b \in Nat, NEW d \in Nat, d > 0, a <= b
  PROVE  /\ a \div d \in Nat /\ b \div d \in Nat
         /\ a \div d <= b \div d
<1> DEFINE p == a \div d
           q == b \div d
<1>1. p \in Nat /\ d * p <= a
  OBVIOUS
<1>2. q \in Nat /\ b < d * (q + 1)
  OBVIOUS
<1> HIDE DEF p, q
<1>3. p <= q
  <2>1. SUFFICES ASSUME q + 1 <= p PROVE FALSE
    BY <1>1, <1>2
  <2>2. PICK r \in Nat : p = (q + 1) + r
    <3>1. p - (q + 1) \in Nat /\ p = (q + 1) + (p - (q + 1))
      BY <1>1, <1>2, <2>1
    <3> QED BY <3>1
  <2>3. d * p = d * (q + 1) + d * r /\ d * r \in Nat /\ d * (q + 1) \in Nat
    BY <1>2, <2>2
  <2> QED BY <1>1, <1>2, <2>3
<1> QED BY <1>1, <1>2, <1>3 DEF p, q

(* The NearLimit pulse never slows down within one stay: the dwell goes on *)
(* counting when the trigger clears for less than the cooldown.            *)
THEOREM PulseOnlySpeedsUp == Spec => PulseNeverSlows
<1> DEFINE Faster == (state = NearLimit /\ state' = NearLimit)
                       => PulseSpeed' >= PulseSpeed
<1>1. IInv /\ [Next]_vars => [Faster]_vars
  <2> SUFFICES ASSUME IInv, Next, state = NearLimit, state' = NearLimit
               PROVE  PulseSpeed' >= PulseSpeed
    OBVIOUS
  <2> DEFINE secs == Elapsed(input'.after)
  <2>1. inStateSecs' = Plus(inStateSecs, secs, SecsMax)
    <3>1. state = 2 /\ state' = 2
      BY DEF NearLimit
    <3>2. ~(state < Wanted' /\ state' = Wanted') /\ ~(state > Wanted' /\ state' = Wanted')
      BY <3>1
    <3> QED BY <3>2, TickGoes DEF EnterState, Persist, CoolDown
  <2>2. /\ inStateSecs \in 0..SecsMax /\ SecsMax \in Nat
        /\ EscalateEvery \in Nat /\ EscalateEvery > 0
    BY AlarmAssumption DEF IInv, TypeOK
  <2>3. secs \in Nat
    BY TickGoes, ElapsedIsReal
  <2> HIDE DEF secs
  <2>4. inStateSecs' \in Nat /\ inStateSecs <= inStateSecs'
    BY <2>1, <2>2, <2>3 DEF Plus
  <2>5. /\ inStateSecs \div EscalateEvery \in Nat
        /\ inStateSecs' \div EscalateEvery \in Nat
        /\ inStateSecs \div EscalateEvery <= inStateSecs' \div EscalateEvery
    <3>1. inStateSecs \in Nat /\ EscalateEvery \in Nat
      BY <2>2
    <3> QED BY <2>2, <2>4, <3>1, DivMonotone, Zenon
  <2>6. PICK p \in Nat, q \in Nat :
          /\ p = inStateSecs \div EscalateEvery
          /\ q = inStateSecs' \div EscalateEvery
    BY <2>5
  <2>7. p <= q
    BY <2>5, <2>6
  <2>8. /\ PulseSpeed = IF 1 + p < 4 THEN 1 + p ELSE 4
        /\ PulseSpeed' = IF 1 + q < 4 THEN 1 + q ELSE 4
    BY <2>6 DEF PulseSpeed
  <2> QED BY <2>7, <2>8
<1> QED BY <1>1, Invariance, PTL DEF Spec, PulseNeverSlows
=============================================================================

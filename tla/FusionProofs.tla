---------------------------- MODULE FusionProofs ----------------------------
(***************************************************************************)
(* The fusion arm for every choice of signals, curves, weights, hold time  *)
(* and tick lengths.                                                       *)
(***************************************************************************)
EXTENDS Fusion, CurveProofs

(* Rounding down between two bounds stays between them.                    *)
LEMMA DivBetween ==
  ASSUME NEW n \in Int, NEW d \in Nat \ {0}, NEW lo \in Int, NEW hi \in Int,
         d * lo <= n, n <= d * hi
  PROVE  n \div d \in Int /\ lo <= n \div d /\ n \div d <= hi
<1> DEFINE q == n \div d
<1>1. q \in Int /\ d * q <= n /\ n < d * (q + 1)
  OBVIOUS
<1> HIDE DEF q
<1>2. lo <= q
  <2>1. SUFFICES ASSUME q + 1 <= lo PROVE FALSE  BY <1>1
  <2>2. d * (q + 1) <= d * lo  BY <1>1, <2>1
  <2> QED BY <1>1, <2>2
<1>3. q <= hi
  <2>1. SUFFICES ASSUME hi + 1 <= q PROVE FALSE  BY <1>1
  <2>2. d * (hi + 1) <= d * q  BY <1>1, <2>1
  <2> QED BY <1>1, <2>2
<1> QED BY <1>1, <1>2, <1>3 DEF q

(* A smoothed value is no lower than both the value before and the sample, *)
(* and no higher.                                                          *)
LEMMA EwmaBetween ==
  ASSUME NEW prev \in Int, NEW s \in Int, NEW w \in 1..Whole,
         NEW lo \in Int, NEW hi \in Int,
         lo <= prev, prev <= hi, lo <= s, s <= hi
  PROVE  Ewma(prev, s, w) \in Int /\ lo <= Ewma(prev, s, w) /\ Ewma(prev, s, w) <= hi
<1>1. Whole \in Nat \ {0}
  BY FusionAssumption DEF FusionAssumption
<1>2. PICK v \in Nat : Whole = w + v
  <2>1. Whole - w \in Nat /\ Whole = w + (Whole - w)  BY <1>1
  <2> QED BY <2>1
<1>3. w \in Nat
  OBVIOUS
<1> DEFINE n == w * s + (Whole - w) * prev
<1>4. n = w * s + v * prev
  BY <1>2, <1>3
<1>5. w * lo <= w * s /\ w * s <= w * hi
  BY <1>3
<1>6. v * lo <= v * prev /\ v * prev <= v * hi
  BY <1>2
<1>7. Whole * lo = w * lo + v * lo /\ Whole * hi = w * hi + v * hi
  BY <1>2, <1>3
<1>8. /\ w * lo \in Int /\ w * s \in Int /\ w * hi \in Int
      /\ v * lo \in Int /\ v * prev \in Int /\ v * hi \in Int
  BY <1>2, <1>3
<1>9. n \in Int /\ Whole * lo <= n /\ n <= Whole * hi
  BY <1>4, <1>5, <1>6, <1>7, <1>8
<1> HIDE DEF n
<1>10. n \div Whole \in Int /\ lo <= n \div Whole /\ n \div Whole <= hi
  BY <1>1, <1>9, DivBetween
<1>11. Ewma(prev, s, w) = n \div Whole
  BY DEF Ewma, n
<1> QED BY <1>10, <1>11

----------------------------------------------------------------------------
(* What the latch knows of real time: the seconds it has left are never    *)
(* fewer than the real time the hold still has to run, and those it has    *)
(* counted are at least half of the real time that passed.                 *)
LatchInv ==
  /\ remaining \in 0..HoldSecs
  /\ since \in 0..RealMax
  /\ latched \in BOOLEAN
  /\ remaining * UnitsPerSec + since >= HoldSecs * UnitsPerSec
  /\ remaining > 0 => since <= 2 * (HoldSecs - remaining) * UnitsPerSec
  /\ remaining > 0 => latched
  /\ latched => remaining > 0 \/ since = 0

(* Filters hold whole numbers, each within its hull.                       *)
FilterInv ==
  \A k \in Kinds :
    /\ filters[k] \in Int \cup {None}
    /\ values[k] \in Int \cup {None}
    /\ filters[k] # None => /\ hull[k] \in [lo : Int, hi : Int]
                            /\ hull[k].lo <= filters[k]
                            /\ filters[k] <= hull[k].hi
    /\ hull[k] # None => hull[k] \in [lo : Int, hi : Int]

Shape ==
  /\ filters = [k \in Kinds |-> filters[k]]
  /\ values = [k \in Kinds |-> values[k]]
  /\ powerLimit \in PowerLimits \cup {None}

(* The page is that of the values of this tick, but for the floor flag     *)
(* while it is due.                                                        *)
PageInv ==
  /\ frame = [duties |-> CandidateDuties, winner |-> WinnerOrNone]
  /\ floorActive \in BOOLEAN /\ floorDue \in BOOLEAN
  /\ ~floorDue => floorActive = FloorApplied

IInv == LatchInv /\ FilterInv /\ Shape /\ PageInv

(* The arithmetic of one tick of the latch: secs whole seconds of d units. *)
LEMMA LatchArithmetic ==
  ASSUME NEW u \in Nat \ {0}, NEW d \in Nat, d >= u
  PROVE  LET secs == d \div u
         IN  /\ secs \in Nat
             /\ secs * u <= d
             /\ d <= 2 * (secs * u)
<1> DEFINE secs == d \div u
<1>1. secs \in Nat /\ secs * u <= d /\ d < secs * u + u
  OBVIOUS
<1> HIDE DEF secs
<1>2. secs * u \in Nat
  BY <1>1
<1>3. secs >= 1
  <2>1. SUFFICES ASSUME secs = 0 PROVE FALSE  BY <1>1
  <2> QED BY <1>1, <2>1
<1>4. secs * u >= u
  <2>1. PICK r \in Nat : secs = 1 + r
    <3>1. secs - 1 \in Nat /\ secs = 1 + (secs - 1)  BY <1>1, <1>3
    <3> QED BY <3>1
  <2>2. secs * u = u + r * u /\ r * u \in Nat  BY <2>1
  <2> QED BY <2>2
<1> QED BY <1>1, <1>2, <1>4 DEF secs

LEMMA LatchStep ==
  ASSUME LatchInv, NEW active \in BOOLEAN, NEW d \in Intervals,
         Latch(active, Elapsed(d)),
         since' = IF active THEN 0
                  ELSE IF since + d < RealMax THEN since + d ELSE RealMax
  PROVE  LatchInv'
<1> DEFINE u == UnitsPerSec
           secs == Elapsed(d)
<1>1. /\ u \in Nat \ {0} /\ d \in Nat /\ d >= u
      /\ HoldSecs \in Nat /\ RealMax \in Nat /\ RealMax >= 2 * HoldSecs * u
  BY FusionAssumption DEF FusionAssumption
<1>2. secs \in Nat /\ secs * u <= d /\ d <= 2 * (secs * u)
  BY <1>1, LatchArithmetic DEF Elapsed
<1>3. remaining' = IF active THEN HoldSecs ELSE Minus(remaining, secs)
  BY DEF Latch
<1>4. latched' = (active \/ remaining' > 0)
  BY DEF Latch
<1>5. /\ remaining \in 0..HoldSecs /\ since \in 0..RealMax
      /\ remaining * u + since >= HoldSecs * u
      /\ remaining > 0 => since <= 2 * (HoldSecs - remaining) * u
  BY DEF LatchInv
<1> HIDE DEF u, secs
<1>6. CASE active
  <2>1. remaining' = HoldSecs /\ since' = 0
    BY <1>3, <1>6
  <2>2. latched' = TRUE
    BY <1>4, <1>6
  <2>3. HoldSecs * u \in Nat
    BY <1>1
  <2>4. 2 * (HoldSecs - HoldSecs) * u = 0
    BY <1>1
  <2> QED BY <1>1, <2>1, <2>2, <2>3, <2>4 DEF LatchInv, u
<1>7. CASE ~active
  <2>1. remaining' = Minus(remaining, secs)
    BY <1>3, <1>7
  <2>2. since' = IF since + d < RealMax THEN since + d ELSE RealMax
    BY <1>7
  <2>3. remaining' \in 0..HoldSecs
    BY <1>1, <1>2, <1>5, <2>1 DEF Minus
  <2>4. since' \in 0..RealMax
    BY <1>1, <1>5, <2>2
  <2>5. latched' = (remaining' > 0)
    BY <1>4, <1>7
  <2>6. HoldSecs * u \in Nat /\ 2 * HoldSecs * u = 2 * (HoldSecs * u)
    BY <1>1
  <2>7. remaining' * u + since' >= HoldSecs * u
    <3>1. CASE since' = RealMax
      <4>1. remaining' * u \in Nat
        <5>1. remaining' \in Nat  BY <1>1, <2>3
        <5>2. \A a, b \in Nat : a * b \in Nat  OBVIOUS
        <5>3. u \in Nat  BY <1>1
        <5> QED BY <5>1, <5>2, <5>3
      <4> QED BY <1>1, <2>6, <3>1, <4>1
    <3>2. CASE since' = since + d
      <4>1. PICK r \in Nat : remaining <= r + secs /\ remaining' = r
        BY <1>1, <1>2, <1>5, <2>1 DEF Minus
      <4>2. remaining * u <= (r + secs) * u
        BY <1>1, <1>2, <1>5, <4>1
      <4>3. (r + secs) * u = r * u + secs * u
        BY <1>1, <1>2, <4>1
      <4>4. r * u \in Nat /\ secs * u \in Nat /\ remaining * u \in Nat
        BY <1>1, <1>2, <1>5, <4>1
      <4> QED BY <1>1, <1>2, <1>5, <2>6, <3>2, <4>1, <4>2, <4>3, <4>4
    <3> QED BY <2>2, <3>1, <3>2
  <2>8. ASSUME remaining' > 0
        PROVE  since' <= 2 * (HoldSecs - remaining') * u
    <3>1. remaining' = remaining - secs /\ remaining > 0
      BY <1>1, <1>2, <1>5, <2>1, <2>8 DEF Minus
    <3>2. PICK g \in Nat : g = HoldSecs - remaining
      BY <1>1, <1>5
    <3>3. HoldSecs - remaining' = g + secs
      BY <1>1, <1>2, <1>5, <3>1, <3>2
    <3>4. 2 * (g + secs) * u = 2 * g * u + 2 * (secs * u)
      BY <1>1, <1>2, <3>2
    <3>5. since <= 2 * g * u
      BY <1>5, <3>1, <3>2
    <3>6. 2 * g * u \in Nat /\ secs * u \in Nat
      BY <1>1, <1>2, <3>2
    <3>7. since' <= since + d
      BY <1>1, <1>5, <2>2
    <3>8. since' <= 2 * (g + secs) * u
      BY <1>1, <1>2, <1>5, <2>4, <3>4, <3>5, <3>6, <3>7
    <3> QED BY <3>3, <3>8
  <2>9. /\ latched' \in BOOLEAN
        /\ remaining' > 0 => latched'
        /\ latched' => remaining' > 0
    <3> DEFINE held == remaining' > 0
    <3>1. held \in BOOLEAN  BY <2>3
    <3>2. latched' = held    BY <2>5
    <3> HIDE DEF held
    <3>3. latched' \in BOOLEAN /\ (held => latched') /\ (latched' => held)
      BY <3>1, <3>2, Zenon
    <3> QED BY <3>3 DEF held
  <2>10. LatchInv'
    BY <2>3, <2>4, <2>7, <2>8, <2>9 DEF LatchInv, u
  <2> QED BY <2>10
<1> QED BY <1>6, <1>7

----------------------------------------------------------------------------
(* Conditioning keeps every filter within what its device has said.        *)
LEMMA FilterStep ==
  ASSUME FilterInv, NEW raw \in Raw, Condition(raw),
         hull' = [k \in Kinds |->
           IF raw[k] \in Sane(k) THEN Widen(hull[k], raw[k]) ELSE hull[k]]
  PROVE  FilterInv'
<1> SUFFICES ASSUME NEW k \in Kinds
             PROVE  /\ filters'[k] \in Int \cup {None}
                    /\ values'[k] \in Int \cup {None}
                    /\ filters'[k] # None => /\ hull'[k] \in [lo : Int, hi : Int]
                                             /\ hull'[k].lo <= filters'[k]
                                             /\ filters'[k] <= hull'[k].hi
                    /\ hull'[k] # None => hull'[k] \in [lo : Int, hi : Int]
  BY DEF FilterInv
<1>1. /\ None \notin Int /\ None \notin [lo : Int, hi : Int]
      /\ Rise[k] \in 1..Whole /\ Fall[k] \in 1..Whole
  BY FusionAssumption DEF FusionAssumption
<1>2. k \in AllKinds
  BY FusionAssumption DEF FusionAssumption
<1>3. Sane(k) \subseteq Int
  <2>1. CASE k \in {"MemTemp", "GpuTemp", "CpuTemp"}
    <3>1. Sane(k) = 1..125
      BY <2>1 DEF Sane
    <3> QED BY <3>1
  <2>2. CASE k = "GpuPower"
    <3>1. Sane(k) = 1..2000
      BY <2>2 DEF Sane
    <3> QED BY <3>1
  <2>3. CASE k = "ThermalMargin"
    <3>1. Sane(k) = (-40)..200
      BY <2>3 DEF Sane
    <3> QED BY <3>1
  <2> QED BY <1>2, <2>1, <2>2, <2>3 DEF AllKinds
<1>4. /\ filters[k] \in Int \cup {None}
      /\ filters[k] # None => /\ hull[k] \in [lo : Int, hi : Int]
                              /\ hull[k].lo <= filters[k]
                              /\ filters[k] <= hull[k].hi
      /\ hull[k] # None => hull[k] \in [lo : Int, hi : Int]
  BY DEF FilterInv
<1>5. CASE raw[k] \notin Sane(k)
  <2>1. Sample(k, raw[k]) = None
    BY <1>5 DEF Sample
  <2>2. values'[k] = None /\ filters'[k] = filters[k] /\ hull'[k] = hull[k]
    BY <1>5, <2>1 DEF Condition
  <2> QED BY <1>4, <2>2
<1>6. CASE raw[k] \in Sane(k)
  <2> DEFINE s == raw[k]
             next == Smooth(k, s)
             span == Widen(hull[k], s)
  <2>1. s \in Int
    BY <1>3, <1>6
  <2>2. Sample(k, s) = s /\ s # None
    BY <1>1, <1>6, <2>1 DEF Sample
  <2>3. values'[k] = next /\ hull'[k] = span
    BY <1>6, <2>2 DEF Condition
  <2>4. /\ span \in [lo : Int, hi : Int]
        /\ span.lo <= s /\ s <= span.hi
        /\ hull[k] # None => span.lo <= hull[k].lo /\ hull[k].hi <= span.hi
    BY <1>4, <2>1 DEF Widen
  <2>5. next \in Int /\ span.lo <= next /\ next <= span.hi
    <3>1. CASE filters[k] = None
      BY <2>1, <2>4, <3>1 DEF Smooth
    <3>2. CASE filters[k] # None
      <4>1. /\ filters[k] \in Int
            /\ span.lo <= filters[k] /\ filters[k] <= span.hi
        <5>1. hull[k] # None
          BY <1>1, <1>4, <3>2
        <5> QED BY <1>4, <2>4, <3>2, <5>1
      <4>2. PICK w \in 1..Whole : next = Ewma(filters[k], s, w)
        BY <1>1, <3>2 DEF Smooth
      <4>3. span.lo \in Int /\ span.hi \in Int
        BY <2>4
      <4> HIDE DEF next, span, s
      <4> QED BY <2>1, <2>4, <4>1, <4>2, <4>3, EwmaBetween
    <3> QED BY <3>1, <3>2
  <2>6. filters'[k] = next
    BY <1>1, <2>3, <2>5 DEF Condition
  <2> QED BY <2>3, <2>4, <2>5, <2>6
<1> QED BY <1>5, <1>6

LEMMA InitInv == Init => IInv
<1> SUFFICES ASSUME Init PROVE IInv  OBVIOUS
<1>1. /\ RealMax \in Nat /\ HoldSecs \in Nat /\ UnitsPerSec \in Nat \ {0}
      /\ RealMax >= 2 * HoldSecs * UnitsPerSec
  BY FusionAssumption DEF FusionAssumption
<1>2. /\ HoldSecs * UnitsPerSec \in Nat
      /\ 2 * HoldSecs * UnitsPerSec = 2 * (HoldSecs * UnitsPerSec)
      /\ 0 * UnitsPerSec = 0
  BY <1>1
<1>3. LatchInv
  <2>1. remaining = 0 /\ since = RealMax /\ latched = FALSE
    BY DEF Init
  <2>2. remaining * UnitsPerSec + since >= HoldSecs * UnitsPerSec
    BY <1>1, <1>2, <2>1
  <2>3. remaining \in 0..HoldSecs /\ since \in 0..RealMax /\ ~(remaining > 0)
    BY <1>1, <2>1
  <2> QED BY <2>1, <2>2, <2>3 DEF LatchInv
<1>4. FilterInv /\ Shape
  BY DEF Init, FilterInv, Shape
<1>5. PageInv
  <2>1. Candidates = {}
    <3>1. Enabled \subseteq Kinds
      BY FusionAssumption DEF FusionAssumption
    <3> QED BY <3>1 DEF Init, Candidates
  <2>2. CandidateDuties = [k \in Kinds |-> None] /\ WinnerOrNone = None
    BY <2>1 DEF CandidateDuties, WinnerOrNone
  <2>3. ~FloorApplied
    BY DEF Init, FloorApplied
  <2> QED BY <2>2, <2>3 DEF Init, PageInv, FloorApplied
<1> QED BY <1>3, <1>4, <1>5 DEF IInv

(* The page does not change with the filters and the history.              *)
LEMMA PageKept ==
  ASSUME UNCHANGED <<values, powerLimit, latched>>
  PROVE  /\ CandidateDuties' = CandidateDuties
         /\ WinnerOrNone' = WinnerOrNone
         /\ FloorApplied' = FloorApplied
<1>1. LimitKnown' = LimitKnown
  BY DEF LimitKnown
<1>2. Candidates' = Candidates
  BY <1>1 DEF Candidates
<1>3. \A k : Abscissa(k)' = Abscissa(k)
  BY DEF Abscissa
<1>4. \A k : Demand(k)' = Demand(k)
  BY <1>3 DEF Demand
<1>5. \A cands : Winner(cands)' = Winner(cands)
  BY <1>4 DEF Winner
<1>6. Loudest(Candidates)' = Loudest(Candidates)
  BY <1>2, <1>4, <1>5 DEF Loudest
<1> QED BY <1>2, <1>4, <1>5, <1>6 DEF CandidateDuties, WinnerOrNone, FloorApplied

LEMMA NextInv == IInv /\ [Next]_vars => IInv'
<1> SUFFICES ASSUME IInv, [Next]_vars PROVE IInv'
  OBVIOUS
<1>1. CASE Tick
  <2>1. PICK raw \in Raw, limit \in PowerLimits :
          /\ Condition(raw)
          /\ powerLimit' = limit
          /\ hull' = [k \in Kinds |->
               IF raw[k] \in Sane(k) THEN Widen(hull[k], raw[k]) ELSE hull[k]]
    BY <1>1 DEF Tick
  <2>2. LatchInv'
    <3>1. PICK flags \in Asserted, d \in Intervals :
            /\ Latch(AnyOf(flags), Elapsed(d))
            /\ since' = IF AnyOf(flags) THEN 0
                        ELSE IF since + d < RealMax THEN since + d ELSE RealMax
      BY <1>1 DEF Tick
    <3>2. AnyOf(flags) \in BOOLEAN  BY DEF AnyOf
    <3> QED BY <3>1, <3>2, LatchStep DEF IInv
  <2>3. FilterInv'
    BY <2>1, FilterStep DEF IInv
  <2>4. Shape'
    BY <2>1 DEF Shape, Condition
  <2>5. PageInv'
    <3>1. frame' = [duties |-> CandidateDuties', winner |-> WinnerOrNone']
      BY <1>1 DEF Tick, SetFusionFrame
    <3>2. floorDue' = TRUE /\ floorActive' = floorActive
      BY <1>1 DEF Tick
    <3> QED BY <3>1, <3>2 DEF PageInv, IInv
  <2> QED BY <2>2, <2>3, <2>4, <2>5 DEF IInv
<1>2. CASE PublishFloor
  <2>1. UNCHANGED <<filters, remaining, values, powerLimit, latched, frame, hull, since>>
    BY <1>2 DEF PublishFloor
  <2>2. LatchInv' /\ FilterInv' /\ Shape'
    BY <2>1 DEF IInv, LatchInv, FilterInv, Shape
  <2>3. PageInv'
    <3>1. floorActive' = FloorApplied' /\ floorDue' = FALSE
      BY <1>2, <2>1, PageKept DEF PublishFloor
    <3>2. FloorApplied' \in BOOLEAN
      BY DEF FloorApplied
    <3> QED BY <2>1, <3>1, <3>2, PageKept DEF PageInv, IInv
  <2> QED BY <2>2, <2>3 DEF IInv
<1>3. CASE Rediscover
  <2>1. UNCHANGED <<remaining, values, powerLimit, latched, frame, floorActive,
                    floorDue, since>>
    BY <1>3 DEF Rediscover
  <2>2. LatchInv'
    BY <2>1 DEF IInv, LatchInv
  <2>3. FilterInv'
    BY <1>3, <2>1 DEF Rediscover, ResetBy, IInv, FilterInv
  <2>4. Shape'
    BY <1>3, <2>1 DEF Rediscover, IInv, Shape
  <2>5. PageInv'
    BY <2>1, PageKept DEF IInv, PageInv
  <2> QED BY <2>2, <2>3, <2>4, <2>5 DEF IInv
<1>4. CASE UNCHANGED vars
  <2>1. LatchInv' /\ FilterInv' /\ Shape'
    BY <1>4 DEF vars, IInv, LatchInv, FilterInv, Shape
  <2>2. PageInv'
    BY <1>4, PageKept DEF vars, IInv, PageInv
  <2> QED BY <2>1, <2>2 DEF IInv
<1> QED BY <1>1, <1>2, <1>3, <1>4 DEF Next

THEOREM InvHolds == Spec => []IInv
BY InitInv, NextInv, PTL DEF Spec

----------------------------------------------------------------------------
(* What fuse() makes of a state.                                           *)

(* Every candidate has a valid curve and a place on its axis.              *)
LEMMA CandidateFacts ==
  ASSUME IInv, NEW k \in Candidates
  PROVE  k \in Kinds /\ ValidCurve(CurveOf(k)) /\ Abscissa(k) \in Int
<1>1. k \in Kinds /\ values[k] # None /\ CurveOf(k) # << >>
  BY FusionAssumption DEF FusionAssumption, Candidates
<1>2. ValidCurve(CurveOf(k))
  BY <1>1, FusionAssumption DEF FusionAssumption, CurveOf
<1>3. values[k] \in Int
  BY <1>1 DEF IInv, FilterInv
<1>4. CpuOffset \in Int
  BY FusionAssumption DEF FusionAssumption
<1>5. Abscissa(k) \in Int
  <2>1. CASE k = "GpuPower" /\ PercentTdp
    <3>1. LimitKnown
      BY <2>1 DEF Candidates
    <3>2. powerLimit \in Int /\ powerLimit > 0
      BY <3>1, FusionAssumption DEF FusionAssumption, LimitKnown, IInv, Shape
    <3>3. (100 * values[k]) \div powerLimit \in Int
      BY <1>3, <3>2
    <3>4. k # "CpuTemp"
      BY <2>1
    <3> QED BY <2>1, <3>3, <3>4 DEF Abscissa
  <2>2. CASE ~(k = "GpuPower" /\ PercentTdp)
    BY <1>3, <1>4, <2>2 DEF Abscissa
  <2> QED BY <2>1, <2>2
<1> QED BY <1>1, <1>2, <1>5

(* Every candidate asks for a percentage.                                  *)
LEMMA DemandInRange ==
  ASSUME IInv, NEW k \in Candidates
  PROVE  Demand(k) \in Duty
BY CandidateFacts, InterpolateInRange DEF Demand

(* There is a winner among any candidates, and none asks for more.         *)
LEMMA WinnerIsLoudest ==
  ASSUME IInv, NEW cands \in SUBSET Candidates, cands # {}
  PROVE  /\ Winner(cands) \in cands
         /\ \A j \in cands : Demand(j) <= Demand(Winner(cands))
<1>1. \A k \in cands : Demand(k) \in 0..100
  BY DemandInRange DEF Duty
<1>2. \A k \in cands : Rank(k) \in 1..5
  <2>1. cands \subseteq AllKinds
    BY FusionAssumption DEF FusionAssumption, Candidates
  <2> QED BY <2>1 DEF AllKinds, Rank
<1> DEFINE weight(k) == 10 * (100 - Demand(k)) + Rank(k)
           T == { weight(k) : k \in cands }
<1>3. \A k \in cands : weight(k) \in Nat
  BY <1>1, <1>2
<1>4. T \in SUBSET Nat /\ T # {}
  BY <1>3
<1>5. PICK x \in T : \A y \in T : x <= y
  BY <1>4, LeastNatural
<1>6. PICK k \in cands : x = weight(k)
  BY <1>5
<1>7. \A j \in cands : weight(k) <= weight(j)
  BY <1>5, <1>6
<1>8. \A j \in cands : \/ Demand(j) < Demand(k)
                       \/ Demand(j) = Demand(k) /\ Rank(k) <= Rank(j)
  <2> TAKE j \in cands
  <2>1. Demand(j) \in 0..100 /\ Demand(k) \in 0..100
    BY <1>1
  <2>2. Rank(j) \in 1..5 /\ Rank(k) \in 1..5
    BY <1>2
  <2>3. 10 * (100 - Demand(k)) + Rank(k) <= 10 * (100 - Demand(j)) + Rank(j)
    BY <1>7
  <2>4. \A a, b \in 0..100, p, q \in 1..5 :
          10 * (100 - a) + p <= 10 * (100 - b) + q => b < a \/ (b = a /\ p <= q)
    OBVIOUS
  <2> QED BY <2>1, <2>2, <2>3, <2>4
<1>9. /\ Winner(cands) \in cands
      /\ \A j \in cands :
           \/ Demand(j) < Demand(Winner(cands))
           \/ Demand(j) = Demand(Winner(cands)) /\ Rank(Winner(cands)) <= Rank(j)
  BY <1>8 DEF Winner
<1>10. ASSUME NEW j \in cands PROVE Demand(j) <= Demand(Winner(cands))
  BY <1>1, <1>9
<1> QED BY <1>9, <1>10

(* The target of any candidates: a percentage when there is one, no less   *)
(* than each candidate's demand, and no less than the floor while it holds.*)
LEMMA TargetFacts ==
  ASSUME IInv, NEW cands \in SUBSET Candidates
  PROVE  /\ Target(cands) \in Duty \cup {None}
         /\ latched /\ FloorEnabled =>
              Target(cands) # None /\ Target(cands) >= FloorDuty
         /\ \A k \in cands : Target(cands) # None /\ Demand(k) <= Target(cands)
<1>1. None \notin Int /\ FloorDuty \in 0..100
  BY FusionAssumption DEF FusionAssumption, Duty
<1>2. CASE cands = {}
  BY <1>1, <1>2 DEF Target, Loudest, Duty
<1>3. CASE cands # {}
  <2> DEFINE top == Demand(Winner(cands))
  <2>1. Winner(cands) \in cands /\ \A j \in cands : Demand(j) <= top
    BY <1>3, WinnerIsLoudest
  <2>2. top \in 0..100 /\ \A j \in cands : Demand(j) \in 0..100
    BY <2>1, DemandInRange DEF Duty
  <2>3. Loudest(cands) = top
    BY <1>3 DEF Loudest
  <2> HIDE DEF top
  <2>4. \/ Target(cands) = FloorDuty /\ top < FloorDuty
        \/ /\ Target(cands) = top
           /\ latched /\ FloorEnabled => top >= FloorDuty
    BY <1>1, <1>3, <2>2, <2>3 DEF Target
  <2>5. Target(cands) \in 0..100 /\ top <= Target(cands)
    BY <1>1, <2>2, <2>4
  <2>6. latched /\ FloorEnabled => Target(cands) >= FloorDuty
    BY <1>1, <2>4
  <2>7. Target(cands) # None
    BY <1>1, <2>5
  <2>8. ASSUME NEW k \in cands PROVE Demand(k) <= Target(cands)
    <3>1. Demand(k) <= top /\ Demand(k) \in 0..100  BY <2>1, <2>2
    <3> QED BY <2>2, <2>5, <3>1
  <2> QED BY <2>5, <2>6, <2>7, <2>8 DEF Duty
<1> QED BY <1>2, <1>3

----------------------------------------------------------------------------
(* The remaining time never leaves the hold, and what fuse answers is a    *)
(* percentage.                                                             *)
THEOREM TypeCorrect == Spec => []TypeOK
<1>1. ASSUME IInv PROVE TypeOK
  <2>1. Target(Candidates) \in Duty \cup {None}
    BY <1>1, TargetFacts
  <2>2. filters \in [Kinds -> Int \cup {None}]
    BY <1>1 DEF IInv, FilterInv, Shape
  <2>3. values \in [Kinds -> Int \cup {None}]
    BY <1>1 DEF IInv, FilterInv, Shape
  <2>4. frame \in [duties : [Kinds -> Duty \cup {None}], winner : Kinds \cup {None}]
    <3>1. CandidateDuties \in [Kinds -> Duty \cup {None}]
      BY <1>1, DemandInRange DEF CandidateDuties
    <3>2. WinnerOrNone \in Kinds \cup {None}
      <4>1. CASE Candidates = {}
        BY <4>1 DEF WinnerOrNone
      <4>2. CASE Candidates # {}
        <5>1. Winner(Candidates) \in Candidates
          BY <1>1, <4>2, WinnerIsLoudest
        <5>2. Candidates \subseteq Kinds
          BY FusionAssumption DEF FusionAssumption, Candidates
        <5> QED BY <4>2, <5>1, <5>2 DEF WinnerOrNone
      <4> QED BY <4>1, <4>2
    <3> QED BY <1>1, <3>1, <3>2 DEF IInv, PageInv
  <2> QED BY <1>1, <2>1, <2>2, <2>3, <2>4 DEF TypeOK, IInv, LatchInv, Shape, PageInv
<1> QED BY <1>1, InvHolds, PTL

(* No value the fans follow was blended with a sentinel or with another    *)
(* device's readings.                                                      *)
THEOREM NeverPoisoned == Spec => []NoPoison
<1>1. ASSUME IInv PROVE NoPoison
  <2>1. None \notin [lo : Int, hi : Int]
    BY FusionAssumption DEF FusionAssumption
  <2> QED BY <1>1, <2>1 DEF NoPoison, IInv, FilterInv
<1> QED BY <1>1, InvHolds, PTL

(* The floor holds for hold_secs of real time after the last assertion,    *)
(* whatever the lengths of the ticks.                                      *)
THEOREM FloorBridges == Spec => []LatchBridges
<1>1. ASSUME IInv, since < HoldSecs * UnitsPerSec
      PROVE  latched
  <2>1. /\ remaining \in 0..HoldSecs /\ since \in Nat
        /\ remaining * UnitsPerSec + since >= HoldSecs * UnitsPerSec
        /\ remaining > 0 => latched
    BY <1>1, FusionAssumption DEF FusionAssumption, IInv, LatchInv
  <2>2. HoldSecs \in Nat /\ UnitsPerSec \in Nat
    BY FusionAssumption DEF FusionAssumption
  <2>3. SUFFICES ASSUME remaining = 0 PROVE FALSE
    BY <2>1, <2>2
  <2>4. remaining * UnitsPerSec = 0
    BY <2>2, <2>3
  <2>5. HoldSecs * UnitsPerSec \in Nat
    BY <2>2
  <2> QED BY <1>1, <2>1, <2>4, <2>5
<1>2. ASSUME IInv PROVE LatchBridges
  BY <1>1, <1>2, TargetFacts DEF LatchBridges
<1> QED BY <1>2, InvHolds, PTL

(* ...and for less than twice that.                                        *)
THEOREM FloorLetsGo == Spec => []LatchLetsGo
<1>1. ASSUME IInv, HoldSecs > 0, since >= 2 * HoldSecs * UnitsPerSec, latched
      PROVE  FALSE
  <2>1. HoldSecs \in Nat \ {0} /\ UnitsPerSec \in Nat \ {0}
    BY <1>1, FusionAssumption DEF FusionAssumption
  <2>2. /\ remaining \in 0..HoldSecs /\ since \in Int
        /\ remaining > 0 => since <= 2 * (HoldSecs - remaining) * UnitsPerSec
        /\ remaining > 0 \/ since = 0
    BY <1>1, FusionAssumption DEF FusionAssumption, IInv, LatchInv
  <2>3. 2 * HoldSecs * UnitsPerSec > 0
    BY <2>1
  <2>4. remaining > 0
    BY <1>1, <2>1, <2>2, <2>3
  <2>5. PICK g \in Nat : g = HoldSecs - remaining
    BY <2>1, <2>2
  <2>6. HoldSecs = g + remaining /\ remaining \in Nat \ {0}
    BY <2>1, <2>2, <2>4, <2>5
  <2>7. 2 * HoldSecs * UnitsPerSec = 2 * g * UnitsPerSec + 2 * (remaining * UnitsPerSec)
    BY <2>1, <2>6
  <2>8. remaining * UnitsPerSec > 0 /\ 2 * g * UnitsPerSec \in Nat
        /\ remaining * UnitsPerSec \in Nat
    BY <2>1, <2>5, <2>6
  <2>9. since <= 2 * g * UnitsPerSec
    BY <2>2, <2>4, <2>5
  <2> QED BY <1>1, <2>2, <2>7, <2>8, <2>9
<1>2. ASSUME IInv PROVE LatchLetsGo
  BY <1>1, <1>2 DEF LatchLetsGo
<1> QED BY <1>2, InvHolds, PTL

(* Raise-only fusion: leaving signals out never raises the target.         *)
THEOREM RaisesOnly == Spec => []RaiseOnly
<1>1. ASSUME IInv, NEW part \in SUBSET Candidates, Target(part) # None
      PROVE  Target(Candidates) # None /\ Target(part) <= Target(Candidates)
  <2> DEFINE all == Candidates
  <2>1. None \notin Int /\ FloorDuty \in 0..100
    BY FusionAssumption DEF FusionAssumption, Duty
  <2>2. /\ latched /\ FloorEnabled => Target(all) # None /\ Target(all) >= FloorDuty
        /\ \A k \in all : Target(all) # None /\ Demand(k) <= Target(all)
    BY <1>1, TargetFacts
  <2>3. Target(all) \in Duty \cup {None}
    BY <1>1, TargetFacts
  <2>4. \/ Target(part) = FloorDuty /\ latched /\ FloorEnabled
        \/ part # {} /\ Target(part) = Demand(Winner(part))
    BY <1>1 DEF Target, Loudest
  <2>5. CASE Target(part) = FloorDuty /\ latched /\ FloorEnabled
    BY <2>1, <2>2, <2>3, <2>5 DEF Duty
  <2>6. CASE part # {} /\ Target(part) = Demand(Winner(part))
    <3>1. Winner(part) \in all
      BY <1>1, <2>6, WinnerIsLoudest
    <3> QED BY <2>2, <2>6, <3>1
  <2> QED BY <2>4, <2>5, <2>6
<1>2. ASSUME IInv PROVE RaiseOnly
  BY <1>1, <1>2 DEF RaiseOnly
<1> QED BY <1>2, InvHolds, PTL

(* The page names the loudest of the signals it shows at every moment, and *)
(* once complete accounts for the target.                                  *)
THEOREM PageTrue == Spec => []PageExplainsTarget
<1>1. ASSUME IInv PROVE PageExplainsTarget
  <2> DEFINE told == IF floorActive THEN FloorDuty
                     ELSE IF Shown = {} THEN 0
                          ELSE frame.duties[CHOOSE k \in OneHot : TRUE]
  <2>1. None \notin Int /\ None \notin AllKinds /\ FloorDuty \in 0..100
    BY FusionAssumption DEF FusionAssumption, Duty
  <2>2. Candidates \subseteq Kinds /\ Kinds \subseteq AllKinds
    BY FusionAssumption DEF FusionAssumption, Candidates
  <2>3. \A k \in Candidates : Demand(k) \in 0..100
    BY <1>1, DemandInRange DEF Duty
  <2>4. \A k \in Kinds :
          frame.duties[k] = IF k \in Candidates THEN Demand(k) ELSE None
    BY <1>1 DEF IInv, PageInv, CandidateDuties
  <2>5. Shown = Candidates
    BY <2>1, <2>2, <2>3, <2>4 DEF Shown
  <2>6. frame.winner = WinnerOrNone
    BY <1>1 DEF IInv, PageInv
  <2>7. CASE Candidates = {}
    <3>1. Target(Candidates) = IF latched /\ FloorEnabled THEN FloorDuty ELSE None
      BY <2>7 DEF Target, Loudest
    <3>2. ~floorDue => (floorActive <=> latched /\ FloorEnabled /\ FloorDuty > 0)
      BY <1>1, <2>7 DEF IInv, PageInv, FloorApplied
    <3>3. told = IF floorActive THEN FloorDuty ELSE 0
      BY <2>5, <2>7
    <3>4. ~floorDue => told = (IF Target(Candidates) = None THEN 0 ELSE Target(Candidates))
      BY <2>1, <3>1, <3>2, <3>3
    <3> QED BY <2>5, <2>7, <3>4 DEF PageExplainsTarget
  <2>8. CASE Candidates # {}
    <3> DEFINE hot == Winner(Candidates)
    <3>1. hot \in Candidates /\ \A k \in Candidates : Demand(k) <= Demand(hot)
      BY <1>1, <2>8, WinnerIsLoudest
    <3>2. OneHot = {hot}
      BY <2>5, <2>6, <2>8, <3>1 DEF OneHot, WinnerOrNone
    <3>3. Loudest(Candidates) = Demand(hot) /\ frame.duties[hot] = Demand(hot)
      BY <2>2, <2>4, <2>8, <3>1 DEF Loudest
    <3> HIDE DEF hot
    <3>4. \E k \in Kinds :
            /\ OneHot = {k}
            /\ \A j \in Shown : frame.duties[j] <= frame.duties[k]
      BY <2>2, <2>4, <2>5, <3>1, <3>2, <3>3
    <3>5. told = IF floorActive THEN FloorDuty ELSE Demand(hot)
      BY <2>5, <2>8, <3>2, <3>3
    <3>6. ~floorDue =>
            (floorActive <=> latched /\ FloorEnabled /\ FloorDuty > Demand(hot))
      BY <1>1, <2>8, <3>3 DEF IInv, PageInv, FloorApplied
    <3>7. Target(Candidates) = IF latched /\ FloorEnabled /\ Demand(hot) < FloorDuty
                               THEN FloorDuty ELSE Demand(hot)
      BY <2>8, <3>3 DEF Target
    <3>8. Demand(hot) \in 0..100
      BY <2>3, <3>1
    <3>9. ~floorDue => told = (IF Target(Candidates) = None THEN 0 ELSE Target(Candidates))
      BY <2>1, <3>5, <3>6, <3>7, <3>8
    <3> QED BY <3>4, <3>9 DEF PageExplainsTarget
  <2> QED BY <2>7, <2>8
<1> QED BY <1>1, InvHolds, PTL

(* While the GPU's temperature is read, fusion asks for at least what the  *)
(* legacy arm would, if its own CPU offset is the legacy one, or smaller   *)
(* on a rising curve.                                                      *)
THEOREM NeverBelowLegacy == Spec => []NotBelowLegacy
<1>1. ASSUME IInv, DieTempsOnTopCurve, OffsetsAgree, values["GpuTemp"] # None
      PROVE  Target(Candidates) >= Interpolate(TopCurve, ControlTemp)
  <2> DEFINE gpu == values["GpuTemp"]
             cpu == values["CpuTemp"]
  <2>1. TopCurve # << >> /\ ValidCurve(TopCurve) /\ None \notin Int
    BY FusionAssumption DEF FusionAssumption, ValidCurve
  <2>2. CurveOf("GpuTemp") = TopCurve /\ CurveOf("CpuTemp") = TopCurve
    BY <1>1 DEF DieTempsOnTopCurve, CurveOf
  <2>3. "GpuTemp" \in Candidates
    BY <1>1, <2>1, <2>2 DEF DieTempsOnTopCurve, Candidates
  <2>4. Demand("GpuTemp") = Interpolate(TopCurve, gpu)
    BY <2>2 DEF Demand, Abscissa
  <2>5. \A k \in Candidates : Demand(k) <= Target(Candidates)
        /\ Target(Candidates) # None /\ Demand(k) \in Duty
    BY <1>1, TargetFacts, DemandInRange
  <2>6. Target(Candidates) \in Duty \cup {None}
    BY <1>1, TargetFacts
  <2>7. Target(Candidates) \in Duty
    BY <2>3, <2>5, <2>6
  <2>8. CASE cpu # None /\ cpu - LegacyOffset > gpu
    <3>1. "CpuTemp" \in Candidates
      BY <1>1, <2>1, <2>2, <2>8 DEF DieTempsOnTopCurve, Candidates
    <3>2. Demand("CpuTemp") = Interpolate(TopCurve, cpu - CpuOffset)
      BY <2>2 DEF Demand, Abscissa
    <3>3. ControlTemp = cpu - LegacyOffset
      BY <1>1, <2>8 DEF ControlTemp
    <3>4. Demand("CpuTemp") <= Target(Candidates) /\ Demand("CpuTemp") \in 0..100
      BY <2>5, <3>1 DEF Duty
    <3>5. Target(Candidates) >= Demand("CpuTemp")
      BY <2>7, <3>4 DEF Duty
    <3>6. CASE CpuOffset = LegacyOffset
      BY <3>2, <3>3, <3>5, <3>6
    <3>7. CASE CpuOffset < LegacyOffset /\ Rising(TopCurve)
      <4>1. cpu \in Int /\ CpuOffset \in Int /\ LegacyOffset \in Int
        BY <1>1, <2>8, <3>1, FusionAssumption
           DEF FusionAssumption, Candidates, IInv, FilterInv
      <4>2. PICK s \in Int, t \in Int :
              s = cpu - LegacyOffset /\ t = cpu - CpuOffset /\ s <= t
        BY <3>7, <4>1
      <4>3. Monotone(TRUE, TopCurve)
        BY <3>7 DEF Rising, Monotone, Onward
      <4>4. Interpolate(TopCurve, s) <= Interpolate(TopCurve, t)
        BY <2>1, <4>2, <4>3, HotterNeverSlower DEF Onward
      <4>5. Interpolate(TopCurve, s) \in Duty
        BY <2>1, <4>2, InterpolateInRange
      <4> QED BY <2>7, <3>2, <3>3, <3>4, <3>5, <4>2, <4>4, <4>5 DEF Duty
    <3> QED BY <1>1, <3>6, <3>7 DEF OffsetsAgree
  <2>9. CASE ~(cpu # None /\ cpu - LegacyOffset > gpu)
    <3>1. ControlTemp = gpu
      BY <1>1, <2>9 DEF ControlTemp
    <3>2. Demand("GpuTemp") <= Target(Candidates) /\ Demand("GpuTemp") \in 0..100
      BY <2>3, <2>5 DEF Duty
    <3>3. Target(Candidates) >= Demand("GpuTemp")
      BY <2>7, <3>2 DEF Duty
    <3> QED BY <2>4, <3>1, <3>3
  <2> QED BY <2>8, <2>9
<1>2. ASSUME IInv PROVE NotBelowLegacy
  BY <1>1, <1>2 DEF NotBelowLegacy
<1> QED BY <1>2, InvHolds, PTL

----------------------------------------------------------------------------
(* From one tick to the next.                                              *)

(* Which way along its axis a signal gets worse: a margin as it shrinks.   *)
Climbs(k) == k # "ThermalMargin"

(* Every curve in use goes one way, toward more duty as things get worse.  *)
CurvesAlike ==
  \A k \in Enabled : CurveOf(k) # << >> => Monotone(Climbs(k), CurveOf(k))

(* Nothing got better: no candidate dropped out or moved back, and the     *)
(* throttle latch did not let go.                                          *)
NothingBetter ==
  /\ Candidates \subseteq Candidates'
  /\ \A k \in Candidates : Onward(Climbs(k), Abscissa(k), Abscissa(k)')
  /\ latched => latched'

(* A step in which nothing got better does not lower the target, whichever *)
(* signals joined and whichever wins now: a hotter machine is never handed *)
(* a slower fan by interpolation, by a change of winner or by the floor.   *)
HotterNeverLowers ==
  [][ CurvesAlike /\ NothingBetter /\ Target(Candidates) # None =>
        /\ Target(Candidates)' # None
        /\ Target(Candidates) <= Target(Candidates)' ]_vars

(* What fuse() makes of a state, of either end of a step.                  *)
Fused ==
  /\ \A k \in Candidates : /\ Abscissa(k) \in Int
                           /\ Demand(k) \in 0..100
                           /\ Target(Candidates) # None
                           /\ Demand(k) <= Target(Candidates)
  /\ Target(Candidates) \in 0..100 \cup {None}
  /\ latched /\ FloorEnabled =>
       Target(Candidates) # None /\ Target(Candidates) >= FloorDuty
  /\ \/ Target(Candidates) = None
     \/ Target(Candidates) = FloorDuty /\ latched /\ FloorEnabled
     \/ \E k \in Candidates : Target(Candidates) = Demand(k)

LEMMA FusedFacts == IInv => Fused
<1> SUFFICES ASSUME IInv PROVE Fused
  OBVIOUS
<1>1. ASSUME NEW k \in Candidates PROVE Abscissa(k) \in Int /\ Demand(k) \in 0..100
  BY CandidateFacts, DemandInRange DEF Duty
<1>2. CASE Candidates = {}
  BY <1>1, <1>2, TargetFacts DEF Target, Loudest, Duty, Fused
<1>3. CASE Candidates # {}
  <2>1. Winner(Candidates) \in Candidates
    BY <1>3, WinnerIsLoudest
  <2>2. \/ Target(Candidates) = FloorDuty /\ latched /\ FloorEnabled
        \/ Target(Candidates) = Demand(Winner(Candidates))
    BY <1>3 DEF Target, Loudest
  <2> QED BY <1>1, <2>1, <2>2, TargetFacts DEF Duty, Fused
<1> QED BY <1>2, <1>3

(* What one candidate asks for, when it did not get better.                *)
LEMMA DemandNotLower ==
  ASSUME IInv, IInv', CurvesAlike, NEW k \in Candidates, k \in Candidates',
         Onward(Climbs(k), Abscissa(k), Abscissa(k)')
  PROVE  Demand(k) <= Demand(k)'
<1>1. /\ k \in Kinds /\ ValidCurve(CurveOf(k))
      /\ Abscissa(k) \in Int
  BY CandidateFacts
<1>2. Abscissa(k)' \in Int
  <2>1. IInv' => Fused'
    BY FusedFacts, PTL
  <2> QED BY <2>1 DEF Fused
<1>3. Monotone(Climbs(k), CurveOf(k))
  BY DEF CurvesAlike, Candidates
<1>4. CurveOf(k)' = CurveOf(k)
  BY DEF CurveOf
<1>5. PICK s \in Int, t \in Int : s = Abscissa(k) /\ t = Abscissa(k)'
  BY <1>1, <1>2
<1>6. /\ Demand(k) = Interpolate(CurveOf(k), s)
      /\ Demand(k)' = Interpolate(CurveOf(k), t)
  BY <1>4, <1>5 DEF Demand
<1>7. CASE Climbs(k)
  <2>1. s <= t
    BY <1>5, <1>7 DEF Onward
  <2>2. Onward(TRUE, Interpolate(CurveOf(k), s), Interpolate(CurveOf(k), t))
    BY <1>1, <1>3, <1>7, <2>1, HotterNeverSlower DEF Climbs
  <2> QED BY <1>6, <2>2 DEF Onward
<1>8. CASE ~Climbs(k)
  <2>1. t <= s
    BY <1>5, <1>8 DEF Onward
  <2>2. Climbs(k) = FALSE
    BY <1>8 DEF Climbs
  <2>3. Onward(FALSE, Interpolate(CurveOf(k), t), Interpolate(CurveOf(k), s))
    BY <1>1, <1>3, <2>1, <2>2, HotterNeverSlower
  <2> QED BY <1>6, <2>3 DEF Onward
<1> QED BY <1>7, <1>8

(* A worse reading never lowers the target.                                *)
THEOREM WorseNeverLower == Spec => HotterNeverLowers
<1> DEFINE all == Candidates
           NotLower == CurvesAlike /\ NothingBetter /\ Target(all) # None
                         => Target(all)' # None /\ Target(all) <= Target(all)'
<1>1. ASSUME IInv, IInv', CurvesAlike, NothingBetter, Target(all) # None
      PROVE  Target(all)' # None /\ Target(all) <= Target(all)'
  <2>1. Fused'
    <3>1. IInv' => Fused'
      BY FusedFacts, PTL
    <3> QED BY <1>1, <3>1
  <2>2. FloorDuty \in 0..100
    BY FusionAssumption DEF FusionAssumption, Duty
  <2>3. Target(all)' \in 0..100 \cup {None}
    BY <2>1 DEF Fused
  <2>4. CASE Target(all) = FloorDuty /\ latched /\ FloorEnabled
    <3>1. latched'
      BY <1>1, <2>4 DEF NothingBetter
    <3>2. Target(all)' # None /\ Target(all)' >= FloorDuty
      BY <2>1, <2>4, <3>1 DEF Fused
    <3> QED BY <2>2, <2>3, <2>4, <3>2
  <2>5. CASE \E k \in all : Target(all) = Demand(k)
    <3>1. PICK k \in all : Target(all) = Demand(k)
      BY <2>5
    <3>2. k \in all'
      BY <1>1, <3>1 DEF NothingBetter
    <3>3. Demand(k) <= Demand(k)'
      BY <1>1, <3>1, <3>2, DemandNotLower DEF NothingBetter
    <3>4. Target(all)' # None /\ Demand(k)' <= Target(all)' /\ Demand(k)' \in 0..100
      BY <2>1, <3>2 DEF Fused
    <3>5. Demand(k) \in 0..100
      BY <1>1, <3>1, FusedFacts DEF Fused
    <3> QED BY <2>3, <3>1, <3>3, <3>4, <3>5
  <2> QED BY <1>1, <2>4, <2>5, FusedFacts DEF Fused
<1>2. IInv /\ IInv' => NotLower
  BY <1>1
<1>3. IInv /\ IInv' /\ [Next]_vars => [NotLower]_vars
  BY <1>2
<1> QED BY <1>3, InvHolds, PTL DEF Spec, HotterNeverLowers
=============================================================================

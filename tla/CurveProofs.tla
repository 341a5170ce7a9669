---------------------------- MODULE CurveProofs ----------------------------
(***************************************************************************)
(* Facts about the interpolation that hold for every curve the             *)
(* configuration validator lets through.                                   *)
(***************************************************************************)
EXTENDS Curve, WellFoundedInduction, TLAPS

(* Every non-empty set of naturals has a least element: what makes the     *)
(* loop over the windows of the curve find a first match.                  *)
LEMMA LeastNatural ==
  ASSUME NEW T \in SUBSET Nat, T # {}
  PROVE  \E x \in T : \A y \in T : x <= y
<1>1. PICK x \in T : \A y \in T : ~(<<y, x>> \in OpToRel(<, Nat))
  BY NatLessThanWellFounded, WFMin, Zenon
<1>2. \A y \in T : ~(y < x)
  BY <1>1 DEF OpToRel
<1> QED BY <1>2

(* Rounding a quotient between lo and hi stays between lo and hi.          *)
LEMMA RoundHalfUpBounds ==
  ASSUME NEW n \in Int, NEW d \in Nat \ {0}, NEW lo \in Nat, NEW hi \in Nat,
         lo * d <= n, n <= hi * d
  PROVE  RoundHalfUp(n, d) \in lo..hi
<1> DEFINE q == (2 * n + d) \div (2 * d)
<1>1. /\ q \in Int
      /\ (2 * d) * q <= 2 * n + d
      /\ 2 * n + d < (2 * d) * (q + 1)
  OBVIOUS
<1>2. lo <= q
  <2>1. SUFFICES ASSUME q + 1 <= lo PROVE FALSE  BY <1>1
  <2>2. (2 * d) * (q + 1) <= (2 * d) * lo  BY <1>1, <2>1
  <2> QED BY <1>1, <2>2
<1>3. q <= hi
  <2>1. SUFFICES ASSUME hi + 1 <= q PROVE FALSE  BY <1>1
  <2>2. (2 * d) * (hi + 1) <= (2 * d) * q  BY <1>1, <2>1
  <2> QED BY <1>1, <2>2
<1> QED BY <1>1, <1>2, <1>3 DEF RoundHalfUp

(* A product grows with either factor.                                     *)
LEMMA ProductBounds ==
  ASSUME NEW max \in Nat, NEW k \in 0..max, NEW z \in Nat
  PROVE  k * z \in Nat /\ k * z <= max * z
<1>1. PICK j \in Nat : max = k + j
  <2>1. max - k \in Nat /\ max = k + (max - k)  OBVIOUS
  <2> QED BY <2>1
<1>2. max * z = k * z + j * z  BY <1>1
<1>3. j * z \in Nat /\ k * z \in Nat  OBVIOUS
<1> QED BY <1>2, <1>3

(* A point on the way from p to q, scaled by the length of the way, is no  *)
(* less than 0 and no more than max times that length.                     *)
LEMMA WeightedBounds ==
  ASSUME NEW max \in Nat, NEW p \in 0..max, NEW q \in 0..max,
         NEW len \in Nat, NEW x \in 0..len
  PROVE  /\ p * len + x * (q - p) \in Int
         /\ 0 * len <= p * len + x * (q - p)
         /\ p * len + x * (q - p) <= max * len
<1>1. PICK y \in Nat : len = x + y
  <2>1. len - x \in Nat /\ len = x + (len - x)  OBVIOUS
  <2> QED BY <2>1
<1>2. p * len + x * (q - p) = p * y + q * x
  BY <1>1
<1>3. /\ p * y \in Nat /\ p * y <= max * y
      /\ q * x \in Nat /\ q * x <= max * x
  BY <1>1, ProductBounds
<1>4. max * len = max * y + max * x /\ max * y \in Nat /\ max * x \in Nat
  BY <1>1
<1> QED BY <1>2, <1>3, <1>4

(* A curve whose values, duties or colours, are at most max.               *)
BoundedPoint(max) == [temp : Int, duty : 0..max]

Within(curve, max) ==
  /\ curve \in Seq(BoundedPoint(max))
  /\ curve # << >>
  /\ \A i \in 1..(Len(curve) - 1) : curve[i].temp < curve[i + 1].temp

(* Between two points the value is within the bounds too.                  *)
LEMMA BlendInRange ==
  ASSUME NEW max \in Nat, NEW a \in BoundedPoint(max),
         NEW b \in BoundedPoint(max), NEW t \in Int,
         a.temp <= t, t <= b.temp, a.temp < b.temp
  PROVE  Blend(a, b, t) \in 0..max
<1>1. /\ a.duty \in 0..max /\ b.duty \in 0..max
      /\ a.temp \in Int /\ b.temp \in Int
  BY DEF BoundedPoint
<1>2. /\ b.temp - a.temp \in Nat \ {0}
      /\ t - a.temp \in 0..(b.temp - a.temp)
  BY <1>1
<1>3. PICK len \in Nat \ {0} : len = b.temp - a.temp
  BY <1>2
<1>4. PICK n \in Int : n = a.duty * len + (t - a.temp) * (b.duty - a.duty)
                       /\ 0 * len <= n /\ n <= max * len
  BY <1>1, <1>2, <1>3, WeightedBounds
<1>5. RoundHalfUp(n, len) \in 0..max
  BY <1>4, RoundHalfUpBounds
<1> QED BY <1>3, <1>4, <1>5 DEF Blend

(* Strictly inside the curve the window search of interpolate succeeds:    *)
(* the window it takes holds the temperature.                              *)
LEMMA WindowFound ==
  ASSUME NEW max \in Nat, NEW curve, Within(curve, max), NEW t \in Int,
         curve[1].temp < t, t < curve[Len(curve)].temp
  PROVE  LET i == Window(curve, t)
         IN  /\ i \in 1..(Len(curve) - 1)
             /\ curve[i].temp < t /\ t <= curve[i + 1].temp
<1> DEFINE W == {i \in 1..(Len(curve) - 1) : t <= curve[i + 1].temp}
<1>1. /\ Len(curve) \in Nat \ {0}
      /\ \A i \in 1..Len(curve) : curve[i] \in BoundedPoint(max)
  BY DEF Within
<1>2. \A i \in 1..Len(curve) : curve[i].temp \in Int
  BY <1>1 DEF BoundedPoint
<1>3. Len(curve) - 1 \in W
  BY <1>1, <1>2
<1>4. PICK m \in W : \A y \in W : m <= y
  <2>1. W \in SUBSET Nat  BY <1>1
  <2> QED BY <1>3, <2>1, LeastNatural
<1>5. \A j \in 1..(m - 1) : curve[j + 1].temp < t
  BY <1>1, <1>2, <1>4
<1>6. /\ Window(curve, t) \in 1..(Len(curve) - 1)
      /\ t <= curve[Window(curve, t) + 1].temp
      /\ \A j \in 1..(Window(curve, t) - 1) : curve[j + 1].temp < t
  BY <1>4, <1>5 DEF Window
<1>7. curve[Window(curve, t)].temp < t
  <2>1. CASE Window(curve, t) = 1  BY <2>1
  <2>2. CASE Window(curve, t) > 1
    <3> DEFINE j == Window(curve, t) - 1
    <3>1. j \in 1..(Window(curve, t) - 1) /\ j + 1 = Window(curve, t)
      BY <1>1, <1>6, <2>2
    <3> HIDE DEF j
    <3>2. curve[j + 1].temp < t
      BY <1>6, <3>1
    <3> QED BY <3>1, <3>2
  <2> QED BY <1>1, <1>6, <2>1, <2>2
<1> QED BY <1>6, <1>7

(* Interpolation stays within the bounds of the points.                    *)
LEMMA InterpolateWithin ==
  ASSUME NEW max \in Nat, NEW curve, Within(curve, max), NEW t \in Int
  PROVE  Interpolate(curve, t) \in 0..max
<1>1. /\ Len(curve) \in Nat \ {0}
      /\ \A i \in 1..Len(curve) : curve[i] \in BoundedPoint(max)
      /\ \A i \in 1..(Len(curve) - 1) : curve[i].temp < curve[i + 1].temp
  BY DEF Within
<1>2. curve[1].duty \in 0..max /\ curve[Len(curve)].duty \in 0..max
      /\ curve[1].temp \in Int /\ curve[Len(curve)].temp \in Int
  BY <1>1 DEF BoundedPoint
<1>3. CASE t <= curve[1].temp \/ t >= curve[Len(curve)].temp
  BY <1>2, <1>3 DEF Interpolate
<1>4. CASE curve[1].temp < t /\ t < curve[Len(curve)].temp
  <2> DEFINE i == Window(curve, t)
  <2>1. i \in 1..(Len(curve) - 1) /\ curve[i].temp < t /\ t <= curve[i + 1].temp
    BY <1>4, WindowFound
  <2>2. /\ curve[i] \in BoundedPoint(max)
        /\ curve[i + 1] \in BoundedPoint(max)
    BY <1>1, <2>1
  <2>3. curve[i].temp < curve[i + 1].temp
    BY <1>1, <2>1
  <2>4. curve[i].temp \in Int
    BY <2>2 DEF BoundedPoint
  <2> HIDE DEF i
  <2>5. Blend(curve[i], curve[i + 1], t) \in 0..max
    BY <2>1, <2>2, <2>3, <2>4, BlendInRange
  <2> QED BY <1>2, <1>4, <2>5 DEF Interpolate, i
<1> QED BY <1>2, <1>3, <1>4

LEMMA ValidIsWithin ==
  ASSUME NEW curve, ValidCurve(curve)
  PROVE  Within(curve, 100)
<1>1. CurvePoint = BoundedPoint(100)
  BY DEF CurvePoint, Duty, BoundedPoint
<1> QED BY <1>1 DEF ValidCurve, Within

(* Whatever the curve and the temperature, interpolate returns a           *)
(* percentage: the cast to u8 never truncates and the hub is never asked   *)
(* for more than full speed.                                               *)
THEOREM InterpolateInRange ==
  ASSUME NEW curve, ValidCurve(curve), NEW t \in Int
  PROVE  Interpolate(curve, t) \in Duty
BY ValidIsWithin, InterpolateWithin DEF Duty

(* The points of a curve ascend, not only from one to the next.            *)
LEMMA PointsAscend ==
  ASSUME NEW curve, ValidCurve(curve), NEW i \in 1..Len(curve)
  PROVE  \A k \in 1..Len(curve) : i < k => curve[i].temp < curve[k].temp
<1> DEFINE Early == {k \in 1..Len(curve) : i < k /\ ~(curve[i].temp < curve[k].temp)}
<1>1. /\ Len(curve) \in Nat
      /\ \A k \in 1..Len(curve) : curve[k].temp \in Int
      /\ \A k \in 1..(Len(curve) - 1) : curve[k].temp < curve[k + 1].temp
  <2>1. /\ Len(curve) \in Nat
        /\ \A k \in 1..Len(curve) : curve[k] \in CurvePoint
        /\ \A k \in 1..(Len(curve) - 1) : curve[k].temp < curve[k + 1].temp
    BY DEF ValidCurve
  <2> QED BY <2>1 DEF CurvePoint
<1>2. SUFFICES ASSUME Early # {} PROVE FALSE
  OBVIOUS
<1>3. PICK m \in Early : \A y \in Early : m <= y
  <2>1. Early \in SUBSET Nat  BY <1>1
  <2> QED BY <1>2, <2>1, LeastNatural
<1>4. m - 1 \in 1..(Len(curve) - 1) /\ m - 1 \in 1..Len(curve) /\ m \in 1..Len(curve)
  BY <1>1, <1>3
<1>5. curve[m - 1].temp < curve[m].temp
  <2>1. curve[m - 1].temp < curve[(m - 1) + 1].temp  BY <1>1, <1>4
  <2> QED BY <1>4, <2>1
<1>6. curve[m].temp <= curve[i].temp /\ curve[m - 1].temp < curve[i].temp
  BY <1>1, <1>3, <1>4, <1>5
<1>7. m - 1 # i
  BY <1>1, <1>6
<1>8. m - 1 \in Early
  BY <1>1, <1>3, <1>4, <1>6, <1>7
<1> QED BY <1>1, <1>3, <1>8

(* The end of a window gets its own value.                                 *)
LEMMA BlendAtEnd ==
  ASSUME NEW a \in CurvePoint, NEW b \in CurvePoint, a.temp < b.temp
  PROVE  Blend(a, b, b.temp) = b.duty
<1>1. PICK len \in Nat \ {0} : len = b.temp - a.temp
  <2>1. b.temp - a.temp \in Nat \ {0}  BY DEF CurvePoint
  <2> QED BY <2>1
<1>2. PICK p \in Nat, q \in Nat : p = a.duty /\ q = b.duty
  BY DEF CurvePoint, Duty
<1>3. p * len + len * (q - p) = q * len
  BY <1>2
<1>4. RoundHalfUp(q * len, len) \in q..q
  <2>1. PICK n \in Int : n = q * len
    BY <1>1, <1>2
  <2>2. q * len <= n /\ n <= q * len
    BY <2>1
  <2> QED BY <1>1, <1>2, <2>1, <2>2, RoundHalfUpBounds
<1> QED BY <1>1, <1>2, <1>3, <1>4 DEF Blend

(* interpolate answers every point of a curve with that point's own duty:  *)
(* what the user wrote down is what is commanded.                          *)
THEOREM PointsHonoured ==
  ASSUME NEW curve, ValidCurve(curve), NEW i \in 1..Len(curve)
  PROVE  Interpolate(curve, curve[i].temp) = curve[i].duty
<1> DEFINE t == curve[i].temp
<1>1. /\ Len(curve) \in Nat \ {0}
      /\ \A k \in 1..Len(curve) : curve[k] \in CurvePoint
      /\ \A k \in 1..(Len(curve) - 1) : curve[k].temp < curve[k + 1].temp
  BY DEF ValidCurve
<1> HIDE DEF t
<1>0. t = curve[i].temp /\ \A k \in 1..Len(curve) : curve[k].temp \in Int
  BY <1>1 DEF CurvePoint, t
<1>2. \A j, k \in 1..Len(curve) : j < k => curve[j].temp < curve[k].temp
  BY PointsAscend
<1>3. CASE i = 1
  BY <1>0, <1>1, <1>3 DEF Interpolate
<1>4. CASE i # 1 /\ i = Len(curve)
  <2>1. curve[1].temp < t
    BY <1>0, <1>1, <1>2, <1>4
  <2> QED BY <1>0, <1>1, <1>4, <2>1 DEF Interpolate
<1>5. CASE i # 1 /\ i # Len(curve)
  <2>1. curve[1].temp < t /\ t < curve[Len(curve)].temp
    BY <1>0, <1>1, <1>2, <1>5
  <2>2. PICK w \in 1..(Len(curve) - 1) :
          w = Window(curve, t) /\ curve[w].temp < t /\ t <= curve[w + 1].temp
    BY <1>0, <1>1, <2>1, ValidIsWithin, WindowFound
  <2>3. w + 1 = i
    <3>1. w + 1 \in 1..Len(curve) /\ w \in 1..Len(curve)
      BY <1>1
    <3>2. curve[w].temp \in Int /\ curve[w + 1].temp \in Int /\ t \in Int
      BY <1>0, <3>1
    <3>3. ~(i < w) /\ i # w
      <4>1. i < w => t < curve[w].temp
        BY <1>0, <1>2, <3>1
      <4>2. i = w => t = curve[w].temp
        BY <1>0
      <4> QED BY <2>2, <3>2, <4>1, <4>2
    <3>4. ~(w + 1 < i)
      <4>1. w + 1 < i => curve[w + 1].temp < t
        BY <1>0, <1>2, <3>1
      <4> QED BY <2>2, <3>2, <4>1
    <3> QED BY <3>1, <3>3, <3>4
  <2>4. Blend(curve[w], curve[w + 1], t) = curve[i].duty
    BY <1>0, <1>1, <2>2, <2>3, BlendAtEnd
  <2> QED BY <1>0, <1>1, <2>1, <2>2, <2>3, <2>4 DEF Interpolate
<1> QED BY <1>0, <1>1, <1>3, <1>4, <1>5

----------------------------------------------------------------------------
(* The way up or the way down: b is no step back from a.                   *)
Onward(up, a, b) == IF up THEN a <= b ELSE b <= a

(* A curve whose duties go one way only: up, as those of temperatures and  *)
(* watts do in the example configurations, or down, as the one of thermal  *)
(* margins does there.  The validator does not insist on it.               *)
Monotone(up, curve) ==
  \A i \in 1..(Len(curve) - 1) : Onward(up, curve[i].duty, curve[i + 1].duty)

LEMMA OnwardFacts ==
  ASSUME NEW up \in BOOLEAN
  PROVE  /\ \A a \in Int : Onward(up, a, a)
         /\ \A a \in Int, b \in Int, c \in Int :
              Onward(up, a, b) /\ Onward(up, b, c) => Onward(up, a, c)
BY DEF Onward

(* What a point of a curve is made of.                                     *)
LEMMA PointTypes ==
  ASSUME NEW p \in CurvePoint
  PROVE  p.temp \in Int /\ p.duty \in Nat /\ p.duty \in Int
<1>1. p.temp \in Int /\ p.duty \in Duty  BY DEF CurvePoint
<1>2. \A d \in Duty : d \in Nat /\ d \in Int  BY DEF Duty
<1> QED BY <1>1, <1>2

(* Such duties go one way over any distance, not only to the next point.   *)
LEMMA DutiesOnward ==
  ASSUME NEW up \in BOOLEAN, NEW curve, ValidCurve(curve), Monotone(up, curve),
         NEW i \in 1..Len(curve)
  PROVE  \A k \in 1..Len(curve) :
           i <= k => Onward(up, curve[i].duty, curve[k].duty)
<1> DEFINE Early == {k \in 1..Len(curve) : i <= k /\ ~Onward(up, curve[i].duty, curve[k].duty)}
<1>1. /\ Len(curve) \in Nat
      /\ \A k \in 1..Len(curve) : curve[k].duty \in Int
      /\ \A k \in 1..(Len(curve) - 1) : Onward(up, curve[k].duty, curve[k + 1].duty)
  <2>1. /\ Len(curve) \in Nat
        /\ \A k \in 1..Len(curve) : curve[k] \in CurvePoint
    BY DEF ValidCurve
  <2>2. ASSUME NEW k \in 1..Len(curve) PROVE curve[k].duty \in Int
    BY <2>1, PointTypes
  <2> QED BY <2>1, <2>2 DEF Monotone
<1>2. SUFFICES ASSUME Early # {} PROVE FALSE
  OBVIOUS
<1>3. PICK m \in Early : \A y \in Early : m <= y
  <2>1. Early \in SUBSET Nat  BY <1>1
  <2> QED BY <1>2, <2>1, LeastNatural
<1>4. m # i
  BY <1>1, <1>3, OnwardFacts
<1>5. m - 1 \in 1..(Len(curve) - 1) /\ m - 1 \in 1..Len(curve) /\ m \in 1..Len(curve)
  BY <1>1, <1>3, <1>4
<1>6. Onward(up, curve[m - 1].duty, curve[m].duty)
  <2>1. Onward(up, curve[m - 1].duty, curve[(m - 1) + 1].duty)  BY <1>1, <1>5
  <2> QED BY <1>5, <2>1
<1>7. ~Onward(up, curve[i].duty, curve[m - 1].duty)
  <2>1. curve[i].duty \in Int /\ curve[m - 1].duty \in Int /\ curve[m].duty \in Int
    BY <1>1, <1>5
  <2>2. ~Onward(up, curve[i].duty, curve[m].duty)
    BY <1>3
  <2> QED BY <1>6, <2>1, <2>2, OnwardFacts
<1>8. m - 1 \in Early
  BY <1>1, <1>3, <1>4, <1>5, <1>7
<1> QED BY <1>1, <1>3, <1>8

(* Rounding to the nearest keeps the order of quotients.                   *)
LEMMA RoundMonotone ==
  ASSUME NEW m \in Int, NEW n \in Int, NEW d \in Nat \ {0}, m <= n
  PROVE  /\ RoundHalfUp(m, d) \in Int /\ RoundHalfUp(n, d) \in Int
         /\ RoundHalfUp(m, d) <= RoundHalfUp(n, d)
<1> DEFINE p == (2 * m + d) \div (2 * d)
           q == (2 * n + d) \div (2 * d)
<1>1. p \in Int /\ (2 * d) * p <= 2 * m + d
  OBVIOUS
<1>2. q \in Int /\ 2 * n + d < (2 * d) * (q + 1)
  OBVIOUS
<1> HIDE DEF p, q
<1>3. p <= q
  <2>1. SUFFICES ASSUME q + 1 <= p PROVE FALSE
    BY <1>1, <1>2
  <2>2. (2 * d) * (q + 1) <= (2 * d) * p
    BY <1>1, <1>2, <2>1
  <2>3. (2 * d) * (q + 1) \in Int /\ (2 * d) * p \in Int
    BY <1>1, <1>2
  <2> QED BY <1>1, <1>2, <2>2, <2>3
<1> QED BY <1>1, <1>2, <1>3 DEF RoundHalfUp, p, q

(* On a window that does not fall, the blend lies between the duties of    *)
(* its ends and does not fall from one temperature to a higher one.        *)
LEMMA BlendRises ==
  ASSUME NEW a \in CurvePoint, NEW b \in CurvePoint, NEW s \in Int, NEW t \in Int,
         a.temp < b.temp, a.duty <= b.duty,
         a.temp <= s, s <= t, t <= b.temp
  PROVE  /\ Blend(a, b, s) \in a.duty..b.duty
         /\ Blend(a, b, t) \in a.duty..b.duty
         /\ Blend(a, b, s) <= Blend(a, b, t)
<1>1. PICK len \in Nat \ {0}, x \in Nat, y \in Nat, z \in Nat :
        /\ len = b.temp - a.temp /\ x = s - a.temp
        /\ y = t - s /\ z = b.temp - t /\ len = x + y + z
  <2>1. /\ b.temp - a.temp \in Nat \ {0} /\ s - a.temp \in Nat
        /\ t - s \in Nat /\ b.temp - t \in Nat
        /\ b.temp - a.temp = (s - a.temp) + (t - s) + (b.temp - t)
    BY DEF CurvePoint
  <2> QED BY <2>1
<1>2. PICK lo \in Nat, rise \in Nat, hi \in Nat :
        lo = a.duty /\ hi = b.duty /\ hi = lo + rise /\ b.duty - a.duty = rise
  <2>1. /\ a.duty \in Nat /\ b.duty \in Nat /\ b.duty - a.duty \in Nat
        /\ b.duty = a.duty + (b.duty - a.duty)
    BY DEF CurvePoint, Duty
  <2> QED BY <2>1
<1>3. t - a.temp = x + y /\ s - a.temp = x
  BY <1>1 DEF CurvePoint
<1> DEFINE m == lo * len + x * rise
           n == lo * len + (x + y) * rise
<1>4. /\ m \in Int /\ n \in Int
      /\ lo * len <= m /\ m <= n /\ n <= hi * len
      /\ lo * len <= n /\ m <= hi * len
  <2>1. /\ lo * len \in Nat /\ x * rise \in Nat /\ y * rise \in Nat /\ z * rise \in Nat
        /\ (x + y) * rise = x * rise + y * rise
        /\ hi * len = lo * len + x * rise + y * rise + z * rise
    <3>1. hi * len = lo * len + rise * len
      BY <1>2
    <3>2. rise * len = x * rise + y * rise + z * rise
      BY <1>1
    <3>3. /\ lo * len \in Nat /\ x * rise \in Nat /\ y * rise \in Nat
          /\ z * rise \in Nat
      OBVIOUS
    <3>4. (x + y) * rise = x * rise + y * rise
      OBVIOUS
    <3> QED BY <3>1, <3>2, <3>3, <3>4
  <2> QED BY <2>1
<1> HIDE DEF m, n
<1>5. /\ RoundHalfUp(m, len) \in lo..hi /\ RoundHalfUp(n, len) \in lo..hi
      /\ RoundHalfUp(m, len) <= RoundHalfUp(n, len)
  BY <1>4, RoundHalfUpBounds, RoundMonotone
<1>6. Blend(a, b, s) = RoundHalfUp(m, len) /\ Blend(a, b, t) = RoundHalfUp(n, len)
  BY <1>1, <1>2, <1>3 DEF Blend, m, n
<1> QED BY <1>2, <1>5, <1>6

(* The same on a window that does not rise.                                *)
LEMMA BlendFalls ==
  ASSUME NEW a \in CurvePoint, NEW b \in CurvePoint, NEW s \in Int, NEW t \in Int,
         a.temp < b.temp, b.duty <= a.duty,
         a.temp <= s, s <= t, t <= b.temp
  PROVE  /\ Blend(a, b, s) \in b.duty..a.duty
         /\ Blend(a, b, t) \in b.duty..a.duty
         /\ Blend(a, b, t) <= Blend(a, b, s)
<1>1. PICK len \in Nat \ {0}, x \in Nat, y \in Nat, z \in Nat :
        /\ len = b.temp - a.temp /\ x = s - a.temp
        /\ y = t - s /\ z = b.temp - t /\ len = x + y + z
  <2>1. /\ b.temp - a.temp \in Nat \ {0} /\ s - a.temp \in Nat
        /\ t - s \in Nat /\ b.temp - t \in Nat
        /\ b.temp - a.temp = (s - a.temp) + (t - s) + (b.temp - t)
    BY DEF CurvePoint
  <2> QED BY <2>1
<1>2. PICK lo \in Nat, fall \in Nat, hi \in Nat :
        lo = b.duty /\ hi = a.duty /\ hi = lo + fall /\ b.duty - a.duty = -fall
  <2>1. /\ a.duty \in Nat /\ b.duty \in Nat /\ a.duty - b.duty \in Nat
        /\ a.duty = b.duty + (a.duty - b.duty)
        /\ b.duty - a.duty = -(a.duty - b.duty)
    BY DEF CurvePoint, Duty
  <2> QED BY <2>1
<1>3. t - a.temp = x + y /\ s - a.temp = x
  BY <1>1 DEF CurvePoint
<1> DEFINE m == hi * len + x * (-fall)
           n == hi * len + (x + y) * (-fall)
<1>4. /\ m \in Int /\ n \in Int
      /\ lo * len <= n /\ n <= m /\ m <= hi * len
      /\ lo * len <= m /\ n <= hi * len
  <2>1. hi * len = lo * len + x * fall + y * fall + z * fall
    <3>1. hi * len = lo * len + fall * len
      BY <1>2
    <3>2. fall * len = x * fall + y * fall + z * fall
      BY <1>1
    <3>3. lo * len \in Nat /\ x * fall \in Nat /\ y * fall \in Nat /\ z * fall \in Nat
      OBVIOUS
    <3> QED BY <3>1, <3>2, <3>3
  <2>2. /\ lo * len \in Nat /\ x * fall \in Nat /\ y * fall \in Nat
        /\ z * fall \in Nat /\ hi * len \in Nat
    OBVIOUS
  <2>3. x * (-fall) = -(x * fall) /\ (x + y) * (-fall) = -(x * fall) - (y * fall)
    OBVIOUS
  <2> QED BY <2>1, <2>2, <2>3
<1> HIDE DEF m, n
<1>5. /\ RoundHalfUp(m, len) \in lo..hi /\ RoundHalfUp(n, len) \in lo..hi
      /\ RoundHalfUp(n, len) <= RoundHalfUp(m, len)
  BY <1>4, RoundHalfUpBounds, RoundMonotone
<1>6. Blend(a, b, s) = RoundHalfUp(m, len) /\ Blend(a, b, t) = RoundHalfUp(n, len)
  BY <1>1, <1>2, <1>3 DEF Blend, m, n
<1> QED BY <1>2, <1>5, <1>6

LEMMA BlendOnward ==
  ASSUME NEW up \in BOOLEAN,
         NEW a \in CurvePoint, NEW b \in CurvePoint, NEW s \in Int, NEW t \in Int,
         a.temp < b.temp, Onward(up, a.duty, b.duty),
         a.temp <= s, s <= t, t <= b.temp
  PROVE  /\ Blend(a, b, s) \in Int /\ Blend(a, b, t) \in Int
         /\ Onward(up, a.duty, Blend(a, b, s))
         /\ Onward(up, Blend(a, b, s), Blend(a, b, t))
         /\ Onward(up, Blend(a, b, t), b.duty)
<1>1. a.duty \in Int /\ b.duty \in Int
  BY PointTypes
<1>2. CASE up
  <2>1. a.duty <= b.duty
    BY <1>2 DEF Onward
  <2>2. /\ Blend(a, b, s) \in a.duty..b.duty
        /\ Blend(a, b, t) \in a.duty..b.duty
        /\ Blend(a, b, s) <= Blend(a, b, t)
    BY <2>1, BlendRises
  <2> QED BY <1>1, <1>2, <2>2 DEF Onward
<1>3. CASE ~up
  <2>1. b.duty <= a.duty
    BY <1>3 DEF Onward
  <2>2. /\ Blend(a, b, s) \in b.duty..a.duty
        /\ Blend(a, b, t) \in b.duty..a.duty
        /\ Blend(a, b, t) <= Blend(a, b, s)
    BY <2>1, BlendFalls
  <2> QED BY <1>1, <1>3, <2>2 DEF Onward
<1> QED BY <1>2, <1>3

(* Where interpolate takes its value from between the ends of the curve:   *)
(* the window of t, between whose duties it lies.                          *)
LEMMA InterpolateFrom ==
  ASSUME NEW up \in BOOLEAN, NEW curve, ValidCurve(curve), Monotone(up, curve),
         NEW t \in Int, curve[1].temp < t, t < curve[Len(curve)].temp
  PROVE  \E w \in 1..(Len(curve) - 1) :
           /\ curve[w].temp < t /\ t <= curve[w + 1].temp
           /\ Interpolate(curve, t) = Blend(curve[w], curve[w + 1], t)
           /\ Interpolate(curve, t) \in Int
           /\ Onward(up, curve[w].duty, Interpolate(curve, t))
           /\ Onward(up, Interpolate(curve, t), curve[w + 1].duty)
<1>1. /\ Len(curve) \in Nat \ {0}
      /\ \A k \in 1..Len(curve) : curve[k] \in CurvePoint
      /\ \A k \in 1..(Len(curve) - 1) :
           /\ curve[k].temp < curve[k + 1].temp
           /\ Onward(up, curve[k].duty, curve[k + 1].duty)
  BY DEF ValidCurve, Monotone
<1>2. PICK w \in 1..(Len(curve) - 1) :
        w = Window(curve, t) /\ curve[w].temp < t /\ t <= curve[w + 1].temp
  BY ValidIsWithin, WindowFound
<1>3. curve[w] \in CurvePoint /\ curve[w + 1] \in CurvePoint
  BY <1>1
<1>4. curve[1].temp \in Int /\ curve[Len(curve)].temp \in Int
  BY <1>1 DEF CurvePoint
<1>5. Interpolate(curve, t) = Blend(curve[w], curve[w + 1], t)
  BY <1>2, <1>4 DEF Interpolate
<1>6. curve[w].temp <= t
  BY <1>2, <1>3 DEF CurvePoint
<1>7. /\ Blend(curve[w], curve[w + 1], t) \in Int
      /\ Onward(up, curve[w].duty, Blend(curve[w], curve[w + 1], t))
      /\ Onward(up, Blend(curve[w], curve[w + 1], t), curve[w + 1].duty)
  <2>1. /\ curve[w].temp < curve[w + 1].temp
        /\ Onward(up, curve[w].duty, curve[w + 1].duty)
    BY <1>1
  <2>2. t <= t /\ t <= curve[w + 1].temp
    BY <1>2
  <2> QED BY <1>3, <1>6, <2>1, <2>2, BlendOnward
<1> QED BY <1>2, <1>5, <1>7

(* On a curve whose duties only go up, a hotter reading never asks for a   *)
(* slower fan, and on one whose duties only go down a thinner margin never *)
(* does: neither rounding nor the change of windows inverts the order.     *)
THEOREM HotterNeverSlower ==
  ASSUME NEW up \in BOOLEAN, NEW curve, ValidCurve(curve), Monotone(up, curve),
         NEW s \in Int, NEW t \in Int, s <= t
  PROVE  Onward(up, Interpolate(curve, s), Interpolate(curve, t))
<1> DEFINE last == Len(curve)
           Value(x) == Interpolate(curve, x)
<1>1. /\ last \in Nat \ {0}
      /\ \A k \in 1..last : curve[k] \in CurvePoint
      /\ \A k \in 1..(last - 1) :
           /\ curve[k].temp < curve[k + 1].temp
           /\ Onward(up, curve[k].duty, curve[k + 1].duty)
  BY DEF ValidCurve, Monotone
<1>2. ASSUME NEW k \in 1..last PROVE curve[k].temp \in Int /\ curve[k].duty \in Int
  BY <1>1, PointTypes
<1>3. ASSUME NEW j \in 1..last, NEW k \in 1..last, j <= k
      PROVE  Onward(up, curve[j].duty, curve[k].duty)
  BY <1>3, DutiesOnward
<1>4. 1 \in 1..last /\ last \in 1..last
  BY <1>1
<1>5. /\ curve[1].temp \in Int /\ curve[last].temp \in Int
      /\ curve[1].duty \in Int /\ curve[last].duty \in Int
      /\ curve[1].temp <= curve[last].temp
  <2>1. CASE last = 1
    BY <1>2, <1>4, <2>1
  <2>2. CASE 1 < last
    BY <1>2, <1>4, <2>2, PointsAscend
  <2> QED BY <1>1, <1>2, <1>4, <2>1, <2>2
(* Before the first point, between the ends, from the last point on.       *)
<1>6. ASSUME NEW x \in Int
      PROVE  \/ x <= curve[1].temp /\ Value(x) = curve[1].duty
             \/ curve[1].temp < x /\ x < curve[last].temp
             \/ /\ curve[1].temp < x /\ curve[last].temp <= x
                /\ Value(x) = curve[last].duty
  BY <1>5 DEF Interpolate
<1>7. ASSUME NEW x \in Int
      PROVE  /\ Value(x) \in Int
             /\ Onward(up, curve[1].duty, Value(x))
             /\ Onward(up, Value(x), curve[last].duty)
  <2>1. Onward(up, curve[1].duty, curve[last].duty)
    BY <1>1, <1>3, <1>4
  <2>2. CASE curve[1].temp < x /\ x < curve[last].temp
    <3>1. PICK w \in 1..(last - 1) :
            /\ Value(x) \in Int
            /\ Onward(up, curve[w].duty, Value(x))
            /\ Onward(up, Value(x), curve[w + 1].duty)
      BY <2>2, InterpolateFrom
    <3>2. w \in 1..last /\ w + 1 \in 1..last /\ 1 <= w /\ w + 1 <= last
      BY <1>1
    <3>3. /\ Onward(up, curve[1].duty, curve[w].duty)
          /\ Onward(up, curve[w + 1].duty, curve[last].duty)
      BY <1>3, <1>4, <3>2
    <3>4. curve[w].duty \in Int /\ curve[w + 1].duty \in Int
      BY <1>2, <3>2
    <3> HIDE DEF last, Value
    <3> QED BY <1>5, <3>1, <3>3, <3>4, OnwardFacts
  <2> HIDE DEF last, Value
  <2>3. \A a \in Int : Onward(up, a, a)
    BY OnwardFacts
  <2>4. CASE Value(x) = curve[1].duty
    BY <1>5, <2>1, <2>3, <2>4
  <2>5. CASE Value(x) = curve[last].duty
    BY <1>5, <2>1, <2>3, <2>5
  <2> QED BY <1>6, <2>2, <2>4, <2>5
<1>8. CASE s <= curve[1].temp
  <2>1. Value(s) = curve[1].duty
    BY <1>5, <1>6, <1>8
  <2> QED BY <1>7, <2>1
<1>9. CASE curve[last].temp <= t /\ curve[1].temp < t
  <2>1. Value(t) = curve[last].duty
    BY <1>5, <1>6, <1>9
  <2> QED BY <1>7, <2>1
<1>10. CASE /\ curve[1].temp < s /\ s < curve[last].temp
            /\ curve[1].temp < t /\ t < curve[last].temp
  <2>1. PICK i \in 1..(last - 1) :
          /\ curve[i].temp < s /\ s <= curve[i + 1].temp
          /\ Value(s) = Blend(curve[i], curve[i + 1], s)
          /\ Onward(up, Value(s), curve[i + 1].duty)
    BY <1>10, InterpolateFrom
  <2>2. PICK k \in 1..(last - 1) :
          /\ curve[k].temp < t /\ t <= curve[k + 1].temp
          /\ Value(t) = Blend(curve[k], curve[k + 1], t)
          /\ Onward(up, curve[k].duty, Value(t))
    BY <1>10, InterpolateFrom
  <2>3. /\ i \in Int /\ i \in 1..last /\ i + 1 \in 1..last
        /\ k \in Int /\ k \in 1..last /\ k + 1 \in 1..last
    BY <1>1
  <2>4. CASE i = k
    <3>1. curve[i].temp <= s /\ curve[i] \in CurvePoint /\ curve[i + 1] \in CurvePoint
      BY <1>1, <1>2, <2>1, <2>3
    <3>2. /\ curve[i].temp < curve[i + 1].temp
          /\ Onward(up, curve[i].duty, curve[i + 1].duty)
      BY <1>1
    <3>3. t <= curve[i + 1].temp
      BY <2>2, <2>4
    <3>4. Onward(up, Blend(curve[i], curve[i + 1], s), Blend(curve[i], curve[i + 1], t))
      BY <3>1, <3>2, <3>3, BlendOnward
    <3> QED BY <2>1, <2>2, <2>4, <3>4
  <2>5. CASE i < k
    <3>1. Onward(up, curve[i + 1].duty, curve[k].duty)
      BY <1>3, <2>3, <2>5
    <3>2. curve[i + 1].duty \in Int /\ curve[k].duty \in Int
      BY <1>2, <2>3
    <3> HIDE DEF last, Value
    <3>3. Value(s) \in Int /\ Value(t) \in Int
      BY <1>7
    <3> QED BY <2>1, <2>2, <3>1, <3>2, <3>3, OnwardFacts DEF Value
  <2>6. CASE k < i
    <3>1. curve[k + 1].temp <= curve[i].temp
      <4>1. CASE k + 1 = i
        BY <1>2, <2>3, <4>1
      <4>2. CASE k + 1 < i
        BY <1>2, <2>3, <4>2, PointsAscend
      <4> QED BY <2>3, <2>6, <4>1, <4>2
    <3>2. curve[k + 1].temp \in Int /\ curve[i].temp \in Int
      BY <1>2, <2>3
    <3> QED BY <2>1, <2>2, <3>1, <3>2
  <2> QED BY <2>3, <2>4, <2>5, <2>6
<1>11. \/ s <= curve[1].temp
       \/ curve[last].temp <= t /\ curve[1].temp < t
       \/ /\ curve[1].temp < s /\ s < curve[last].temp
          /\ curve[1].temp < t /\ t < curve[last].temp
  <2> HIDE DEF last
  <2> QED BY <1>5
<1> QED BY <1>8, <1>9, <1>10, <1>11

(* A step toward a target, at most max long and cut to the gap, stays      *)
(* between the two: used for the controller's slew.                        *)
LEMMA SlewBetween ==
  ASSUME NEW last \in Duty, NEW target \in Duty, last # target, NEW max \in 1..255
  PROVE  LET gap  == IF target - last < 0 THEN -(target - last) ELSE target - last
             step == IF gap < max THEN gap ELSE max
             next == IF target > last THEN last + step ELSE last - step
         IN  /\ next \in Duty
             /\ \/ last <= next /\ next <= target
                \/ target <= next /\ next <= last
             /\ next - last <= max /\ last - next <= max
<1> DEFINE gap  == IF target - last < 0 THEN -(target - last) ELSE target - last
           step == IF gap < max THEN gap ELSE max
<1>1. gap \in 1..100 /\ (gap = target - last \/ gap = last - target)
  BY DEF Duty
<1>2. step \in 1..255 /\ step <= gap /\ step <= max
  BY <1>1
<1>3. gap = IF target > last THEN target - last ELSE last - target
  BY DEF Duty
<1> HIDE DEF step, gap
<1>4. LET next == IF target > last THEN last + step ELSE last - step
      IN  /\ next \in Duty
          /\ \/ last <= next /\ next <= target
             \/ target <= next /\ next <= last
          /\ next - last <= max /\ last - next <= max
  BY <1>1, <1>2, <1>3 DEF Duty
<1> QED BY <1>4 DEF step, gap
=============================================================================

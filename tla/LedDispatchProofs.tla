-------------------------- MODULE LedDispatchProofs --------------------------
(***************************************************************************)
(* The LED caches never describe a display the hub does not show, and the  *)
(* quantisation of rgb.rs inverts itself on every bucket a duty falls in,  *)
(* for every number of channels and buckets and every gradient.            *)
(***************************************************************************)
EXTENDS LedDispatch, CurveProofs

(* Rounding up and down, as inequalities.                                  *)
LEMMA DivBounds ==
  ASSUME NEW n \in Nat, NEW d \in Nat, d > 0
  PROVE  /\ n \div d \in Nat
         /\ (n \div d) * d <= n
         /\ n < (n \div d) * d + d
OBVIOUS

LEMMA MultMono ==
  ASSUME NEW a \in Nat, NEW b \in Nat, NEW k \in Nat, a <= b
  PROVE  a * k <= b * k /\ a * k \in Nat /\ b * k \in Nat
<1>1. PICK c \in Nat : b = a + c
  <2>1. b - a \in Nat /\ b = a + (b - a)  OBVIOUS
  <2> QED BY <2>1
<1>2. b * k = a * k + c * k  BY <1>1
<1>3. c * k \in Nat /\ a * k \in Nat  OBVIOUS
<1> QED BY <1>2, <1>3

(* The bucket of the duty that stands for a bucket is that bucket, for     *)
(* each bucket that holds a duty at all.                                   *)
LEMMA RoundTrip ==
  ASSUME NEW d \in Duty
  PROVE  /\ BucketDuty(Bucket(d)) \in Duty
         /\ Bucket(BucketDuty(Bucket(d))) = Bucket(d)
<1> DEFINE n == Buckets - 1
           b == (d * n) \div 100
           e == (b * 100 + n - 1) \div n
<1>1. n \in Nat /\ n > 0 /\ d \in Nat /\ d <= 100
  <2>1. Buckets \in 2..255
    BY LedAssumption DEF LedAssumption
  <2> QED BY <2>1 DEF Duty
<1> HIDE DEF n
<1>2. d * n \in Nat
  BY <1>1
<1>3. b \in Nat /\ b * 100 <= d * n /\ d * n < b * 100 + 100
  BY <1>2, DivBounds
<1> HIDE DEF b
<1>4. /\ e \in Nat
      /\ e * n <= b * 100 + n - 1
      /\ b * 100 + n - 1 < e * n + n
  <2>1. b * 100 + n - 1 \in Nat  BY <1>1, <1>3
  <2> QED BY <1>1, <2>1, DivBounds
<1> HIDE DEF e
(* The edge of the bucket is not above the duty...                         *)
<1>5. e <= d
  <2>1. SUFFICES ASSUME d + 1 <= e PROVE FALSE
    BY <1>1, <1>4
  <2>2. (d + 1) * n <= e * n
    BY <1>1, <1>4, <2>1, MultMono
  <2>3. (d + 1) * n = d * n + n
    BY <1>1
  <2>4. e * n \in Nat
    BY <1>1, <1>4
  <2> QED BY <1>1, <1>2, <1>3, <1>4, <2>2, <2>3, <2>4
(* ...and not so far below it that it falls out of the bucket.             *)
<1>6. b * 100 <= e * n /\ e * n < b * 100 + 100
  <2>1. e * n <= d * n
    BY <1>1, <1>4, <1>5, MultMono
  <2>2. e * n \in Nat
    BY <1>1, <1>4
  <2> QED BY <1>1, <1>2, <1>3, <1>4, <2>1, <2>2
<1>7. (e * n) \div 100 = b
  <2>1. e * n \in Nat
    BY <1>1, <1>4
  <2> QED BY <1>3, <1>6, <2>1
<1>8. Bucket(d) = b
  BY <1>1 DEF Bucket, b, n
<1>9. BucketDuty(b) = e
  BY <1>1, <1>4, <1>5 DEF BucketDuty, DivCeil, e, n
<1>10. Bucket(e) = (e * n) \div 100
  BY <1>1, <1>4, <1>5 DEF Bucket, n
<1>11. e \in Duty
  BY <1>1, <1>4, <1>5 DEF Duty
<1> QED BY <1>7, <1>8, <1>9, <1>10, <1>11

----------------------------------------------------------------------------
(* A bucket index is a number below the number of buckets, so never None.  *)
LEMMA BucketIsNumber ==
  ASSUME NEW d \in Duty
  PROVE  Bucket(d) \in 0..(Buckets - 1) /\ Bucket(d) # None
<1>1. Buckets \in 2..255 /\ None \notin 0..255
  BY LedAssumption DEF LedAssumption
<1>2. d \in Nat /\ d <= 100
  BY DEF Duty
<1> DEFINE n == Buckets - 1
<1>3. n \in Nat /\ n <= 254
  BY <1>1
<1> HIDE DEF n
<1>4. d * n <= 100 * n /\ d * n \in Nat
  BY <1>2, <1>3, MultMono
<1>5. /\ (d * n) \div 100 \in Nat
      /\ ((d * n) \div 100) * 100 <= d * n
  BY <1>4, DivBounds
<1>6. (d * n) \div 100 <= n
  BY <1>3, <1>4, <1>5
<1>7. Bucket(d) = (d * n) \div 100
  BY <1>2 DEF Bucket, n
<1> QED BY <1>1, <1>3, <1>5, <1>6, <1>7 DEF n

(* The gradient's colour is a colour.                                      *)
LEMMA ColorInRange ==
  ASSUME NEW d \in Duty
  PROVE  DutyColor(d) \in 0..255
<1>1. Stop = BoundedPoint(255)
  BY DEF Stop, BoundedPoint
<1>2. Within(Stops, 255)
  BY <1>1, LedAssumption DEF LedAssumption, Within
<1>3. d \in Int
  BY DEF Duty
<1>4. Interpolate(Stops, d) \in 0..255
  <2>1. PICK max \in Nat : max = 255  OBVIOUS
  <2> QED BY <1>2, <1>3, <2>1, InterpolateWithin
<1> QED BY <1>4 DEF DutyColor

(* What the last command written looks like, whatever its colour.          *)
LedShape == \E mode, color, speed : lastLed = Effect(mode, color, speed)

(* CachesHonest is inductive once the rung is a rung and the cached        *)
(* command a command.                                                      *)
IInv == /\ rung \in 0..3
        /\ hub \in {"valid", "stale"}
        /\ LedShape
        /\ CachesHonest

LEMMA InitHonest == Init => IInv
BY DEF Init, IInv, LedShape, CachesHonest, CachesDescribe, NoCommand

(* A pass over the channels that leaves no tear behind has reached them    *)
(* all, or none of them.                                                   *)
LEMMA WholePass ==
  ASSUME NEW display, NEW failed, FullPass(display, failed)
  PROVE  /\ failed = {} => \A c \in Channels : shown'[c] = display
         /\ failed # {} /\ ~torn' =>
              ~torn /\ \A c \in Channels : shown'[c] = shown[c]
<1>1. PICK half \in Halves(failed) :
        /\ shown' = [c \in Channels |->
                       IF c \in half THEN Halfway
                       ELSE IF c \in failed THEN shown[c] ELSE display]
        /\ torn' = IF failed = Channels /\ half = {} THEN torn ELSE failed # {}
  BY DEF FullPass
<1>2. failed = {} => half = {}
  BY DEF Halves
<1>3. failed # {} /\ ~torn' => failed = Channels /\ half = {} /\ ~torn
  BY <1>1
<1> QED BY <1>1, <1>2, <1>3

(* A pass of the gradient.                                                 *)
LEMMA GradientHonest ==
  ASSUME IInv, NEW d \in Duties, ShowGradient(d), hub = "valid", hub' = hub
  PROVE  LedShape' /\ CachesHonest'
<1>1. LedShape'
  BY DEF ShowGradient, LedShape, NoCommand
<1>2. SUFFICES ASSUME ~torn' PROVE CachesDescribe'
  BY <1>1 DEF CachesHonest
<1>3. lastLed' = NoCommand
  BY DEF ShowGradient
<1>4. Bucket(d) # None
  BY LedAssumption, BucketIsNumber DEF LedAssumption
<1> DEFINE known == IF lastLed = NoCommand THEN lastBucket ELSE None
<1>5. CASE known = Bucket(d)
  <2>1. lastLed = NoCommand /\ lastBucket' = lastBucket /\ shown' = shown /\ torn' = torn
    BY <1>4, <1>5 DEF ShowGradient
  <2>2. CachesDescribe
    BY <1>2, <2>1 DEF IInv, CachesHonest
  <2> QED BY <1>3, <2>1, <2>2 DEF CachesDescribe
<1>6. CASE known # Bucket(d)
  <2>1. PICK failed \in Failures :
          /\ FullPass(Static(DutyColor(d)), failed)
          /\ lastBucket' = IF failed = {} THEN Bucket(d) ELSE known
    BY <1>6 DEF ShowGradient
  <2>2. CASE failed = {}
    <3>1. \A c \in Channels : shown'[c] = Static(DutyColor(d))
      BY <2>1, <2>2, WholePass
    <3>2. lastBucket' = Bucket(d)
      BY <2>1, <2>2
    <3> QED BY <1>3, <3>1, <3>2 DEF CachesDescribe
  <2>3. CASE failed # {}
    <3>1. ~torn
      BY <1>2, <2>1, <2>3, WholePass
    <3>2. \A c \in Channels : shown'[c] = shown[c]
      BY <1>2, <2>1, <2>3, WholePass
    <3>3. lastBucket' = known
      BY <2>1, <2>3
    <3>4. CachesDescribe
      BY <3>1 DEF IInv, CachesHonest
    <3> QED BY <1>3, <3>2, <3>3, <3>4 DEF CachesDescribe
  <2> QED BY <2>2, <2>3
<1> QED BY <1>5, <1>6

(* A pass of an alarm command, in full or by speed alone.                  *)
LEMMA CommandHonest ==
  ASSUME IInv, NEW cmd, NEW m, NEW x, NEW s, cmd = Effect(m, x, s),
         cmd # NoCommand, ShowCommand(cmd), hub = "valid", hub' = hub
  PROVE  LedShape' /\ CachesHonest'
<1>1. CASE lastLed = cmd
  <2>1. UNCHANGED <<lastLed, lastBucket, shown, torn, hub>>
    BY <1>1 DEF ShowCommand
  <2> QED BY <2>1 DEF IInv, LedShape, CachesHonest, CachesDescribe
<1>2. CASE lastLed # cmd
  <2>1. PICK failed \in Failures :
          /\ IF SpeedOnly(cmd) THEN SpeedPass(cmd.speed, failed)
                               ELSE FullPass(cmd, failed)
          /\ lastLed' = IF failed = {} THEN cmd ELSE lastLed
    BY <1>2 DEF ShowCommand
  <2>2. lastBucket' = lastBucket
    BY DEF ShowCommand
  <2>3. LedShape'
    BY <2>1 DEF IInv, LedShape
  <2>4. SUFFICES ASSUME ~torn' PROVE CachesDescribe'
    BY <2>3 DEF CachesHonest
  <2>5. CASE failed = {}
    <3>1. \A c \in Channels : shown'[c] = cmd
      <4>1. CASE SpeedOnly(cmd)
        <5>1. ~torn
          BY <2>1, <2>4, <4>1 DEF SpeedPass
        <5>2. CachesDescribe
          BY <5>1 DEF IInv, CachesHonest
        <5>3. lastLed # NoCommand
          BY <4>1 DEF SpeedOnly, NoCommand, Effect
        <5>4. TAKE c \in Channels
        <5>5. shown[c] = lastLed
          BY <5>2, <5>3 DEF CachesDescribe
        <5>6. shown'[c] = [lastLed EXCEPT !.mode = "breathing", !.speed = cmd.speed]
          BY <2>1, <2>5, <4>1, <5>5 DEF SpeedPass
        <5>7. PICK mode, color, speed : lastLed = Effect(mode, color, speed)
          BY DEF IInv, LedShape
        <5>8. m = "breathing" /\ color = x
          BY <4>1, <5>7 DEF SpeedOnly, Effect
        <5>9. shown'[c] = Effect("breathing", color, s)
          BY <5>6, <5>7 DEF Effect
        <5> QED BY <5>8, <5>9
      <4>2. CASE ~SpeedOnly(cmd)
        BY <2>1, <2>5, <4>2, WholePass
      <4> QED BY <4>1, <4>2
    <3>2. lastLed' = cmd
      BY <2>1, <2>5
    <3> QED BY <3>1, <3>2 DEF CachesDescribe
  <2>6. CASE failed # {}
    <3>1. ~torn /\ \A c \in Channels : shown'[c] = shown[c]
      <4>1. CASE SpeedOnly(cmd)
        <5>1. failed = Channels /\ ~torn
          BY <2>1, <2>4, <2>6, <4>1 DEF SpeedPass
        <5> QED BY <2>1, <4>1, <5>1 DEF SpeedPass
      <4>2. CASE ~SpeedOnly(cmd)
        BY <2>1, <2>4, <2>6, <4>2, WholePass
      <4> QED BY <4>1, <4>2
    <3>2. \A c \in Channels : shown'[c] = shown[c]
      BY <3>1
    <3>3. lastLed' = lastLed
      BY <2>1, <2>6
    <3>4. CachesDescribe
      BY <3>1 DEF IInv, CachesHonest
    <3> QED BY <2>2, <3>2, <3>3, <3>4 DEF CachesDescribe
  <2> QED BY <2>5, <2>6
<1> QED BY <1>1, <1>2

(* On a stale handle every pass fails, and what is asked for is forgotten  *)
(* or kept, never learnt: the shape is all there is to preserve.           *)
LEMMA StaleHonest ==
  ASSUME IInv, NEW d, Dispatch(d), hub = "stale", hub' = hub
  PROVE  LedShape' /\ CachesHonest'
<1>1. CachesHonest'
  BY DEF CachesHonest
<1>2. CASE rung = 0
  BY <1>1, <1>2 DEF Dispatch, ShowGradient, LedShape, NoCommand
<1>3. CASE rung # 0
  <2>1. PICK mode, color, speed : Command(d) = Effect(mode, color, speed)
    BY DEF IInv, Command, NoCommand, Breathing, Runway
  <2>2. lastLed' = Command(d) \/ lastLed' = lastLed
    BY <1>3 DEF Dispatch, ShowCommand
  <2> QED BY <1>1, <2>1, <2>2 DEF IInv, LedShape
<1> QED BY <1>2, <1>3

LEMMA NextHonest == IInv /\ [Next]_vars => IInv'
<1> SUFFICES ASSUME IInv, [Next]_vars PROVE IInv'
  OBVIOUS
<1>1. CASE Tick
  <2>1. rung' \in 0..3
    BY <1>1 DEF IInv, Tick, Ladder
  <2>2. hub' = hub
    BY <1>1 DEF Tick
  <2>3. PICK d \in Duties :
          \/ (d = duty \/ hub = "valid") /\ Dispatch(d)
          \/ (~calm \/ hub = "stale") /\ UNCHANGED <<caches, shown, torn>>
    BY <1>1 DEF Tick
  <2>4. d \in Duty
    BY LedAssumption DEF LedAssumption
  <2>5. CASE UNCHANGED <<caches, shown, torn>>
    BY <2>1, <2>2, <2>5
    DEF caches, IInv, LedShape, CachesHonest, CachesDescribe
  <2>6. CASE Dispatch(d) /\ hub # "valid"
    <3>1. hub = "stale"
      BY <2>6 DEF IInv
    <3> QED BY <2>1, <2>2, <2>6, <3>1, StaleHonest DEF IInv
  <2>7. CASE Dispatch(d) /\ hub = "valid"
    <3>1. CASE rung = 0
      <4>1. ShowGradient(d)  BY <2>7, <3>1 DEF Dispatch
      <4> QED BY <2>1, <2>2, <2>4, <2>7, <4>1, GradientHonest DEF IInv
    <3>2. CASE rung # 0
      <4>1. ShowCommand(Command(d))  BY <2>7, <3>2 DEF Dispatch
      <4>2. PICK m, x, s : /\ Command(d) = Effect(m, x, s)
                           /\ m \in {"breathing", "runway"}
        BY <3>2 DEF IInv, Command, Breathing, Runway
      <4>3. Command(d) # NoCommand
        BY <4>2 DEF NoCommand, Effect
      <4> QED BY <2>1, <2>2, <2>7, <4>1, <4>2, <4>3, CommandHonest DEF IInv
    <3> QED BY <3>1, <3>2
  <2> QED BY <2>3, <2>5, <2>6, <2>7
<1>2. CASE Reset
  BY <1>2 DEF Reset, caches, IInv, LedShape, CachesHonest
<1>3. CASE Reinit
  BY <1>3 DEF Reinit, IInv, LedShape, CachesHonest, CachesDescribe, NoCommand
<1>4. CASE CalmDown
  BY <1>4 DEF CalmDown, caches, IInv, LedShape, CachesHonest, CachesDescribe
<1>5. CASE UNCHANGED vars
  BY <1>5 DEF vars, caches, IInv, LedShape, CachesHonest, CachesDescribe
<1> QED BY <1>1, <1>2, <1>3, <1>4, <1>5 DEF Next

(* However writes fail and the hub comes and goes, as long as no pass was  *)
(* torn the diff of the LED section compares with what the hub displays.   *)
THEOREM NeverFooled == Spec => []CachesHonest
<1>1. IInv => CachesHonest
  BY DEF IInv
<1> QED BY InitHonest, NextHonest, <1>1, PTL DEF Spec

(* What the last alarm command may have been.                              *)
Commands ==
  [mode : {"breathing"}, color : {AlertColor} \cup 0..255, speed : 0..4]

LEMMA CommandTyped ==
  ASSUME rung \in 1..3, pulse \in 1..PulseMax, NEW d \in Duty
  PROVE  Command(d) \in Commands \cup {Runway}
<1>1. pulse \in 0..4
  <2>1. PulseMax \in 1..4
    BY LedAssumption DEF LedAssumption
  <2> QED BY <2>1
<1>2. DutyColor(BucketDuty(Bucket(d))) \in 0..255
  <2>1. BucketDuty(Bucket(d)) \in Duty
    BY RoundTrip
  <2> QED BY <2>1, ColorInRange
<1>3. CASE rung = 1
  <2>1. \A x \in 0..255 : Breathing(x, 0) \in Commands
    BY DEF Commands, Breathing, Effect
  <2>2. Command(d) = Breathing(DutyColor(BucketDuty(Bucket(d))), 0)
    BY <1>3 DEF Command
  <2> QED BY <1>2, <2>1, <2>2
<1>4. CASE rung = 2
  BY <1>1, <1>4 DEF Command, Commands, Breathing, Effect
<1>5. CASE rung = 3
  BY <1>5 DEF Command
<1> QED BY <1>3, <1>4, <1>5

Typed == lastBucket \in (0..(Buckets - 1)) \cup {None}
         /\ lastLed \in Commands \cup {NoCommand, Runway}

(* What a pass makes of the channels is one of the displays.               *)
LEMMA PassTyped ==
  ASSUME shown \in [Channels -> Displays], torn \in BOOLEAN, NEW failed
  PROVE  /\ \A display \in Displays :
              FullPass(display, failed) =>
                shown' \in [Channels -> Displays] /\ torn' \in BOOLEAN
         /\ \A speed \in 0..4 :
              SpeedPass(speed, failed) =>
                shown' \in [Channels -> Displays] /\ torn' \in BOOLEAN
<1>1. ASSUME NEW display \in Displays, FullPass(display, failed)
      PROVE  shown' \in [Channels -> Displays] /\ torn' \in BOOLEAN
  <2>1. PICK half \in Halves(failed) :
          /\ shown' = [c \in Channels |->
                         IF c \in half THEN Halfway
                         ELSE IF c \in failed THEN shown[c] ELSE display]
          /\ torn' = IF failed = Channels /\ half = {} THEN torn ELSE failed # {}
    BY <1>1 DEF FullPass
  <2>2. Halfway \in Displays
    BY DEF Halfway, Effect, Displays
  <2>3. shown' \in [Channels -> Displays]
    BY <2>1, <2>2
  <2> QED BY <2>1, <2>3
<1>2. ASSUME NEW speed \in 0..4, SpeedPass(speed, failed)
      PROVE  shown' \in [Channels -> Displays] /\ torn' \in BOOLEAN
  <2>1. \A x \in Displays : [x EXCEPT !.mode = "breathing", !.speed = speed] \in Displays
    BY DEF Displays
  <2>2. shown' \in [Channels -> Displays]
    BY <1>2, <2>1 DEF SpeedPass
  <2> QED BY <1>2, <2>2 DEF SpeedPass
<1> QED BY <1>1, <1>2

LEMMA DispatchTyped ==
  ASSUME TypeOK, Typed, NEW d \in Duty, Dispatch(d)
  PROVE  /\ Typed'
         /\ shown' \in [Channels -> Displays]
         /\ torn' \in BOOLEAN
<1>1. Bucket(d) \in 0..(Buckets - 1)
  BY BucketIsNumber
<1>2. shown \in [Channels -> Displays] /\ torn \in BOOLEAN /\ rung \in 0..3
      /\ pulse \in 1..PulseMax
  BY DEF TypeOK
<1>3. CASE rung = 0
  <2>1. Static(DutyColor(d)) \in Displays
    BY ColorInRange DEF Static, Effect, Displays
  <2>2. ShowGradient(d)
    BY <1>3 DEF Dispatch
  <2>3. Typed'
    BY <1>1, <2>2 DEF ShowGradient, Typed
  <2>4. \/ UNCHANGED <<shown, torn>>
        \/ \E failed \in Failures : FullPass(Static(DutyColor(d)), failed)
    BY <2>2 DEF ShowGradient
  <2> QED BY <1>2, <2>1, <2>3, <2>4, PassTyped
<1>4. CASE rung # 0
  <2>1. Command(d) \in Commands \cup {Runway}
    BY <1>2, <1>4, CommandTyped
  <2>2. ShowCommand(Command(d))
    BY <1>4 DEF Dispatch
  <2>3. Command(d) \in Displays /\ Command(d).speed \in 0..4
    BY <2>1 DEF Commands, Displays, Runway, Effect
  <2>4. Typed'
    BY <2>1, <2>2 DEF ShowCommand, Typed
  <2>5. \/ UNCHANGED <<shown, torn>>
        \/ \E failed \in Failures : \/ SpeedPass(Command(d).speed, failed)
                                    \/ FullPass(Command(d), failed)
    BY <2>2 DEF ShowCommand
  <2> QED BY <1>2, <2>3, <2>4, <2>5, PassTyped
<1> QED BY <1>3, <1>4

(* The caches hold nothing but commands that can be asked for, and every   *)
(* channel displays a known effect, with colours in a byte and a speed the *)
(* hub has - or is known to have been left halfway.                        *)
THEOREM TypeCorrect == Spec => []TypeOK
<1>1. TypeOK => Typed
  BY DEF TypeOK, Typed, Commands
<1>2. Init => TypeOK
  <2> SUFFICES ASSUME Init PROVE TypeOK
    OBVIOUS
  <2>1. 1 \in 1..PulseMax
    BY LedAssumption DEF LedAssumption
  <2>2. rung \in 0..3 /\ pulse \in 1..PulseMax
    BY <2>1 DEF Init
  <2>3. shown \in [Channels -> Displays]
    BY DEF Init, Dark, Effect, Displays
  <2> QED BY <2>2, <2>3 DEF Init, TypeOK
<1>3. TypeOK /\ [Next]_vars => TypeOK'
  <2> SUFFICES ASSUME TypeOK, [Next]_vars PROVE TypeOK'
    OBVIOUS
  <2>1. CASE Tick
    <3>1. PICK d \in Duties :
            /\ duty' = d
            /\ \/ Dispatch(d)
               \/ UNCHANGED <<caches, shown, torn>>
      BY <2>1 DEF Tick
    <3>2. d \in Duty
      BY LedAssumption DEF LedAssumption
    <3>3. Typed' /\ shown' \in [Channels -> Displays] /\ torn' \in BOOLEAN
      <4>1. CASE Dispatch(d)
        BY <1>1, <3>2, <4>1, DispatchTyped
      <4>2. CASE UNCHANGED <<caches, shown, torn>>
        BY <1>1, <4>2 DEF caches, TypeOK, Typed
      <4> QED BY <3>1, <4>1, <4>2
    <3>4. rung' \in 0..3 /\ pulse' \in 1..PulseMax
      <4>1. Ladder
        BY <2>1 DEF Tick
      <4>2. PulseMax \in 1..4 /\ rung \in 0..3 /\ pulse \in 1..PulseMax
        BY LedAssumption DEF LedAssumption, TypeOK
      <4>3. CASE UNCHANGED <<rung, pulse>>
        BY <4>2, <4>3
      <4>4. CASE UNCHANGED rung /\ pulse < PulseMax /\ pulse' = pulse + 1
        BY <4>2, <4>4
      <4>5. CASE rung' \in 0..3 /\ pulse' = 1
        BY <4>2, <4>5
      <4> QED BY <4>1, <4>3, <4>4, <4>5 DEF Ladder
    <3>5. hub' \in {"valid", "stale"} /\ calm' \in BOOLEAN
      BY <2>1 DEF Tick, TypeOK
    <3> QED BY <3>1, <3>3, <3>4, <3>5 DEF TypeOK, Typed, Commands
  <2>2. CASE Reset
    <3>1. Dark \in Displays
      BY DEF Dark, Effect, Displays
    <3>2. shown' \in [Channels -> Displays]
      BY <2>2, <3>1 DEF Reset, TypeOK
    <3> QED BY <2>2, <3>2 DEF Reset, caches, TypeOK
  <2>3. CASE Reinit
    BY <2>3 DEF Reinit, TypeOK
  <2>4. CASE CalmDown
    BY <2>4 DEF CalmDown, caches, TypeOK
  <2>5. CASE UNCHANGED vars
    BY <2>5 DEF vars, caches, TypeOK
  <2> QED BY <2>1, <2>2, <2>3, <2>4, <2>5 DEF Next
<1> QED BY <1>2, <1>3, PTL DEF Spec

(* The colour that breathes is one of the bucket's own, for any number of  *)
(* buckets and any gradient.                                               *)
THEOREM BreathStays == Spec => []BreathesInBucket
<1> DEFINE DutyInv == duty \in Duty
<1>1. Init => DutyInv
  BY LedAssumption DEF Init, LedAssumption
<1>2. DutyInv /\ [Next]_vars => DutyInv'
  BY LedAssumption
     DEF LedAssumption, Next, Tick, Reset, Reinit, CalmDown, vars
<1>3. DutyInv => BreathesInBucket
  <2> SUFFICES ASSUME duty \in Duty, rung = 1
               PROVE  \E e \in Duty : /\ Bucket(e) = Bucket(duty)
                                     /\ Command(duty).color = DutyColor(e)
    BY DEF BreathesInBucket
  <2>1. Command(duty).color = DutyColor(BucketDuty(Bucket(duty)))
    BY DEF Command, Breathing, Effect
  <2> QED BY <2>1, RoundTrip
<1> QED BY <1>1, <1>2, <1>3, PTL DEF Spec

----------------------------------------------------------------------------
(* The safety half of SettlesRight: when nothing fails and nothing changes *)
(* over an open hub, one tick is enough and no later step undoes it.  What *)
(* is left to the model checker is that the tick, and the re-init before   *)
(* it, come at all.                                                        *)
Steady == calm /\ hub = "valid" /\ ~torn

OneTickIsEnough == [][(Steady /\ Tick) => (Steady /\ Right)']_vars

StaysRight == [][(Steady /\ Right) => (Steady /\ Right)']_vars

(* A tick of a steady system asks for what it asked for before, and no     *)
(* pass is torn.                                                           *)
LEMMA SteadyTick ==
  ASSUME TypeOK, Steady, Tick
  PROVE  /\ UNCHANGED <<duty, rung, pulse, hub, calm>> /\ ~torn'
         /\ Dispatch(duty)
<1>1. PICK d \in Duties :
        /\ duty' = d
        /\ calm => d = duty
        /\ \/ (d = duty \/ hub = "valid") /\ Dispatch(d)
           \/ (~calm \/ hub = "stale") /\ UNCHANGED <<caches, shown, torn>>
  BY DEF Tick
<1>2. duty' = duty /\ Dispatch(duty)
  BY <1>1 DEF Steady
<1>3. UNCHANGED <<rung, pulse, hub, calm>>
  BY DEF Tick, Ladder, Steady
<1>4. Failures = {{}}
  BY DEF Failures, Steady
<1>5. ~torn'
  BY <1>2, <1>4
     DEF Dispatch, ShowGradient, ShowCommand, FullPass, SpeedPass, Steady
<1> QED BY <1>2, <1>3, <1>5

(* After it the caches hold what the rung asks for, and they are honest.   *)
LEMMA TickIsEnough ==
  ASSUME TypeOK, IInv, IInv', Steady, Tick
  PROVE  (Steady /\ Right)'
<1>1. /\ UNCHANGED <<duty, rung, pulse, hub, calm>> /\ ~torn'
      /\ Dispatch(duty)
  BY SteadyTick
<1>2. Steady' /\ CachesDescribe'
  BY <1>1 DEF Steady, IInv, CachesHonest
<1>3. Failures = {{}}
  BY DEF Failures, Steady
<1>4. CASE rung = 0
  <2>1. lastLed' = NoCommand /\ lastBucket' = Bucket(duty)
    BY <1>1, <1>3, <1>4 DEF Dispatch, ShowGradient
  <2>2. Bucket(duty) # None
    BY LedAssumption, BucketIsNumber DEF TypeOK, LedAssumption
  <2>3. \E d \in Duties :
          /\ Bucket(d) = Bucket(duty)
          /\ \A c \in Channels : shown'[c] = Static(DutyColor(d))
    BY <1>2, <2>1, <2>2 DEF CachesDescribe
  <2> QED BY <1>1, <1>2, <1>4, <2>3 DEF Right
<1>5. CASE rung # 0
  <2>1. lastLed' = Command(duty)
    BY <1>1, <1>3, <1>5 DEF Dispatch, ShowCommand
  <2>2. Command(duty) # NoCommand
    BY <1>5 DEF TypeOK, Command, Breathing, Runway, NoCommand, Effect
  <2>3. \A c \in Channels : shown'[c] = Command(duty)
    BY <1>2, <2>1, <2>2 DEF CachesDescribe
  <2>4. Command(duty)' = Command(duty)
    BY <1>1 DEF Command
  <2> QED BY <1>1, <1>2, <1>5, <2>3, <2>4 DEF Right
<1> QED BY <1>4, <1>5

(* The display is right after one tick of a steady system.                 *)
THEOREM RightAfterTick == Spec => OneTickIsEnough
<1>1. /\ TypeOK /\ TypeOK' /\ IInv /\ IInv' /\ [Next]_vars
      => [(Steady /\ Tick) => (Steady /\ Right)']_vars
  BY TickIsEnough
<1>2. Spec => []IInv
  BY InitHonest, NextHonest, PTL DEF Spec
<1> QED BY <1>1, <1>2, TypeCorrect, PTL DEF Spec, OneTickIsEnough

(* And it stays right.                                                     *)
THEOREM RightStays == Spec => StaysRight
<1>1. /\ TypeOK /\ TypeOK' /\ IInv /\ IInv' /\ [Next]_vars
      => [(Steady /\ Right) => (Steady /\ Right)']_vars
  <2> SUFFICES ASSUME TypeOK, IInv, IInv', Next, Steady, Right
               PROVE  (Steady /\ Right)'
    OBVIOUS
  <2>1. CASE Tick
    BY <2>1, TickIsEnough
  <2>2. CASE Reset
    BY <2>2 DEF Reset, Steady
  <2>3. CASE Reinit
    BY <2>3 DEF Reinit, Steady, Right, Command
  <2>4. CASE CalmDown
    BY <2>4 DEF CalmDown, Steady
  <2> QED BY <2>1, <2>2, <2>3, <2>4 DEF Next
<1>2. Spec => []IInv
  BY InitHonest, NextHonest, PTL DEF Spec
<1> QED BY <1>1, <1>2, TypeCorrect, PTL DEF Spec, StaysRight
=============================================================================

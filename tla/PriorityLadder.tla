--------------------------- MODULE PriorityLadder ---------------------------
(***************************************************************************)
(* What the alarm ladder promises: the rung shown is never below the       *)
(* highest rung wanted, it climbs to exactly that rung at once, and it     *)
(* falls - to exactly that rung again - once the rung shown has not been   *)
(* wanted for Dwell, counted from the last time it was.  It need not do so *)
(* at that very moment, but it never waits as long as Patience.            *)
(***************************************************************************)
EXTENDS Integers

CONSTANTS Top, Dwell, Patience

VARIABLES
  shown,
  wanted,          \* the highest rung whose trigger is active
  unwanted,        \* for how long `shown' has not been wanted
  pace             \* time since the step before

ladder == <<shown, wanted, unwanted, pace>>

LadderInit == shown = 0 /\ wanted = 0 /\ unwanted = 0 /\ pace = 0

Climb == /\ shown < wanted'
         /\ shown' = wanted'
         /\ unwanted' = 0

Keep ==  /\ shown >= wanted'
         /\ shown' = shown
         /\ unwanted' = IF shown = wanted' THEN 0 ELSE unwanted + pace'
         /\ unwanted' < Patience

Fall ==  /\ shown > wanted'
         /\ unwanted + pace' >= Dwell
         /\ shown' = wanted'
         /\ unwanted' = 0

LadderNext == /\ wanted' \in 0..Top
              /\ pace' \in Nat
              /\ Climb \/ Keep \/ Fall

LadderSpec == LadderInit /\ [][LadderNext]_ladder
=============================================================================

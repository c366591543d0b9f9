------------------------------- MODULE Clock -------------------------------
(* Date.now() of the API process, in ticks; time stops at the bound.       *)
EXTENDS Integers

CONSTANTS
  MaxTime,      \* bound: last tick
  Second        \* ticks in a second

ASSUME ClockAssumption == MaxTime \in Nat /\ Second \in Nat \ {0}

VARIABLE now

Times == 0..MaxTime

Tick == now < MaxTime /\ now' = now + 1
=============================================================================

----------------------------- MODULE TimerPromise -----------------------------
(***************************************************************************)
(* What the collection timers of gather promise to the threads they start, *)
(* without saying how they are set: while they run, each expires at every  *)
(* multiple of its interval and at no other time; they are started         *)
(* together and stopped together, and the clock jumps only while they are  *)
(* stopped.                                                                *)
(***************************************************************************)
EXTENDS Naturals

CONSTANT Interval       \* of the timers, which it names: positive numbers

VARIABLES
  clock,                \* seconds
  next                  \* when a timer expires next; 0: it is stopped

vars == <<clock, next>>

Off == [n \in Interval |-> 0]

On == [n \in Interval |-> (clock \div n + 1) * n]

Expires(n) == next[n] = clock + 1       \* with the second that passes

Init == clock \in Nat /\ next \in {Off, On}

-----------------------------------------------------------------------------
Second ==
  /\ clock' = clock + 1
  /\ next' = [n \in Interval |-> IF Expires(n) THEN clock' + n ELSE next[n]]

Start ==
  /\ next = Off
  /\ next' = On
  /\ UNCHANGED clock

Stop ==
  /\ next' = Off
  /\ UNCHANGED clock

Set ==
  /\ next = Off
  /\ clock' \in Nat
  /\ UNCHANGED next

Next == Second \/ Start \/ Stop \/ Set

Spec == Init /\ [][Next]_vars
=============================================================================

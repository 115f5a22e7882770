--------------------------- MODULE ClockSync_proofs ---------------------------
(***************************************************************************)
(* Proofs about ClockSync, for every set of intervals.  The argument for   *)
(* Aligned: the timers are stopped whenever timer_routine is between       *)
(* seeing the flag and starting them (Stopped), so that the clock jumps    *)
(* only then; a second that passes, an expiry and a start keep the next    *)
(* expiry at a multiple of the interval.                                   *)
(***************************************************************************)
EXTENDS ClockSync, TLAPS

LEMMA MultipleMod ==
  ASSUME NEW q \in Int, NEW b \in Nat \ {0}
  PROVE  (q * b) % b = 0
  BY SMT

LEMMA DivMod ==
  ASSUME NEW a \in Nat, NEW b \in Nat \ {0}
  PROVE  /\ a \div b \in Nat
         /\ (a \div b) * b <= a
         /\ a < (a \div b) * b + b
         /\ a % b = 0 => a = (a \div b) * b
  BY SMT

(***************************************************************************)
(* One interval later is as aligned as now.                                *)
(***************************************************************************)
LEMMA NextMultiple ==
  ASSUME NEW a \in Nat, NEW b \in Nat \ {0}, a % b = 0
  PROVE  (a + b) % b = 0
  <1> DEFINE q == a \div b
  <1>1. q \in Nat /\ a = q * b
    BY DivMod
  <1> HIDE DEF q
  <1>2. a + b = (q + 1) * b
    BY <1>1
  <1>3. ((q + 1) * b) % b = 0
    BY <1>1, MultipleMod
  <1> QED BY <1>2, <1>3

(***************************************************************************)
(* A timer is started with a delay that is not 0 and at most its interval, *)
(* and that ends at a multiple of the interval.                            *)
(***************************************************************************)
LEMMA FirstDelayFits ==
  ASSUME NEW a \in Nat, NEW b \in Nat \ {0}
  PROVE  /\ FirstDelay(a, b) \in 1 .. b
         /\ (a + FirstDelay(a, b)) % b = 0
  <1> DEFINE q == (a + (b - 1)) \div b
  <1>1. q \in Nat /\ q * b <= a + (b - 1) /\ a + (b - 1) < q * b + b
    BY DivMod, a + (b - 1) \in Nat
  <1>2. q * b \in Nat
    BY <1>1
  <1>3. APPROACH(a, b) = q * b - a
    BY DEF APPROACH
  <1> HIDE DEF q
  <1>4. q * b - a \in 0 .. b - 1
    BY <1>1, <1>2
  <1>5. CASE APPROACH(a, b) = 0
    <2>1. FirstDelay(a, b) = b
      BY <1>5 DEF FirstDelay
    <2>2. a = q * b
      BY <1>2, <1>3, <1>5
    <2>3. a + b = (q + 1) * b
      BY <1>1, <2>2
    <2>4. ((q + 1) * b) % b = 0
      BY <1>1, MultipleMod
    <2> QED BY <2>1, <2>3, <2>4
  <1>6. CASE APPROACH(a, b) # 0
    <2> DEFINE p == q * b
    <2>1. FirstDelay(a, b) = p - a
      BY <1>3, <1>6 DEF FirstDelay
    <2>2. p - a \in 0 .. b - 1 /\ p - a # 0
      BY <1>3, <1>4, <1>6
    <2>3. p \in Nat
      BY <1>2
    <2>4. p % b = 0
      BY <1>1, MultipleMod
    <2> HIDE DEF p
    <2>5. FirstDelay(a, b) \in 1 .. b /\ a + FirstDelay(a, b) = p
      BY <2>1, <2>2, <2>3
    <2> QED BY <2>4, <2>5
  <1> QED BY <1>5, <1>6

-----------------------------------------------------------------------------
(***************************************************************************)
(* The inductive invariant: the part of the type invariant that the        *)
(* argument needs, Stopped and Aligned.                                    *)
(***************************************************************************)
Clocked ==
  /\ clock \in Nat
  /\ left \in [Interval -> Nat]

Stopped ==
  tpc \in {"start", "check", "giveup", "read", "erase", "set", "sleep", "dead"}
    => \A n \in Interval : left[n] = 0

IInv == Clocked /\ Stopped /\ Aligned

LEMMA StartInv == Init => IInv
  BY IntervalAssumption DEF Init, IInv, Clocked, Stopped, Aligned, Moment

LEMMA StepInv == IInv /\ [Next]_vars => IInv'
  <1> SUFFICES ASSUME IInv, [Next]_vars PROVE IInv'
    OBVIOUS
  <1> USE IntervalAssumption, ClockAssumption
  <1>1. CASE Tick
    <2>1. clock' = clock + 1 /\ tpc' = tpc
      BY <1>1 DEF Tick, routine
    <2>2. ASSUME NEW n \in Interval
          PROVE  /\ left[n] = 0 => left'[n] = 0
                 /\ left[n] = 1 => left'[n] = n
                 /\ left[n] \notin {0, 1} => left'[n] = left[n] - 1
                 /\ left'[n] \in Nat
      BY <1>1 DEF Tick, IInv, Clocked
    <2>3. Clocked'
      <3>1. left' = [n \in Interval |-> left'[n]]
        BY <1>1 DEF Tick
      <3>2. left' \in [Interval -> Nat]
        BY <2>2, <3>1, Zenon
      <3> QED BY <2>1, <3>2 DEF IInv, Clocked
    <2>4. Stopped'
      BY <2>1, <2>2 DEF IInv, Stopped
    <2>5. ASSUME NEW n \in Interval, left'[n] > 0
          PROVE  (clock' + left'[n]) % n = 0
      <3>1. n \in Nat \ {0} /\ left[n] \in Nat /\ clock \in Nat
        BY DEF IInv, Clocked
      <3>2. left[n] > 0 /\ (clock + left[n]) % n = 0
        BY <2>2, <2>5, <3>1 DEF IInv, Aligned
      <3>3. CASE left[n] = 1
        <4>1. (clock + 1 + n) % n = 0
          BY <3>1, <3>2, <3>3, NextMultiple, clock + 1 \in Nat
        <4> QED BY <2>1, <2>2, <3>3, <4>1
      <3>4. CASE left[n] # 1
        <4>1. clock' + left'[n] = clock + left[n]
          BY <2>1, <2>2, <3>1, <3>2, <3>4
        <4> QED BY <3>2, <4>1
      <3> QED BY <3>3, <3>4
    <2> QED BY <2>3, <2>4, <2>5 DEF IInv, Aligned
  <1>2. CASE Resume
    <2>1. clock' = clock /\ tpc' = "ready"
      BY <1>2 DEF Resume
    <2>2. left' = [n \in Interval |-> FirstDelay(clock, n)]
      BY <1>2 DEF Resume, StartTimers
    <2>3. ASSUME NEW n \in Interval
          PROVE  left'[n] \in Nat /\ (clock' + left'[n]) % n = 0
      <3>1. n \in Nat \ {0} /\ clock \in Nat
        BY DEF IInv, Clocked
      <3>2. left'[n] = FirstDelay(clock, n)
        BY <2>2
      <3>3. FirstDelay(clock, n) \in 1 .. n /\ (clock + FirstDelay(clock, n)) % n = 0
        BY <3>1, FirstDelayFits
      <3> QED BY <2>1, <3>1, <3>2, <3>3
    <2>4. left' \in [Interval -> Nat]
      BY <2>2, <2>3
    <2> QED BY <2>1, <2>3, <2>4 DEF IInv, Clocked, Stopped, Aligned
  <1>3. CASE SeeFlag
    BY <1>3 DEF SeeFlag, StopTimers, IInv, Clocked, Stopped, Aligned
  <1>4. CASE SetClock
    <2>1. clock' \in Nat /\ left' = left /\ tpc = "set"
      BY <1>4 DEF SetClock, timers, Moment
    <2> QED BY <2>1 DEF IInv, Clocked, Stopped, Aligned
  <1>5. CASE ClearFlag
    <2>1. tpc = "giveup" \/ tpc = "ready"
      BY <1>5 DEF ClearFlag
    <2>2. clock' = clock /\ left' = left /\ tpc' = "spin"
      BY <1>5 DEF ClearFlag, timers
    <2> QED BY <2>1, <2>2 DEF IInv, Clocked, Stopped, Aligned
  <1>6. CASE CheckTime \/ ReadTime \/ EraseTime \/ Refused
    <2>1. clock' = clock /\ left' = left
      BY <1>6 DEF CheckTime, ReadTime, EraseTime, Refused, timers
    <2>2. tpc \in {"check", "read", "erase", "set"}
      BY <1>6 DEF CheckTime, ReadTime, EraseTime, Refused
    <2> QED BY <2>1, <2>2 DEF IInv, Clocked, Stopped, Aligned
  <1>7. CASE ReceiverStep \/ (\E c \in Command : Receive(c)) \/ UNCHANGED vars
    <2>1. clock' = clock /\ left' = left /\ tpc' = tpc
      BY <1>7 DEF ReceiverStep, Store, Post, Receive, vars, timers, routine
    <2> QED BY <2>1 DEF IInv, Clocked, Stopped, Aligned
  <1> QED
    BY <1>1, <1>2, <1>3, <1>4, <1>5, <1>6, <1>7 DEF Next, RoutineStep

(***************************************************************************)
(* For every set of intervals a running collection timer expires at a      *)
(* multiple of its interval, whatever commands arrive and however they     *)
(* overlap (gather.c 2425-2428, 2473-2494).                                *)
(***************************************************************************)
THEOREM ClockAligned == Spec => []Aligned
  <1>1. Init => IInv
    BY StartInv
  <1>2. IInv /\ [Next]_vars => IInv'
    BY StepInv
  <1>3. IInv => Aligned
    BY DEF IInv
  <1> QED BY <1>1, <1>2, <1>3, PTL DEF Spec
-----------------------------------------------------------------------------
(***************************************************************************)
(* Type correctness, the two flags apart from the rest.                    *)
(***************************************************************************)
FlagsOK == check_time_flag \in BOOLEAN /\ spoilt \in BOOLEAN

DataOK ==
  /\ clock \in Moment
  /\ left \in [Interval -> Nat]
  /\ rpc \in {"idle", "empty", "stored"}
  /\ cmd \in Command /\ check_time \in Command /\ time_tm \in Command
  /\ tpc \in {"start", "ready", "spin", "check", "giveup", "read", "erase",
              "set", "sleep", "dead"}
  /\ asked \in Command /\ done \in Command

LEMMA StartType == Init => FlagsOK /\ DataOK
  <1> SUFFICES ASSUME Init PROVE FlagsOK /\ DataOK
    OBVIOUS
  <1>1. FlagsOK
    BY Zenon DEF Init, FlagsOK
  <1>2. DataOK
    BY DEF Init, DataOK, Command
  <1> QED BY <1>1, <1>2

LEMMA StepType == Clocked' /\ FlagsOK /\ DataOK /\ [Next]_vars => FlagsOK' /\ DataOK'
  <1> SUFFICES ASSUME Clocked', FlagsOK, DataOK, [Next]_vars
               PROVE  FlagsOK' /\ DataOK'
    OBVIOUS
  <1> USE ClockAssumption DEF history, receiver, routine, timers
  <1>1. FlagsOK'
    <2>1. ASSUME NEW c \in Command, Receive(c) PROVE FlagsOK'
      BY Zenon, <2>1 DEF Receive, FlagsOK
    <2>2. CASE ReceiverStep
      BY Zenon, <2>2 DEF ReceiverStep, Store, Post, FlagsOK
    <2>3. CASE RoutineStep
      BY Zenon, <2>3 DEF RoutineStep, Resume, ClearFlag, SeeFlag, CheckTime,
        ReadTime, EraseTime, SetClock, Refused, FlagsOK
    <2>4. CASE Tick \/ UNCHANGED vars
      BY Zenon, <2>4 DEF Tick, vars, FlagsOK
    <2> QED BY Zenon, <2>1, <2>2, <2>3, <2>4 DEF Next
  <1>2. DataOK'
    <2> USE DEF DataOK, Clocked, Command, Moment
    <2>1. ASSUME NEW c \in Command, Receive(c) PROVE DataOK'
      BY <2>1 DEF Receive
    <2>2. CASE ReceiverStep
      BY <2>2 DEF ReceiverStep, Store, Post
    <2>3. CASE Resume \/ ClearFlag \/ SeeFlag \/ EraseTime
      BY <2>3 DEF Resume, ClearFlag, SeeFlag, EraseTime
    <2>4. CASE CheckTime
      BY <2>4 DEF CheckTime
    <2>5. CASE ReadTime
      BY <2>5 DEF ReadTime, Seen
    <2>6. CASE SetClock \/ Refused
      BY <2>6 DEF SetClock, Refused
    <2>7. CASE Tick
      BY <2>7 DEF Tick
    <2>8. CASE UNCHANGED vars
      BY <2>8 DEF vars
    <2> QED BY Zenon, <2>1, <2>2, <2>3, <2>4, <2>5, <2>6, <2>7, <2>8
          DEF Next, RoutineStep
  <1> QED BY <1>1, <1>2

(***************************************************************************)
(* For every set of intervals the variables keep their types: no timer is  *)
(* started with a negative delay, and the clock is set only to a time that *)
(* settimeofday accepts (gather.c 2435-2490).                              *)
(***************************************************************************)
THEOREM TypeCorrect == Spec => []TypeOK
  <1>1. Init => IInv /\ FlagsOK /\ DataOK
    BY StartInv, StartType
  <1>2. IInv /\ [Next]_vars => Clocked'
    BY StepInv DEF IInv
  <1>3. IInv /\ FlagsOK /\ DataOK /\ [Next]_vars => (IInv /\ FlagsOK /\ DataOK)'
    BY StepInv, StepType, <1>2
  <1>4. FlagsOK /\ DataOK => TypeOK
    BY Zenon DEF FlagsOK, DataOK, TypeOK
  <1> QED BY <1>1, <1>3, <1>4, PTL DEF Spec

-----------------------------------------------------------------------------
(***************************************************************************)
(* LastCommandWins.  While no command has been spoilt, the time asked for  *)
(* travels from the command through check_time and time_tm into the clock, *)
(* and the two threads take turns: the receiver works only while           *)
(* timer_routine spins with the flag down.                                 *)
(***************************************************************************)
Receiving ==
  /\ rpc \in {"empty", "stored"}
  /\ ~check_time_flag /\ tpc = "spin"
  /\ cmd \in Moment
  /\ rpc = "stored" => check_time = cmd
  /\ done = asked

Quiet ==
  /\ rpc = "idle" /\ ~check_time_flag
  /\ tpc \in {"start", "ready", "spin"}
  /\ done = asked

Executing ==
  /\ rpc = "idle" /\ check_time_flag
  /\ asked \in Moment
  /\ \/ tpc \in {"spin", "check", "read"} /\ check_time = asked
     \/ tpc \in {"erase", "set"} /\ time_tm = asked
     \/ tpc \in {"sleep", "ready"} /\ done = asked

Serial == spoilt \/ Receiving \/ Quiet \/ Executing

LEMMA StartSerial == Init => Serial
  BY Zenon DEF Init, Serial, Quiet

LEMMA StepSerial == Serial /\ [Next]_vars => Serial'
  <1> SUFFICES ASSUME Serial, [Next]_vars PROVE Serial'
    OBVIOUS
  <1> USE ClockAssumption DEF Serial, Receiving, Quiet, Executing, history,
          receiver, routine
  <1>1. ASSUME NEW c \in Command, Receive(c) PROVE Serial'
    BY <1>1 DEF Receive
  <1>2. CASE Store
    BY <1>2 DEF Store
  <1>3. CASE Post
    BY <1>3 DEF Post
  <1>4. CASE Resume
    BY <1>4 DEF Resume
  <1>5. CASE ClearFlag
    BY <1>5 DEF ClearFlag
  <1>6. CASE SeeFlag
    BY <1>6 DEF SeeFlag
  <1>7. CASE CheckTime
    <2>1. CASE spoilt
      BY <1>7, <2>1 DEF CheckTime
    <2>2. CASE ~spoilt
      <3>1. Seen = {asked} /\ asked \in Moment /\ asked # None /\ Executing
        BY <1>7, <2>2 DEF CheckTime, Seen, Moment
      <3> QED BY <1>7, <2>2, <3>1 DEF CheckTime
    <2> QED BY <2>1, <2>2
  <1>8. CASE ReadTime
    <2>1. CASE spoilt
      BY <1>8, <2>1 DEF ReadTime
    <2>2. CASE ~spoilt
      <3>1. Seen = {asked} /\ Executing
        BY <1>8, <2>2 DEF ReadTime, Seen
      <3> QED BY <1>8, <2>2, <3>1 DEF ReadTime
    <2> QED BY <2>1, <2>2
  <1>9. CASE EraseTime
    BY <1>9 DEF EraseTime
  <1>10. CASE SetClock
    BY <1>10 DEF SetClock
  <1>11. CASE Refused
    BY <1>11 DEF Refused
  <1>12. CASE Tick \/ UNCHANGED vars
    BY <1>12 DEF Tick, vars
  <1> QED
    BY <1>1, <1>2, <1>3, <1>4, <1>5, <1>6, <1>7, <1>8, <1>9, <1>10, <1>11,
       <1>12 DEF Next, ReceiverStep, RoutineStep

(***************************************************************************)
(* For any clock: once the threads are at rest, and if commands never      *)
(* overlapped, the clock was last set to the last time a server asked for  *)
(* (gather.c 251-270, 2430-2496).                                          *)
(***************************************************************************)
THEOREM CommandExecuted == Spec => []LastCommandWins
  <1>1. Init => Serial
    BY StartSerial
  <1>2. Serial /\ [Next]_vars => Serial'
    BY StepSerial
  <1>3. Serial => LastCommandWins
    BY DEF Serial, Receiving, Quiet, Executing, LastCommandWins
  <1> QED BY <1>1, <1>2, <1>3, PTL DEF Spec
-----------------------------------------------------------------------------
(***************************************************************************)
(* KeepsPromise.  A timer is started with the delay to the next multiple   *)
(* of its interval, so that the expiries seen from outside depend on the   *)
(* clock alone; Stopped shows that the timers are off where they are       *)
(* started and where the clock is set.                                     *)
(***************************************************************************)
LEMMA QuotientIs ==
  ASSUME NEW a \in Nat, NEW b \in Nat \ {0}, NEW q \in Nat,
         q * b <= a, a < q * b + b
  PROVE  a \div b = q
  <1> DEFINE p == a \div b
  <1>1. p \in Nat /\ p * b <= a /\ a < p * b + b
    BY DivMod
  <1> HIDE DEF p
  <1>2. CASE p < q
    <2>1. PICK d \in Nat : q = p + 1 + d
      <3>1. q - p - 1 \in Nat /\ q = p + 1 + (q - p - 1)
        BY <1>1, <1>2
      <3> QED BY <3>1
    <2>2. q * b = p * b + b + d * b /\ d * b \in Nat
      BY <1>1, <2>1
    <2> QED BY <1>1, <2>2
  <1>3. CASE q < p
    <2>1. PICK d \in Nat : p = q + 1 + d
      <3>1. p - q - 1 \in Nat /\ p = q + 1 + (p - q - 1)
        BY <1>1, <1>3
      <3> QED BY <3>1
    <2>2. p * b = q * b + b + d * b /\ d * b \in Nat
      BY <1>1, <2>1
    <2> QED BY <1>1, <2>2
  <1>4. CASE p = q
    BY <1>4 DEF p
  <1> QED BY <1>1, <1>2, <1>3, <1>4

(***************************************************************************)
(* The delay to an aligned expiry is the one that FirstDelay computes.     *)
(***************************************************************************)
LEMMA FirstDelayIsNext ==
  ASSUME NEW a \in Nat, NEW b \in Nat \ {0}
  PROVE  a + FirstDelay(a, b) = (a \div b + 1) * b
  <1> DEFINE c == a + FirstDelay(a, b)
             m == c \div b
             q == m - 1
  <1>1. FirstDelay(a, b) \in 1 .. b
    BY FirstDelayFits
  <1>2. c \in Nat /\ c % b = 0
    <2>1. c % b = 0
      BY FirstDelayFits
    <2> QED BY <1>1, <2>1
  <1>3. m \in Nat /\ c = m * b
    BY <1>2, DivMod
  <1>4. c > a /\ c <= a + b
    BY <1>1
  <1> HIDE DEF c, m
  <1>5. m # 0
    BY <1>2, <1>3, <1>4
  <1>6. q \in Nat /\ m = q + 1
    BY <1>3, <1>5
  <1> HIDE DEF q
  <1>7. c = q * b + b /\ q * b \in Nat
    BY <1>3, <1>6
  <1>8. a \div b = q
    BY <1>4, <1>6, <1>7, QuotientIs
  <1> QED BY <1>3, <1>6, <1>8 DEF c

LEMMA StoppedIsOff ==
  ASSUME \A n \in Interval : left[n] = 0
  PROVE  [n \in Interval |-> IF left[n] = 0 THEN 0 ELSE clock + left[n]]
           = Timers!Off
  BY DEF Timers!Off

LEMMA StartPromise == Init => Timers!Init
  <1> SUFFICES ASSUME Init PROVE Timers!Init
    OBVIOUS
  <1>1. clock \in Nat
    BY ClockAssumption DEF Init, Moment
  <1>2. \A n \in Interval : left[n] = 0
    BY DEF Init
  <1> QED BY <1>1, <1>2, StoppedIsOff DEF Timers!Init

LEMMA TickPromise == IInv /\ Tick => Timers!Second
  <1> SUFFICES ASSUME IInv, Tick PROVE Timers!Second
    OBVIOUS
  <1> DEFINE next == [n \in Interval |-> IF left[n] = 0 THEN 0 ELSE clock + left[n]]
  <1>1. clock \in Nat /\ clock' = clock + 1
    BY DEF IInv, Clocked, Tick
  <1>2. ASSUME NEW n \in Interval
        PROVE  (IF left'[n] = 0 THEN 0 ELSE clock' + left'[n])
                 = IF next[n] = clock + 1 THEN clock' + n ELSE next[n]
    <2>1. n \in Nat \ {0} /\ left[n] \in Nat
      BY IntervalAssumption DEF IInv, Clocked
    <2>2. left'[n] = IF left[n] = 1 THEN n ELSE IF left[n] > 1 THEN left[n] - 1 ELSE 0
      BY DEF Tick
    <2>3. next[n] = IF left[n] = 0 THEN 0 ELSE clock + left[n]
      OBVIOUS
    <2> HIDE DEF next
    <2>4. CASE left[n] = 0
      BY <1>1, <2>1, <2>2, <2>3, <2>4
    <2>5. CASE left[n] = 1
      BY <1>1, <2>1, <2>2, <2>3, <2>5
    <2>6. CASE left[n] \notin {0, 1}
      BY <1>1, <2>1, <2>2, <2>3, <2>6
    <2> QED BY <2>4, <2>5, <2>6
  <1> QED BY <1>1, <1>2 DEF Timers!Second, Timers!Expires

LEMMA ResumePromise == IInv /\ Resume => Timers!Start
  <1> SUFFICES ASSUME IInv, Resume PROVE Timers!Start
    OBVIOUS
  <1>1. clock \in Nat /\ clock' = clock
    BY DEF IInv, Clocked, Resume
  <1>2. \A n \in Interval : left[n] = 0
    BY DEF Resume, IInv, Stopped
  <1>3. ASSUME NEW n \in Interval
        PROVE  (IF left'[n] = 0 THEN 0 ELSE clock' + left'[n])
                 = (clock \div n + 1) * n
    <2>1. n \in Nat \ {0}
      BY IntervalAssumption
    <2>2. left'[n] = FirstDelay(clock, n)
      BY DEF Resume, StartTimers
    <2>3. FirstDelay(clock, n) \in 1 .. n
      BY <1>1, <2>1, FirstDelayFits
    <2>4. clock + FirstDelay(clock, n) = (clock \div n + 1) * n
      BY <1>1, <2>1, FirstDelayIsNext
    <2> QED BY <1>1, <2>1, <2>2, <2>3, <2>4
  <1> QED BY <1>1, <1>2, <1>3, StoppedIsOff DEF Timers!Start, Timers!On

LEMMA PromiseStep == IInv /\ [Next]_vars => [Timers!Next]_(Timers!vars)
  <1> SUFFICES ASSUME IInv, [Next]_vars PROVE [Timers!Next]_(Timers!vars)
    OBVIOUS
  <1>1. CASE Tick
    BY <1>1, TickPromise DEF Timers!Next
  <1>2. CASE Resume
    BY <1>2, ResumePromise DEF Timers!Next
  <1>3. CASE SeeFlag
    <2>1. clock' = clock /\ left' = [n \in Interval |-> 0]
      BY <1>3 DEF SeeFlag, StopTimers
    <2>2. [n \in Interval |-> IF left'[n] = 0 THEN 0 ELSE clock' + left'[n]]
            = [n \in Interval |-> 0]
      BY <2>1
    <2>3. Timers!Stop
      BY <2>1, <2>2 DEF Timers!Stop, Timers!Off
    <2> QED BY <2>3 DEF Timers!Next
  <1>4. CASE SetClock
    <2>1. clock' \in Nat /\ left' = left /\ tpc = "set"
      BY <1>4, ClockAssumption DEF SetClock, timers, Moment
    <2>2. \A n \in Interval : left[n] = 0
      BY <2>1 DEF IInv, Stopped
    <2>3. Timers!Set
      BY <2>1, <2>2 DEF Timers!Set, Timers!Off
    <2> QED BY <2>3 DEF Timers!Next
  <1>5. CASE ClearFlag \/ CheckTime \/ ReadTime \/ EraseTime \/ Refused
             \/ ReceiverStep \/ (\E c \in Command : Receive(c)) \/ UNCHANGED vars
    <2>1. clock' = clock /\ left' = left
      BY <1>5 DEF ClearFlag, CheckTime, ReadTime, EraseTime, Refused,
        ReceiverStep, Store, Post, Receive, vars, timers
    <2> QED BY <2>1 DEF Timers!vars
  <1> QED
    BY <1>1, <1>2, <1>3, <1>4, <1>5 DEF Next, RoutineStep

(***************************************************************************)
(* For every set of intervals and any commands, what the threads see of    *)
(* the timers is what TimerPromise says: while they run, each expires at   *)
(* every multiple of its interval and at no other time, and the clock      *)
(* jumps only while they are stopped (gather.c 2380-2496).                 *)
(***************************************************************************)
THEOREM ClockImplements == Spec => KeepsPromise
  <1>1. Init => IInv /\ Timers!Init
    BY StartInv, StartPromise
  <1>2. IInv /\ [Next]_vars => IInv'
    BY StepInv
  <1>3. IInv /\ [Next]_vars => [Timers!Next]_(Timers!vars)
    BY PromiseStep
  <1> QED BY <1>1, <1>2, <1>3, PTL DEF Spec, KeepsPromise, Timers!Spec

(***************************************************************************)
(* What TimerPromise amounts to, which is why those who rely on it may     *)
(* forget the timers: the expiries follow from the clock.                  *)
(***************************************************************************)
LEMMA OnGoesOn ==
  ASSUME NEW a \in Nat, NEW b \in Nat \ {0}
  PROVE  ((a + 1) \div b + 1) * b
           = IF (a \div b + 1) * b = a + 1 THEN a + 1 + b ELSE (a \div b + 1) * b
  <1> DEFINE q == a \div b
  <1>1. q \in Nat /\ q * b <= a /\ a < q * b + b
    BY DivMod
  <1> HIDE DEF q
  <1>2. q * b \in Nat /\ (q + 1) * b = q * b + b /\ (q + 1 + 1) * b = q * b + b + b
    BY <1>1
  <1>3. CASE q * b + b = a + 1
    <2>1. (a + 1) \div b = q + 1
      BY <1>1, <1>2, <1>3, QuotientIs, a + 1 \in Nat, q + 1 \in Nat
    <2>2. ((a + 1) \div b + 1) * b = a + 1 + b
      BY <1>2, <1>3, <2>1
    <2> QED BY <1>2, <1>3, <2>2 DEF q
  <1>4. CASE q * b + b # a + 1
    <2>1. (a + 1) \div b = q
      BY <1>1, <1>2, <1>4, QuotientIs, a + 1 \in Nat
    <2> QED BY <1>2, <1>4, <2>1 DEF q
  <1> QED BY <1>3, <1>4

OnOrOff ==
  /\ clock \in Nat
  /\ [n \in Interval |-> IF left[n] = 0 THEN 0 ELSE clock + left[n]]
       \in {Timers!On, Timers!Off}

LEMMA OnOrOffStep == OnOrOff /\ [Timers!Next]_(Timers!vars) => OnOrOff'
  <1> DEFINE next == [n \in Interval |-> IF left[n] = 0 THEN 0 ELSE clock + left[n]]
  <1> SUFFICES ASSUME OnOrOff, [Timers!Next]_(Timers!vars) PROVE OnOrOff'
    OBVIOUS
  <1>0. clock \in Nat /\ next \in {Timers!On, Timers!Off}
    BY DEF OnOrOff
  <1>1. CASE Timers!Second
    <2>1. /\ clock' = clock + 1
          /\ next' = [n \in Interval |-> IF next[n] = clock + 1 THEN clock' + n
                                         ELSE next[n]]
      BY <1>1 DEF Timers!Second, Timers!Expires
    <2> HIDE DEF next
    <2>2. CASE next = Timers!Off
      <3>1. \A n \in Interval : next[n] = 0
        BY <2>2 DEF Timers!Off
      <3>2. next' = Timers!Off
        BY <1>0, <2>1, <3>1 DEF Timers!Off
      <3> QED BY <1>0, <2>1, <3>2 DEF OnOrOff, Timers!Off, next
    <2>3. CASE next = Timers!On
      <3>1. ASSUME NEW n \in Interval
            PROVE  (IF next[n] = clock + 1 THEN clock' + n ELSE next[n])
                     = (clock' \div n + 1) * n
        <4>1. n \in Nat \ {0} /\ next[n] = (clock \div n + 1) * n
          BY <2>3, IntervalAssumption DEF Timers!On
        <4> QED BY <1>0, <2>1, <4>1, OnGoesOn
      <3>2. next' = [n \in Interval |-> (clock' \div n + 1) * n]
        BY <2>1, <3>1
      <3> QED BY <1>0, <2>1, <3>2 DEF OnOrOff, Timers!On, next
    <2> QED BY <1>0, <2>2, <2>3
  <1>2. CASE Timers!Start
    <2>1. clock' = clock /\ next' = Timers!On
      BY <1>2 DEF Timers!Start
    <2> QED BY <1>0, <2>1 DEF OnOrOff, Timers!On
  <1>3. CASE Timers!Stop
    <2>1. clock' = clock /\ next' = Timers!Off
      BY <1>3 DEF Timers!Stop
    <2> QED BY <1>0, <2>1 DEF OnOrOff, Timers!Off
  <1>4. CASE Timers!Set
    <2>1. clock' \in Nat /\ next' = next /\ next = Timers!Off
      BY <1>4 DEF Timers!Set
    <2> QED BY <2>1 DEF OnOrOff, Timers!Off
  <1>5. CASE UNCHANGED Timers!vars
    <2>1. clock' = clock /\ next' = next
      BY <1>5 DEF Timers!vars
    <2> QED BY <1>0, <2>1 DEF OnOrOff, Timers!On, Timers!Off
  <1> QED BY <1>1, <1>2, <1>3, <1>4, <1>5 DEF Timers!Next

(***************************************************************************)
(* From the promise alone, hence of gather too (gather.c 2380-2496): at    *)
(* any time either all timers are stopped, or each is due at the first     *)
(* multiple of its interval that the clock has not reached.                *)
(***************************************************************************)
THEOREM PromisedExpiries == Timers!Spec => []OnOrOff
  <1>1. Timers!Init => OnOrOff
    BY DEF Timers!Init, OnOrOff
  <1> QED BY <1>1, OnOrOffStep, PTL DEF Timers!Spec
=============================================================================

------------------------------ MODULE ClockSync ------------------------------
(***************************************************************************)
(* How gather sets the clock of the terminal.                              *)
(*                                                                         *)
(* The receiver thread (set_localtime) empties check_time, stores there    *)
(* the time a server sends and raises check_time_flag.  timer_routine      *)
(* spins on the flag; it then stops the four collection timers, sets the   *)
(* clock, sleeps, and starts the timers again so that each expires at the  *)
(* multiples of its interval.  The two threads share check_time and the    *)
(* flag without a lock.                                                    *)
(*                                                                         *)
(* The clock counts seconds of local time.  From its reading to the        *)
(* setting of the timers less than a second passes: Resume is one action.  *)
(***************************************************************************)
EXTENDS Integers

CONSTANTS
  Interval,     \* the intervals of the collection timers, which name them
  MaxClock,     \* bound: the last second the model knows
  None,         \* an empty check_time: the command has no SystemTime
  Garbled       \* a SystemTime that is not fourteen digits

ASSUME IntervalAssumption == Interval \subseteq Nat \ {0}
ASSUME ClockAssumption ==
  /\ MaxClock \in Nat
  /\ None \notin Nat /\ Garbled \notin Nat /\ None # Garbled

VARIABLES
  clock,            \* seconds
  left,             \* seconds until a timer expires; 0: it is stopped
  rpc,              \* where the receiver stands in set_localtime
  cmd,              \* the time of the command it works on
  check_time,
  check_time_flag,
  tpc,              \* where timer_routine stands
  time_tm,          \* the time it has read
  asked,            \* history: the last time a command asked for
  done,             \* history: the last time the clock was set to
  spoilt            \* history: commands overlapped, or one had no time in it

timers   == left
receiver == <<rpc, cmd>>
routine  == <<tpc, time_tm>>
history  == <<asked, done, spoilt>>
vars == <<clock, timers, receiver, check_time, check_time_flag, routine,
          history>>

Moment  == 0 .. MaxClock
Command == Moment \cup {None, Garbled}

(***************************************************************************)
(* Type correctness.                                                       *)
(***************************************************************************)
TypeOK ==
  /\ clock \in Moment
  /\ left \in [Interval -> Nat]
  /\ rpc \in {"idle", "empty", "stored"}
  /\ cmd \in Command
  /\ check_time \in Command
  /\ check_time_flag \in BOOLEAN
  /\ tpc \in {"start", "ready", "spin", "check", "giveup", "read", "erase",
              "set", "sleep", "dead"}
  /\ time_tm \in Command
  /\ asked \in Command
  /\ done \in Command
  /\ spoilt \in BOOLEAN

Init ==
  /\ clock \in Moment
  /\ left = [n \in Interval |-> 0]
  /\ rpc = "idle" /\ cmd = None
  /\ check_time = None
  /\ check_time_flag = FALSE
  /\ tpc = "start" /\ time_tm = None
  /\ asked = None /\ done = None
  /\ spoilt = FALSE

-----------------------------------------------------------------------------
(***************************************************************************)
(* A second passes.  A timer that expires starts its interval again.       *)
(***************************************************************************)
Tick_bug ==         \* the timers expire but once
  /\ clock < MaxClock
  /\ clock' = clock + 1
  /\ left' = [n \in Interval |-> IF left[n] > 0 THEN left[n] - 1 ELSE 0]
  /\ UNCHANGED <<receiver, check_time, check_time_flag, routine, history>>

Tick ==
  /\ clock < MaxClock
  /\ clock' = clock + 1
  /\ left' = [n \in Interval |-> IF left[n] = 1 THEN n
                                 ELSE IF left[n] > 1 THEN left[n] - 1
                                 ELSE 0]
  /\ UNCHANGED <<receiver, check_time, check_time_flag, routine, history>>

-----------------------------------------------------------------------------
(***************************************************************************)
(* The receiver.                                                           *)
(***************************************************************************)
Receive(c) ==
  /\ rpc = "idle"
  /\ cmd' = c
  /\ check_time' = None
  /\ rpc' = "empty"
  /\ spoilt' = (spoilt \/ c \notin Moment \/ check_time_flag \/ tpc # "spin")
  /\ UNCHANGED <<clock, timers, check_time_flag, routine, asked, done>>

Store_bug ==        \* the flag is raised before the time is stored
  /\ rpc = "empty"
  /\ check_time_flag' = TRUE
  /\ rpc' = "stored"
  /\ UNCHANGED <<clock, timers, cmd, check_time, routine, history>>

Store ==
  /\ rpc = "empty"
  /\ check_time' = cmd
  /\ rpc' = "stored"
  /\ UNCHANGED <<clock, timers, cmd, check_time_flag, routine, history>>

Post_bug ==
  /\ rpc = "stored"
  /\ check_time' = cmd
  /\ asked' = cmd
  /\ rpc' = "idle"
  /\ UNCHANGED <<clock, timers, cmd, check_time_flag, routine, done, spoilt>>

Post ==             \* and the server is told that the command is executed
  /\ rpc = "stored"
  /\ check_time_flag' = TRUE
  /\ asked' = cmd
  /\ rpc' = "idle"
  /\ UNCHANGED <<clock, timers, cmd, check_time, routine, done, spoilt>>

(***************************************************************************)
(* What timer_routine may read while the receiver is writing.                   *)
(***************************************************************************)
Seen == IF rpc = "empty" /\ cmd # None
          THEN {check_time, cmd, Garbled}
          ELSE {check_time}

-----------------------------------------------------------------------------
(***************************************************************************)
(* timer_routine.  A timer started with 0 would be stopped: on a multiple  *)
(* of its interval it is started with the interval.                        *)
(***************************************************************************)
APPROACH(a, b) == ((a + (b - 1)) \div b) * b - a

FirstDelay_bug(a, b) == APPROACH(a, b)

FirstDelay(a, b) == IF APPROACH(a, b) = 0 THEN b ELSE APPROACH(a, b)

StartTimers == left' = [n \in Interval |-> FirstDelay(clock, n)]

StopTimers_bug == UNCHANGED left

StopTimers == left' = [n \in Interval |-> 0]

Resume ==           \* at the start, and three seconds after a setting
  /\ tpc \in {"start", "sleep"}
  /\ StartTimers
  /\ tpc' = "ready"
  /\ UNCHANGED <<clock, receiver, check_time, check_time_flag, time_tm,
                 history>>

ClearFlag ==
  /\ tpc \in {"ready", "giveup"}
  /\ check_time_flag' = FALSE
  /\ tpc' = "spin"
  /\ UNCHANGED <<clock, timers, receiver, check_time, time_tm, history>>

SeeFlag ==
  /\ tpc = "spin"
  /\ check_time_flag
  /\ StopTimers
  /\ tpc' = "check"
  /\ UNCHANGED <<clock, receiver, check_time, check_time_flag, time_tm,
                 history>>

CheckTime ==        \* strlen: an empty time is given up, the timers stopped
  /\ tpc = "check"
  /\ \E t \in Seen : tpc' = IF t = None THEN "giveup" ELSE "read"
  /\ UNCHANGED <<clock, timers, receiver, check_time, check_time_flag,
                 time_tm, history>>

ReadTime ==         \* sscanf
  /\ tpc = "read"
  /\ time_tm' \in Seen
  /\ tpc' = "erase"
  /\ UNCHANGED <<clock, timers, receiver, check_time, check_time_flag,
                 history>>

EraseTime ==
  /\ tpc = "erase"
  /\ check_time' = None
  /\ tpc' = "set"
  /\ UNCHANGED <<clock, timers, receiver, check_time_flag, time_tm, history>>

(***************************************************************************)
(* settimeofday.  What sscanf could not read leaves time_tm uninitialised: *)
(* any time, or one the kernel refuses, which ends the thread.             *)
(***************************************************************************)
SetClock ==
  /\ tpc = "set"
  /\ clock' \in IF time_tm \in Moment THEN {time_tm} ELSE Moment
  /\ done' = clock'
  /\ tpc' = "sleep"
  /\ UNCHANGED <<timers, receiver, check_time, check_time_flag, time_tm,
                 asked, spoilt>>

Refused ==
  /\ tpc = "set"
  /\ time_tm \notin Moment
  /\ check_time_flag' = FALSE
  /\ tpc' = "dead"
  /\ UNCHANGED <<clock, timers, receiver, check_time, time_tm, history>>

-----------------------------------------------------------------------------
ReceiverStep_bug == Store_bug \/ Post_bug

ReceiverStep == Store \/ Post

RoutineStep ==
  Resume \/ ClearFlag \/ SeeFlag \/ CheckTime \/ ReadTime \/ EraseTime
    \/ SetClock \/ Refused

Next ==
  \/ Tick
  \/ \E c \in Command : Receive(c)
  \/ ReceiverStep
  \/ RoutineStep

Spec == Init /\ [][Next]_vars /\ WF_vars(ReceiverStep) /\ WF_vars(RoutineStep)

-----------------------------------------------------------------------------
(***************************************************************************)
(* Whatever the commands and however they overlap, a running timer expires *)
(* at a multiple of its interval: the clock jumps only while the timers    *)
(* are stopped, and they are started from the new time (gather.c           *)
(* 2473-2494).                                                             *)
(***************************************************************************)
Aligned == \A n \in Interval : left[n] > 0 => (clock + left[n]) % n = 0

(***************************************************************************)
(* When no command was answered as executed before its predecessor was     *)
(* carried out, the clock was last set to the last time asked for.         *)
(***************************************************************************)
LastCommandWins ==
  (rpc = "idle" /\ ~check_time_flag /\ tpc = "spin" /\ ~spoilt)
    => done = asked

(***************************************************************************)
(* Collection goes on: stopped timers are started again, unless a command  *)
(* carried no time, or one came while another was being carried out        *)
(* (gather.c 2430-2433, 2450-2455 leave them stopped).                     *)
(***************************************************************************)
TimersResume == \A n \in Interval : (left[n] = 0) ~> (left[n] > 0 \/ spoilt)

(***************************************************************************)
(* For the threads the timers start, the clock and the timers are those of *)
(* TimerPromise, whatever the commands: no expiry is left out, none comes  *)
(* at another time, and the clock is never set under a running timer       *)
(* (gather.c 2380-2496).                                                   *)
(***************************************************************************)
Timers == INSTANCE TimerPromise
  WITH next <- [n \in Interval |-> IF left[n] = 0 THEN 0 ELSE clock + left[n]]

KeepsPromise == Timers!Spec
=============================================================================

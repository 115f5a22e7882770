----------------------------- MODULE Supervisor -----------------------------
(***************************************************************************)
(* main and its watchdog thread, with the time that passes.                *)
(*                                                                         *)
(* Every process sends "hello" to a queue of its own, first Period - Ahead *)
(* after its timer was set and then every Period.  The watchdog thread     *)
(* sleeps Period, and then takes one message from each queue in turn; when *)
(* a queue is empty it sleeps Grace more and then tells main by `flag'.    *)
(* main polls `flag' without a pause: it starts a client again, and        *)
(* reboots the terminal if it is gather that is silent.  A fork may be     *)
(* refused; main then tries again, while time passes and the watchdog      *)
(* thread may overwrite `flag'.                                            *)
(***************************************************************************)
EXTENDS Integers

CONSTANTS
  N,            \* number of clients; process 0 is gather
  Period,       \* WATCHDOG_TIME
  Ahead,        \* by how much the first hello is earlier: 2 seconds
  Grace,        \* the sleep after a miss: 5 seconds
  Delay,        \* bound: the longest from a fork to the setting of the timer
  Cap,          \* mq_maxmsg
  MaxDeath,     \* bound: processes that die
  MaxRefused    \* bound: for how long forks are refused

ASSUME TimeAssumption ==
  /\ {N, Period, Ahead, Grace, Delay, Cap, MaxDeath, MaxRefused} \subseteq Nat
  /\ Delay < Ahead /\ Ahead <= Period
  /\ 0 < Grace /\ 0 < Cap

ASSUME GraceAssumption ==   \* 2 and 5 seconds, and 120 (config.h 19)
  Ahead + Grace <= Period

VARIABLES
  up,           \* is the process alive?
  due,          \* time until its next hello
  hellos,       \* its hellos in the queue, and its threads waiting to add one
  look,         \* the process whose queue the watchdog thread looks at next
  missed,       \* was that queue found empty, and flag not yet set?
  wait,         \* time until the thread goes on
  flag,         \* the silent process, -1 if none
  forked,       \* has main started it, and not yet reset flag?
  refused,      \* counted: for how long forks were refused
  deaths,       \* counted for the bound
  misses,       \* history: reports since the terminal was started
  gone          \* history: how long a process has been dead

Proc == 0 .. N
processes == <<up, due, hellos>>
watchdog  == <<look, missed, wait>>
main      == <<flag, forked, refused>>
history   == <<misses, gone>>
vars == <<processes, watchdog, main, deaths, history>>

Least(a, b) == IF a < b THEN a ELSE b

(***************************************************************************)
(* Type correctness.                                                       *)
(***************************************************************************)
TypeOK ==
  /\ up \in [Proc -> BOOLEAN]
  /\ due \in [Proc -> 0 .. Period]
  /\ hellos \in [Proc -> Nat]
  /\ look \in Proc
  /\ missed \in BOOLEAN
  /\ wait \in 0 .. Period \/ wait \in 0 .. Grace
  /\ flag \in -1 .. N
  /\ forked \in BOOLEAN
  /\ refused \in 0 .. MaxRefused
  /\ deaths \in 0 .. MaxDeath
  /\ misses \in Nat /\ gone \in [Proc -> Nat]

(***************************************************************************)
(* The first hello of a process that has just been forked.                 *)
(***************************************************************************)
FirstHello_bug == {Period}

FirstHello == (Period - Ahead) .. (Period - Ahead + Delay)

Init ==
  /\ up = [i \in Proc |-> TRUE]
  /\ due \in [Proc -> FirstHello]
  /\ hellos = [i \in Proc |-> 0]
  /\ look = 0 /\ missed = FALSE /\ wait = Period
  /\ flag = -1 /\ forked = FALSE /\ refused = 0
  /\ deaths = 0 /\ misses = 0
  /\ gone = [i \in Proc |-> 0]

-----------------------------------------------------------------------------
(***************************************************************************)
(* A timer expires; mq_send waits in its thread while the queue is full.   *)
(***************************************************************************)
Hello(i) ==
  /\ up[i] /\ due[i] = 0
  /\ hellos' = [hellos EXCEPT ![i] = @ + 1]
  /\ due' = [due EXCEPT ![i] = Period]
  /\ UNCHANGED <<up, watchdog, main, deaths, history>>

(***************************************************************************)
(* A process dies, and with it the threads that wait to add a hello; what  *)
(* is in the queue stays there.                                            *)
(***************************************************************************)
Die(i) ==
  /\ up[i]
  /\ deaths < MaxDeath
  /\ deaths' = deaths + 1
  /\ up' = [up EXCEPT ![i] = FALSE]
  /\ hellos' = [hellos EXCEPT ![i] = Least(@, Cap)]
  /\ gone' = [gone EXCEPT ![i] = 0]
  /\ UNCHANGED <<due, watchdog, main, misses>>

-----------------------------------------------------------------------------
(***************************************************************************)
(* The watchdog thread: the next queue, or to sleep after the last.        *)
(***************************************************************************)
NextQueue_skip ==       \* the last client is left out
  IF look < N - 1
    THEN look' = look + 1 /\ wait' = 0
    ELSE look' = 0 /\ wait' = Period

NextQueue ==
  IF look < N
    THEN look' = look + 1 /\ wait' = 0
    ELSE look' = 0 /\ wait' = Period

Receive ==
  /\ wait = 0 /\ ~missed
  /\ hellos[look] > 0
  /\ hellos' = [hellos EXCEPT ![look] = @ - 1]
  /\ NextQueue
  /\ UNCHANGED <<up, due, missed, main, deaths, history>>

Miss ==
  /\ wait = 0 /\ ~missed
  /\ hellos[look] = 0
  /\ missed' = TRUE
  /\ wait' = Grace
  /\ UNCHANGED <<processes, look, main, deaths, history>>

Report ==
  /\ wait = 0 /\ missed
  /\ missed' = FALSE
  /\ flag' = look
  /\ NextQueue
  /\ misses' = misses + 1
  /\ UNCHANGED <<processes, forked, refused, deaths, gone>>

-----------------------------------------------------------------------------
(***************************************************************************)
(* main.  Nobody kills the old client: `processes' knows one for each      *)
(* server, the youngest.                                                   *)
(***************************************************************************)
Fork ==
  /\ flag > 0 /\ ~forked
  /\ up' = [up EXCEPT ![flag] = TRUE]
  /\ \E t \in FirstHello : due' = [due EXCEPT ![flag] = t]
  /\ forked' = TRUE
  /\ UNCHANGED <<hellos, watchdog, flag, refused, deaths, history>>

Reset ==            \* a report made since the fork is lost
  /\ forked
  /\ flag' = -1
  /\ forked' = FALSE
  /\ UNCHANGED <<processes, watchdog, refused, deaths, history>>

Reboot ==
  /\ flag = 0 /\ ~forked
  /\ up' = [i \in Proc |-> TRUE]
  /\ due' \in [Proc -> FirstHello]
  /\ hellos' = [i \in Proc |-> 0]
  /\ look' = 0 /\ missed' = FALSE /\ wait' = Period
  /\ flag' = -1
  /\ misses' = 0 /\ gone' = [i \in Proc |-> 0]
  /\ UNCHANGED <<forked, refused, deaths>>

-----------------------------------------------------------------------------
(***************************************************************************)
(* Time passes when nothing is to be done at once: main is idle, or forks  *)
(* are refused all the while.                                              *)
(***************************************************************************)
Tick ==
  /\ wait > 0 /\ ~forked
  /\ \A i \in Proc : up[i] => due[i] > 0
  /\ \/ flag = -1 /\ refused' = refused
     \/ flag > 0 /\ refused < MaxRefused /\ refused' = refused + 1
  /\ wait' = wait - 1
  /\ due' = [i \in Proc |-> IF up[i] THEN due[i] - 1 ELSE due[i]]
  /\ gone' = [i \in Proc |-> IF up[i] THEN 0 ELSE gone[i] + 1]
  /\ UNCHANGED <<up, hellos, look, missed, flag, forked, deaths, misses>>

Next ==
  \/ \E i \in Proc : Hello(i) \/ Die(i)
  \/ Receive \/ Miss \/ Report
  \/ Fork \/ Reset \/ Reboot
  \/ Tick

Spec == Init /\ [][Next]_vars

-----------------------------------------------------------------------------
(***************************************************************************)
(* Only a dead process is taken for silent: the hello of a live one is     *)
(* always sent before the watchdog thread looks, after a restart and after *)
(* any number of misses too.  Otherwise main would start a second client   *)
(* beside the first, or reboot a terminal that works.  Forks refused for   *)
(* longer than the first hello is early can do that.                       *)
(***************************************************************************)
NoFalseAlarm ==
  (refused + Delay < Ahead) =>
    /\ missed => ~up[look]
    /\ (flag >= 0 /\ ~forked) => ~up[flag]

(***************************************************************************)
(* A dead process is replaced in bounded time, though hellos it left in    *)
(* its queue hide its death, other misses delay the watchdog thread, and   *)
(* its report is overwritten in `flag' while main is refused a fork.  That *)
(* costs a round each time, and takes a sleep after a miss: Grace.         *)
(***************************************************************************)
Round == Period + Grace * (N + 1)

DetectionBound == (Cap + 1) * Round

DetectedInTime ==
  \A i \in Proc :
    gone[i] <= DetectionBound + Round * (refused \div Grace) + refused
=============================================================================

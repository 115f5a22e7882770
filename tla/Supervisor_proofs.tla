-------------------------- MODULE Supervisor_proofs --------------------------
(***************************************************************************)
(* Proofs about Supervisor, and about the start of the program that leads  *)
(* to it (Startup, FieldStart), for any number of clients, any times that  *)
(* satisfy TimeAssumption and GraceAssumption, and any bounds.             *)
(***************************************************************************)
EXTENDS FieldStart, TLAPS

LEMMA Times ==
  /\ N \in Nat /\ Period \in Nat /\ Ahead \in Nat /\ Grace \in Nat
  /\ Delay \in Nat /\ Cap \in Nat /\ MaxDeath \in Nat /\ MaxRefused \in Nat
  /\ Delay < Ahead /\ Ahead <= Period /\ 0 < Grace /\ 0 < Cap
  BY TimeAssumption

LEMMA OneMore == \A h \in Nat : Period * (h + 1) = (Period * h) + Period
  BY Times

LEMMA Product == \A h \in Nat : (Period * h) \in Nat
  BY Times

-----------------------------------------------------------------------------
(***************************************************************************)
(* The time until the watchdog thread takes the next message of a process: *)
(* it has passed the process in this round, or finds it silent just now,   *)
(* or has yet to come to it.                                               *)
(***************************************************************************)
Passed(i) == look > i \/ (missed /\ look = i)

UntilLook(i) == wait + (IF Passed(i) THEN Period ELSE 0)

(***************************************************************************)
(* Each hello in the queue serves one look.  The next comes before the     *)
(* look that finds none.                                                   *)
(***************************************************************************)
Timely(i) == due[i] < UntilLook(i) + (Period * hellos[i])

(***************************************************************************)
(* Since a process was reported there was no time for another look at it:  *)
(* time passes only while forks are refused.                               *)
(***************************************************************************)
Reported(f) ==
  /\ ~up[f]
  /\ ~(missed /\ look = f)
  /\ Period <= UntilLook(f) + refused

SafeInv ==
  /\ \A i \in Proc : up[i] => Timely(i)
  /\ missed => ~up[look]
  /\ (flag >= 0 /\ ~forked) => Reported(flag)

Prompt == refused + Delay < Ahead

NumbersOK ==
  /\ due \in [Proc -> 0 .. Period]
  /\ hellos \in [Proc -> Nat]
  /\ look \in Proc
  /\ wait \in Nat
  /\ flag \in -1 .. N
  /\ refused \in Nat

FlagsOK ==
  /\ up \in [Proc -> BOOLEAN]
  /\ forked \in BOOLEAN

Inv == NumbersOK /\ FlagsOK /\ (Prompt => SafeInv)

LEMMA Safe == Inv => NoFalseAlarm
  BY DEF Inv, SafeInv, Reported, Prompt, NoFalseAlarm

-----------------------------------------------------------------------------
(***************************************************************************)
(* The next queue: a process just looked at comes again in a Period, and   *)
(* the others are as far off as before.                                    *)
(***************************************************************************)
LEMMA Turn ==
  ASSUME NumbersOK, NextQueue, wait = 0, missed' = FALSE
  PROVE  /\ look' \in Proc /\ wait' \in Nat
         /\ \A i \in Proc : UntilLook(i)' =
              IF i = look THEN Period ELSE UntilLook(i)
  <1> USE Times DEF NumbersOK, NextQueue, UntilLook, Passed, Proc
  <1>1. look' \in Proc /\ wait' \in Nat
    OBVIOUS
  <1>2. ~missed'
    OBVIOUS
  <1>3. \A i \in Proc : i # look => UntilLook(i)' = UntilLook(i)
    BY <1>2
  <1>4. \A i \in Proc : i = look => UntilLook(i)' = Period
    BY <1>2
  <1> QED BY <1>3, <1>4, <1>1

(***************************************************************************)
(* The steps of Supervisor keep the types.                                 *)
(***************************************************************************)
LEMMA NumbersStep == NumbersOK /\ [Next]_vars => NumbersOK'
  <1> SUFFICES ASSUME NumbersOK, [Next]_vars
               PROVE  NumbersOK'
    OBVIOUS
  <1> USE Times DEF NumbersOK, processes, watchdog, main, history, Proc
  <1>1. ASSUME NEW i \in Proc, Hello(i) PROVE NumbersOK'
    BY <1>1 DEF Hello
  <1>2. ASSUME NEW i \in Proc, Die(i) PROVE NumbersOK'
    BY <1>2 DEF Die, Least
  <1>3. CASE Receive
    <2>1. look' \in Proc /\ wait' \in Nat
      BY <1>3 DEF Receive, NextQueue
    <2>2. hellos[look] - 1 \in Nat
      BY <1>3 DEF Receive
    <2> QED BY <1>3, <2>1, <2>2 DEF Receive
  <1>4. CASE Miss
    BY <1>4 DEF Miss
  <1>5. CASE Report
    <2>1. look' \in Proc /\ wait' \in Nat
      BY <1>5 DEF Report, NextQueue
    <2> QED BY <1>5, <2>1 DEF Report
  <1>6. CASE Fork
    BY <1>6 DEF Fork, FirstHello
  <1>7. CASE Reset
    BY <1>7 DEF Reset
  <1>8. CASE Reboot
    BY <1>8 DEF Reboot, FirstHello
  <1>9. CASE Tick
    <2>1. \A i \in Proc : up[i] => due[i] - 1 \in 0 .. Period
      BY <1>9 DEF Tick
    <2>2. due' \in [Proc -> 0 .. Period]
      BY <1>9, <2>1 DEF Tick
    <2>3. refused' \in Nat /\ wait' \in Nat
      BY <1>9 DEF Tick
    <2> QED BY <1>9, <2>2, <2>3 DEF Tick
  <1>10. CASE UNCHANGED vars
    BY <1>10 DEF vars
  <1> QED
    BY <1>1, <1>2, <1>3, <1>4, <1>5, <1>6, <1>7, <1>8, <1>9, <1>10
       DEF Next

LEMMA FlagsStep == FlagsOK /\ [Next]_vars => FlagsOK'
  <1> SUFFICES ASSUME FlagsOK, [Next]_vars
               PROVE  FlagsOK'
    OBVIOUS
  <1> USE DEF FlagsOK, processes, watchdog, main, history
  <1>1. ASSUME NEW i \in Proc, Hello(i) \/ Die(i) PROVE FlagsOK'
    BY <1>1, Zenon DEF Hello, Die
  <1>2. CASE Receive \/ Miss \/ Report
    BY <1>2, Zenon DEF Receive, Miss, Report
  <1>3. CASE Fork
    BY <1>3, Zenon DEF Fork
  <1>4. CASE Reset
    BY <1>4, Zenon DEF Reset
  <1>5. CASE Reboot
    BY <1>5, Zenon DEF Reboot
  <1>6. CASE Tick
    BY <1>6, Zenon DEF Tick
  <1>7. CASE UNCHANGED vars
    BY <1>7, Zenon DEF vars
  <1> QED
    BY <1>1, <1>2, <1>3, <1>4, <1>5, <1>6, <1>7 DEF Next

-----------------------------------------------------------------------------
(***************************************************************************)
(* The steps of Supervisor keep what makes the hellos timely.              *)
(***************************************************************************)
LEMMA SafeStep ==
  NumbersOK /\ FlagsOK /\ SafeInv /\ Prompt /\ [Next]_vars => SafeInv'
  <1> SUFFICES ASSUME NumbersOK, FlagsOK, SafeInv, Prompt, [Next]_vars
               PROVE  SafeInv'
    OBVIOUS
  <1> USE Times DEF NumbersOK, FlagsOK, processes, watchdog, main, history,
                    Proc
  <1>1. ASSUME NEW p \in Proc, Hello(p) PROVE SafeInv'
    <2>1. /\ up' = up /\ look' = look /\ missed' = missed /\ wait' = wait
          /\ flag' = flag /\ forked' = forked /\ refused' = refused
          /\ up[p] /\ due[p] = 0
          /\ due' = [due EXCEPT ![p] = Period]
          /\ hellos' = [hellos EXCEPT ![p] = @ + 1]
      BY <1>1 DEF Hello
    <2>2. \A i \in Proc : UntilLook(i)' = UntilLook(i)
      BY <2>1 DEF UntilLook, Passed
    <2>3. \A i \in Proc : up[i] => Timely(i)'
      <3> SUFFICES ASSUME NEW i \in Proc, up[i] PROVE Timely(i)'
        OBVIOUS
      <3>1. Timely(i) /\ UntilLook(i) \in Nat
        BY DEF SafeInv, UntilLook
      <3>2. CASE i = p
        <4>1. 0 < UntilLook(i) + (Period * hellos[i])
          BY <2>1, <3>1, <3>2 DEF Timely
        <4>2. (Period * (hellos[i] + 1)) = (Period * hellos[i]) + Period
          BY OneMore
        <4>3. (Period * hellos[i]) \in Nat
          BY Product
        <4>4. Period < UntilLook(i) + (Period * (hellos[i] + 1))
          BY <3>1, <4>1, <4>2, <4>3
        <4>5. due'[i] = Period /\ hellos'[i] = hellos[i] + 1
          BY <2>1, <3>2
        <4> QED BY <2>2, <4>4, <4>5 DEF Timely
      <3>3. CASE i # p
        <4>1. due'[i] = due[i] /\ hellos'[i] = hellos[i]
          BY <2>1, <3>3
        <4> QED BY <2>2, <3>1, <4>1 DEF Timely
      <3> QED BY <3>2, <3>3
    <2> QED BY <2>1, <2>2, <2>3 DEF SafeInv, Reported
  <1>2. ASSUME NEW p \in Proc, Die(p) PROVE SafeInv'
    <2>1. /\ look' = look /\ missed' = missed /\ wait' = wait /\ due' = due
          /\ flag' = flag /\ forked' = forked /\ refused' = refused
          /\ up' = [up EXCEPT ![p] = FALSE]
          /\ hellos' = [hellos EXCEPT ![p] = Least(@, Cap)]
      BY <1>2 DEF Die
    <2>2. \A i \in Proc : up'[i] => up[i] /\ i # p
      BY <2>1, Zenon
    <2>3. \A i \in Proc : i # p => hellos'[i] = hellos[i]
      BY <2>1
    <2>4. \A i \in Proc : UntilLook(i)' = UntilLook(i)
      BY <2>1 DEF UntilLook, Passed
    <2>5. \A i \in Proc : up'[i] => Timely(i)'
      BY <2>1, <2>2, <2>3, <2>4 DEF SafeInv, Timely
    <2>6. (flag >= 0 /\ ~forked) => flag \in Proc
      OBVIOUS
    <2> QED BY <2>1, <2>2, <2>4, <2>5, <2>6 DEF SafeInv, Reported
  <1>3. CASE Receive      \* one hello less, one Period more
    <2>1. /\ up' = up /\ due' = due /\ missed' = FALSE /\ ~missed
          /\ flag' = flag /\ forked' = forked /\ refused' = refused
          /\ wait = 0 /\ hellos[look] > 0
          /\ hellos' = [hellos EXCEPT ![look] = @ - 1]
          /\ NextQueue
      BY <1>3 DEF Receive
    <2>2. \A i \in Proc : UntilLook(i)' =
            IF i = look THEN Period ELSE UntilLook(i)
      BY <2>1, Turn
    <2>3. \A i \in Proc : up[i] => Timely(i)'
      <3> SUFFICES ASSUME NEW i \in Proc, up[i] PROVE Timely(i)'
        OBVIOUS
      <3>1. Timely(i)
        BY DEF SafeInv
      <3>2. CASE i = look
        <4>1. UntilLook(i) = 0 /\ UntilLook(i)' = Period
          BY <2>1, <2>2, <3>2 DEF UntilLook, Passed
        <4>2. hellos'[i] \in Nat /\ hellos[i] = hellos'[i] + 1
          BY <2>1, <3>2
        <4>3. (Period * hellos[i]) = (Period * hellos'[i]) + Period
          BY <4>2, OneMore
        <4>4. (Period * hellos'[i]) \in Nat
          BY <4>2, Product
        <4>5. due[i] < (Period * hellos[i])
          BY <3>1, <4>1, <4>3, <4>4 DEF Timely
        <4> QED BY <2>1, <4>1, <4>3, <4>4, <4>5 DEF Timely
      <3>3. CASE i # look
        <4>1. hellos'[i] = hellos[i] /\ UntilLook(i)' = UntilLook(i)
          BY <2>1, <2>2, <3>3
        <4> QED BY <2>1, <3>1, <4>1 DEF Timely
      <3> QED BY <3>2, <3>3
    <2>4. ASSUME flag >= 0, ~forked PROVE Reported(flag)'
      <3>1. Reported(flag) /\ flag \in Proc
        BY <2>4 DEF SafeInv
      <3>2. flag # look
        <4>1. flag = look => UntilLook(flag) = 0
          BY <2>1 DEF UntilLook, Passed
        <4> QED BY <3>1, <4>1 DEF Reported, Prompt
      <3>3. UntilLook(flag)' = UntilLook(flag)
        BY <2>1, <2>2, <3>1, <3>2
      <3> QED BY <2>1, <3>1, <3>3 DEF Reported
    <2> QED BY <2>1, <2>3, <2>4 DEF SafeInv
  <1>4. CASE Miss         \* a live process has a hello here
    <2>1. /\ up' = up /\ due' = due /\ hellos' = hellos /\ look' = look
          /\ flag' = flag /\ forked' = forked /\ refused' = refused
          /\ wait = 0 /\ hellos[look] = 0 /\ wait' = Grace
          /\ ~missed /\ missed'
      BY <1>4 DEF Miss
    <2>2. ~up[look]
      <3>1. (Period * hellos[look]) = 0
        BY <2>1
      <3>2. UntilLook(look) = 0
        BY <2>1 DEF UntilLook, Passed
      <3> QED BY <3>1, <3>2 DEF SafeInv, Timely
    <2>3. \A i \in Proc : i # look => UntilLook(i)' = UntilLook(i) + Grace
      BY <2>1 DEF UntilLook, Passed
    <2>4. \A i \in Proc : UntilLook(i) \in Nat
      BY DEF UntilLook
    <2>5. \A i \in Proc : up[i] => Timely(i)'
      <3> SUFFICES ASSUME NEW i \in Proc, up[i] PROVE Timely(i)'
        OBVIOUS
      <3>1. Timely(i) /\ (Period * hellos[i]) \in Nat
        BY Product DEF SafeInv
      <3>2. UntilLook(i)' = UntilLook(i) + Grace /\ UntilLook(i) \in Nat
        BY <2>2, <2>3, <2>4
      <3> QED BY <2>1, <3>1, <3>2 DEF Timely
    <2>6. ASSUME flag >= 0, ~forked PROVE Reported(flag)'
      <3>1. Reported(flag) /\ flag \in Proc
        BY <2>6 DEF SafeInv
      <3>2. flag # look
        <4>1. flag = look => UntilLook(flag) = 0
          BY <2>1 DEF UntilLook, Passed
        <4> QED BY <3>1, <4>1 DEF Reported, Prompt
      <3>3. UntilLook(flag)' = UntilLook(flag) + Grace
            /\ UntilLook(flag) \in Nat
        BY <2>1, <2>3, <2>4, <3>1, <3>2
      <3> QED BY <2>1, <3>1, <3>2, <3>3 DEF Reported
    <2> QED BY <2>1, <2>2, <2>5, <2>6 DEF SafeInv
  <1>5. CASE Report
    <2>1. /\ up' = up /\ due' = due /\ hellos' = hellos
          /\ flag' = look /\ forked' = forked /\ refused' = refused
          /\ wait = 0 /\ missed /\ missed' = FALSE
          /\ NextQueue
      BY <1>5 DEF Report
    <2>2. \A i \in Proc : UntilLook(i)' =
            IF i = look THEN Period ELSE UntilLook(i)
      BY <2>1, Turn
    <2>3. UntilLook(look) = Period
      BY <2>1 DEF UntilLook, Passed
    <2>4. \A i \in Proc : UntilLook(i)' = UntilLook(i)
      BY <2>2, <2>3
    <2>5. \A i \in Proc : up[i] => Timely(i)'
      BY <2>1, <2>4 DEF SafeInv, Timely
    <2>6. ~up[look]
      BY <2>1 DEF SafeInv
    <2>7. Reported(flag)'
      BY <2>1, <2>2, <2>6 DEF Reported
    <2> QED BY <2>1, <2>5, <2>7 DEF SafeInv
  <1>6. CASE Fork         \* its first hello comes before the next look
    <2>1. PICK t \in FirstHello : due' = [due EXCEPT ![flag] = t]
      BY <1>6 DEF Fork
    <2>2. /\ up' = [up EXCEPT ![flag] = TRUE]
          /\ hellos' = hellos /\ look' = look /\ missed' = missed
          /\ wait' = wait /\ flag' = flag /\ refused' = refused
          /\ flag \in Proc /\ forked' /\ Reported(flag)
      BY <1>6 DEF Fork, SafeInv
    <2>3. t \in Nat /\ t <= Period - Ahead + Delay
      BY DEF FirstHello
    <2>4. \A i \in Proc : UntilLook(i)' = UntilLook(i)
      BY <2>2 DEF UntilLook, Passed
    <2>5. \A i \in Proc : up'[i] => Timely(i)'
      <3> SUFFICES ASSUME NEW i \in Proc, up'[i] PROVE Timely(i)'
        OBVIOUS
      <3>1. CASE i = flag
        <4>1. (Period * hellos[i]) \in Nat /\ UntilLook(i) \in Nat
          BY Product DEF UntilLook
        <4>2. t < UntilLook(i)
          BY <2>2, <2>3, <3>1, <4>1 DEF Reported, Prompt
        <4>3. due'[i] = t
          BY <2>1, <2>2, <3>1
        <4> QED BY <2>2, <2>3, <2>4, <4>1, <4>2, <4>3 DEF Timely
      <3>2. CASE i # flag
        <4>1. up[i]
          BY <2>2, <3>2, Zenon
        <4>2. due'[i] = due[i]
          BY <2>1, <3>2
        <4> QED BY <2>2, <2>4, <4>1, <4>2 DEF SafeInv, Timely
      <3> QED BY <3>1, <3>2
    <2>6. missed' => ~up'[look']
      <3>1. missed => look # flag /\ ~up[look]
        BY <2>2 DEF Reported, SafeInv
      <3> QED BY <2>2, <3>1, Zenon
    <2> QED BY <2>2, <2>5, <2>6 DEF SafeInv
  <1>7. CASE Reset
    <2>1. /\ up' = up /\ due' = due /\ hellos' = hellos /\ look' = look
          /\ missed' = missed /\ wait' = wait /\ flag' = -1
      BY <1>7 DEF Reset
    <2> QED BY <2>1 DEF SafeInv, Timely, UntilLook, Passed
  <1>8. CASE Reboot
    <2>1. /\ due' \in [Proc -> FirstHello]
          /\ hellos' = [i \in Proc |-> 0]
          /\ look' = 0 /\ missed' = FALSE /\ wait' = Period /\ flag' = -1
      BY <1>8 DEF Reboot
    <2>2. \A i \in Proc : Timely(i)'
      BY <2>1 DEF Timely, UntilLook, Passed, FirstHello
    <2> QED BY <2>1, <2>2 DEF SafeInv
  <1>9. CASE Tick
    <2>1. /\ up' = up /\ hellos' = hellos /\ look' = look
          /\ missed' = missed /\ flag' = flag /\ forked' = forked
          /\ wait > 0 /\ wait' = wait - 1 /\ ~forked
          /\ \/ flag = -1 /\ refused' = refused
             \/ flag > 0 /\ refused' = refused + 1
      BY <1>9 DEF Tick
    <2>2. \A i \in Proc : UntilLook(i)' = UntilLook(i) - 1
      BY <2>1 DEF UntilLook, Passed
    <2>3. \A i \in Proc : up[i] => due'[i] = due[i] - 1
      BY <1>9 DEF Tick
    <2>4. \A i \in Proc : up[i] => Timely(i)'
      <3> SUFFICES ASSUME NEW i \in Proc, up[i] PROVE Timely(i)'
        OBVIOUS
      <3>1. Timely(i) /\ (Period * hellos[i]) \in Nat
            /\ UntilLook(i) \in Nat
        BY Product DEF SafeInv, UntilLook
      <3>2. due'[i] = due[i] - 1
        BY <2>3
      <3> QED BY <2>1, <2>2, <3>1, <3>2 DEF Timely
    <2>5. ASSUME flag >= 0 PROVE Reported(flag)'
      <3>1. Reported(flag) /\ flag \in Proc /\ refused' = refused + 1
        BY <2>1, <2>5 DEF SafeInv
      <3>2. UntilLook(flag)' = UntilLook(flag) - 1 /\ UntilLook(flag) \in Nat
        BY <2>1, <2>2, <3>1 DEF UntilLook
      <3> QED BY <2>1, <3>1, <3>2 DEF Reported
    <2> QED BY <2>1, <2>4, <2>5 DEF SafeInv
  <1>10. CASE UNCHANGED vars
    BY <1>10 DEF vars, SafeInv, Timely, Reported, UntilLook, Passed
  <1> QED
    BY <1>1, <1>2, <1>3, <1>4, <1>5, <1>6, <1>7, <1>8, <1>9, <1>10
       DEF Next

LEMMA InvStep == Inv /\ [Next]_vars => Inv'
  <1>1. Prompt' /\ NumbersOK /\ [Next]_vars => Prompt
    <2> SUFFICES ASSUME NumbersOK, [Next]_vars PROVE Prompt' => Prompt
      OBVIOUS
    <2>1. refused' = refused \/ refused' = refused + 1
      BY DEF Next, vars, processes, watchdog, main, history, Hello, Die,
             Receive, Miss, Report, Fork, Reset, Reboot, Tick
    <2> QED BY <2>1, Times DEF Prompt, NumbersOK
  <1> QED
    BY <1>1, NumbersStep, FlagsStep, SafeStep DEF Inv

(***************************************************************************)
(* A terminal at rest: it is just starting.                                *)
(***************************************************************************)
Rest ==
  /\ due \in [Proc -> FirstHello]
  /\ look = 0 /\ missed = FALSE /\ wait = Period
  /\ flag = -1 /\ forked = FALSE

Calm ==
  /\ Rest
  /\ hellos \in [Proc -> Nat] /\ refused \in Nat
  /\ up \in [Proc -> BOOLEAN]

LEMMA CalmIsSafe == Calm => Inv
  <1> SUFFICES ASSUME Calm PROVE Inv
    OBVIOUS
  <1> USE Times DEF Calm, Rest, Proc, FirstHello
  <1>1. NumbersOK
    BY DEF NumbersOK
  <1>2. FlagsOK
    BY Zenon DEF FlagsOK
  <1>3. \A i \in Proc : Timely(i)
    <2> SUFFICES ASSUME NEW i \in Proc PROVE Timely(i)
      OBVIOUS
    <2>1. (Period * hellos[i]) \in Nat
      BY Product
    <2> QED BY <2>1 DEF Timely, UntilLook, Passed
  <1>4. SafeInv
    BY <1>3 DEF SafeInv
  <1> QED BY <1>1, <1>2, <1>4 DEF Inv

-----------------------------------------------------------------------------
(***************************************************************************)
(* Supervision alone: a live process is never taken for silent, after any  *)
(* number of misses, restarts and reboots.                                 *)
(***************************************************************************)
THEOREM LivingLeftAlone == Spec => []NoFalseAlarm
  <1>1. Init => Inv
    <2> SUFFICES ASSUME Init PROVE Inv
      OBVIOUS
    <2>1. Rest /\ hellos \in [Proc -> Nat] /\ refused \in Nat
      BY DEF Init, Rest
    <2>2. up \in [Proc -> BOOLEAN]
      BY Zenon DEF Init
    <2> QED BY <2>1, <2>2, CalmIsSafe DEF Calm
  <1> QED BY <1>1, InvStep, Safe, PTL DEF Spec

-----------------------------------------------------------------------------
(***************************************************************************)
(* The start of the program: until main watches, the terminal is at rest,  *)
(* and hellos that a former run left make no process look silent.          *)
(***************************************************************************)
StartInv ==
  /\ Inv
  /\ kept \in [Proc -> Nat]
  /\ mpc # "run" => Rest

LEMMA StartInvInit == ASSUME NEW f, StartInitOf(f) PROVE StartInv
  <1>1. Rest /\ hellos \in [Proc -> Nat] /\ refused \in Nat
    BY DEF StartInitOf, Init, Rest
  <1>2. up \in [Proc -> BOOLEAN]
    BY Zenon DEF StartInitOf, Init
  <1>3. kept \in [Proc -> Nat]
    BY Times DEF StartInitOf
  <1> QED BY <1>1, <1>2, <1>3, CalmIsSafe DEF StartInv, Calm

(***************************************************************************)
(* Steps that leave supervision alone, and steps of supervision.           *)
(***************************************************************************)
Aside ==
  /\ UNCHANGED <<up, due, hellos, look, missed, wait, flag, forked, refused>>
  /\ mpc = "run" => mpc' = "run"
  /\ kept' = kept \/ kept' = [i \in Proc |-> 0]

LEMMA AsideStep == StartInv /\ Aside => StartInv'
  <1> SUFFICES ASSUME StartInv, Aside PROVE StartInv'
    OBVIOUS
  <1>1. Inv'
    <2>1. NumbersOK'
      BY DEF StartInv, Aside, Inv, NumbersOK
    <2>2. FlagsOK'
      BY Zenon DEF StartInv, Aside, Inv, FlagsOK
    <2>3. Prompt' => Prompt
      BY DEF Aside, Prompt
    <2>4. SafeInv => SafeInv'
      BY DEF Aside, SafeInv, Timely, Reported, UntilLook, Passed
    <2> QED BY <2>1, <2>2, <2>3, <2>4, Zenon DEF StartInv, Inv
  <1>2. kept' \in [Proc -> Nat]
    BY DEF StartInv, Aside
  <1>3. mpc' # "run" => Rest'
    BY DEF StartInv, Aside, Rest
  <1> QED BY <1>1, <1>2, <1>3 DEF StartInv

LEMMA RunStep ==
  ASSUME StartInv, Next, mpc' = "run", kept' = kept
  PROVE  StartInv'
  BY InvStep DEF StartInv

(***************************************************************************)
(* The steps that do both, in any release.                                 *)
(***************************************************************************)
LEMMA StartStepKeeps == StartInv /\ (StartStep \/ FieldStep) => StartInv'
  <1> SUFFICES ASSUME StartInv, StartStep \/ FieldStep PROVE StartInv'
    OBVIOUS
  <1> USE DEF vars, processes, watchdog, main, history, start
  <1>1. CASE RemoveWatchdog
    BY <1>1, AsideStep DEF RemoveWatchdog, Aside
  <1>2. CASE OpenWatchdog
    <2>1. Rest' /\ mpc' # "run" /\ hellos' \in [Proc -> Nat]
          /\ kept' = kept /\ refused' = refused
      BY <1>2 DEF OpenWatchdog, StartInv, Rest
    <2>2. refused' \in Nat
      BY <2>1 DEF StartInv, Inv, NumbersOK
    <2>3. up' \in [Proc -> BOOLEAN]
      BY <1>2, Zenon DEF OpenWatchdog, StartInv, Inv, FlagsOK
    <2>4. Calm'
      BY <2>1, <2>2, <2>3 DEF Calm
    <2>5. Inv'
      BY <2>4, CalmIsSafe, PTL
    <2> QED BY <2>1, <2>5 DEF StartInv
  <1>3. CASE ForkGather
    BY <1>3, AsideStep DEF ForkGather, Aside
  <1>4. CASE MainExits
    BY <1>4, AsideStep DEF MainExits, Aside
  <1>5. CASE GatherStep \/ create_v43
    BY <1>5, AsideStep DEF GatherStep, create_v43, Aside
  <1>6. CASE GatherExits \/ EarlySignal
    BY <1>6, AsideStep DEF GatherExits, EarlySignal, Aside
  <1>7. ASSUME NEW i \in Client, ForkClient(i) \/ client_v43(i)
       PROVE  StartInv'
    BY <1>7, AsideStep DEF ForkClient, client_v43, Aside
  <1>8. ASSUME NEW i \in Client, OpenData(i) \/ OpenBack(i) \/ ClientExits(i)
       PROVE  StartInv'
    BY <1>8, AsideStep DEF OpenData, OpenBack, ClientExits, Aside
  <1>9. CASE Watch
    <2>1. Rest' /\ mpc' = "run" /\ hellos' \in [Proc -> Nat]
          /\ kept' = kept /\ refused' = refused
      BY <1>9 DEF Watch, Arrived, StartInv, Inv, NumbersOK, Rest
    <2>2. refused' \in Nat
      BY <2>1 DEF StartInv, Inv, NumbersOK
    <2>3. up' \in [Proc -> BOOLEAN]
      BY <1>9, Zenon DEF Watch
    <2>4. Calm'
      BY <2>1, <2>2, <2>3 DEF Calm
    <2>5. Inv'
      BY <2>4, CalmIsSafe, PTL
    <2> QED BY <2>1, <2>5 DEF StartInv
  <1>10. CASE Supervise \/ watchdog_v43
    BY <1>10, RunStep DEF Supervise, watchdog_v43, Next
  <1>11. ASSUME NEW i \in Proc, hello_v43(i)
        PROVE  StartInv'
    BY <1>11, RunStep DEF hello_v43, Next
  <1>12. CASE mpc = "run" /\ Reset /\ UNCHANGED start
    BY <1>12, RunStep DEF Next
  <1>13. CASE mpc = "run" /\ (Tick \/ \E i \in Proc : Die(i))
             /\ UNCHANGED start
    BY <1>13, RunStep DEF Next
  <1>14. CASE StartAgain
    BY <1>14, RunStep DEF StartAgain, Next
  <1>15. CASE ForkInVain
    <2>1. /\ UNCHANGED <<up, due, hellos, look, missed, wait, flag, refused>>
          /\ mpc = "run" /\ mpc' = "run" /\ kept' = kept /\ forked' = TRUE
      BY <1>15 DEF ForkInVain
    <2>2. NumbersOK'
      BY <2>1 DEF StartInv, Inv, NumbersOK
    <2>3. FlagsOK'
      BY <2>1, Zenon DEF StartInv, Inv, FlagsOK
    <2>4. Prompt' => Prompt
      BY <2>1 DEF Prompt
    <2>5. SafeInv => SafeInv'
      BY <2>1 DEF SafeInv, Timely, UntilLook, Passed
    <2> QED BY <2>1, <2>2, <2>3, <2>4, <2>5 DEF StartInv, Inv
  <1>16. CASE RebootAll
    <2>1. Rest' /\ hellos' \in [Proc -> Nat] /\ kept' \in [Proc -> Nat]
          /\ refused' = refused
      BY <1>16 DEF RebootAll, Reboot, StartInv, Rest
    <2>2. up' \in [Proc -> BOOLEAN]
      BY <1>16, Zenon DEF RebootAll, Reboot
    <2>3. refused' \in Nat
      BY <2>1 DEF StartInv, Inv, NumbersOK
    <2>4. Calm'
      BY <2>1, <2>2, <2>3 DEF Calm
    <2>5. Inv'
      BY <2>4, CalmIsSafe, PTL
    <2> QED BY <2>1, <2>5 DEF StartInv
  <1> QED
    BY <1>1, <1>2, <1>3, <1>4, <1>5, <1>6, <1>7, <1>8, <1>9, <1>10, <1>11,
       <1>12, <1>13, <1>14, <1>15, <1>16, Zenon
       DEF StartStep, FieldStep, open_v43, gather_v43, queues_v43, main_v43

LEMMA AnyStartStep == StartInv /\ [StartStep \/ FieldStep]_svars => StartInv'
  <1> SUFFICES ASSUME StartInv, UNCHANGED svars PROVE StartInv'
    BY StartStepKeeps
  <1> QED
    BY AsideStep DEF svars, start, vars, processes, watchdog, main, history,
                     Aside

LEMMA StartSafe == StartInv => NoFalseAlarm
  BY Safe DEF StartInv

(***************************************************************************)
(* The same from the start of the program, whatever a former run has left, *)
(* whoever exits while starting, and through reboots.                      *)
(***************************************************************************)
THEOREM LivingLeftAloneFromStart == StartSpec => []NoFalseAlarm
  <1>1. StartInit => StartInv
    BY StartInvInit DEF StartInit
  <1>2. [StartNext]_svars => [StartStep \/ FieldStep]_svars
    BY Zenon DEF StartNext
  <1> QED BY <1>1, <1>2, AnyStartStep, StartSafe, PTL DEF StartSpec

(***************************************************************************)
(* And for the releases in the field, where hellos of a former run stay in *)
(* the queues.                                                             *)
(***************************************************************************)
THEOREM LivingLeftAloneInField == FieldStartSpec => []NoFalseAlarm
  <1>1. FieldStartInit => StartInv
    BY StartInvInit DEF FieldStartInit
  <1>2. [FieldStartNext]_svars => [StartStep \/ FieldStep]_svars
    BY Zenon DEF FieldStartNext
  <1> QED BY <1>1, <1>2, AnyStartStep, StartSafe, PTL DEF FieldStartSpec

-----------------------------------------------------------------------------
(***************************************************************************)
(* The queues.  A name leads to an old queue until gather removes it, and  *)
(* to a new one once gather has created that; in the field old ones stay.  *)
(* gather removes and creates the data queue of a client before its back   *)
(* queue, all removals come before all creations, and a client opens in    *)
(* the same order.                                                         *)
(***************************************************************************)
QueueTypes ==
  /\ name \in [Client -> [Kind -> {"none", "old", "new"}]]
  /\ held \in [Client -> [Kind -> {"none", "old", "new"}]]
  /\ cpc \in [Client -> {"off", "data", "back", "run", "gone"}]
  /\ gstep \in Gone .. Serving

NameInOrder(i) ==
  /\ (gstep >= 2 * i /\ ~field) => name[i].data # "old"
  /\ (gstep > 2 * i /\ ~field) => name[i].back # "old"
  /\ (name[i].data = "new" /\ ~field) => name[i].back # "old"
  /\ (0 <= gstep /\ gstep <= (2 * N) + i) =>
       name[i].data # "new" /\ held[i].data # "new"

HeldInOrder(i) ==
  /\ cpc[i] \in {"back", "run"} => held[i].data # "none"
  /\ cpc[i] = "run" => held[i].back # "none"
  /\ (cpc[i] = "run" /\ held[i].data = name[i].data)
       => held[i].back = name[i].back

(***************************************************************************)
(* Where nothing is removed, or nothing was left to remove, what a client  *)
(* has opened stays what the name leads to.                                *)
(***************************************************************************)
StaysHeld(i) ==
  (field \/ ~leftover) =>
    /\ ~field => name[i].data # "old" /\ name[i].back # "old"
    /\ cpc[i] \in {"back", "run"} => held[i].data = name[i].data

InOrder(i) == NameInOrder(i) /\ HeldInOrder(i) /\ StaysHeld(i)

QueueInv == QueueTypes /\ \A i \in Client : InOrder(i)

(***************************************************************************)
(* gather removes or creates one queue at a time.                          *)
(***************************************************************************)
LEMMA Renamed ==
  ASSUME QueueTypes, NEW j \in Client, NEW k \in Kind,
         NEW q \in {"none", "old", "new"},
         name' = [name EXCEPT ![j][k] = q]
  PROVE  /\ name' \in [Client -> [Kind -> {"none", "old", "new"}]]
         /\ name'[j][k] = q
         /\ \A i \in Client, l \in Kind :
              (i # j \/ l # k) => name'[i][l] = name[i][l]
  BY DEF QueueTypes

LEMMA RemoveStep ==
  ASSUME QueueInv, NEW j \in Client, NEW k \in Kind, Remove(j, k), ~field,
         gstep' = gstep + 1,
         UNCHANGED <<field, cpc, held, leftover>>
  PROVE  QueueInv'
  <1> USE Times DEF QueueInv, QueueTypes, Client, Kind, Serving, Gone
  <1>1. /\ name' \in [Client -> [Kind -> {"none", "old", "new"}]]
        /\ name'[j][k] = "none"
        /\ \A i \in Client, l \in Kind :
             (i # j \/ l # k) => name'[i][l] = name[i][l]
    BY Renamed DEF Remove
  <1>2. gstep = IF k = "data" THEN (2 * j) - 1 ELSE 2 * j
    BY DEF Remove, Slot
  <1>3. gstep' \in Gone .. Serving /\ gstep >= 0
    BY <1>2
  <1>4. ASSUME NEW i \in Client PROVE InOrder(i)'
    <2>1. InOrder(i) /\ name[i].data \in {"none", "old", "new"}
      OBVIOUS
    <2>2. CASE i # j
      <3>1. name'[i].data = name[i].data /\ name'[i].back = name[i].back
        BY <1>1, <2>2
      <3>2. gstep' >= 2 * i => gstep >= 2 * i
        BY <1>2, <2>2
      <3>3. gstep' > 2 * i => gstep > 2 * i
        BY <1>2, <2>2
      <3> QED BY <1>3, <2>1, <3>1, <3>2, <3>3
              DEF InOrder, NameInOrder, HeldInOrder, StaysHeld
    <2>3. CASE i = j /\ k = "data"
      <3>1. name'[i].data = "none" /\ name'[i].back = name[i].back
        BY <1>1, <2>3
      <3>2. ~(gstep' > 2 * i) /\ gstep <= (2 * N) + i
        BY <1>2, <2>3
      <3> QED BY <1>3, <2>1, <2>3, <3>1, <3>2
              DEF InOrder, NameInOrder, HeldInOrder, StaysHeld
    <2>4. CASE i = j /\ k = "back"
      <3>1. name'[i].data = name[i].data /\ name'[i].back = "none"
        BY <1>1, <2>4
      <3>2. gstep = 2 * i
        BY <1>2, <2>4
      <3> QED BY <2>1, <2>4, <3>1, <3>2
              DEF InOrder, NameInOrder, HeldInOrder, StaysHeld
    <2> QED BY <2>2, <2>3, <2>4
  <1> QED BY <1>1, <1>3, <1>4

LEMMA CreateStep ==
  ASSUME QueueInv, NEW j \in Client, NEW k \in Kind, Create(j, k),
         gstep' = gstep + 1,
         UNCHANGED <<field, cpc, held, leftover>>
  PROVE  QueueInv'
  <1> USE Times DEF QueueInv, QueueTypes, Client, Kind, Serving, Gone
  <1> DEFINE q == IF name[j][k] = "none" THEN "new" ELSE name[j][k]
  <1>1. /\ name' \in [Client -> [Kind -> {"none", "old", "new"}]]
        /\ name'[j][k] = q
        /\ \A i \in Client, l \in Kind :
             (i # j \/ l # k) => name'[i][l] = name[i][l]
    <2>1. q \in {"none", "old", "new"}
      OBVIOUS
    <2>2. name' = [name EXCEPT ![j][k] = q]
      BY DEF Create
    <2> HIDE DEF q
    <2> QED BY <2>1, <2>2, Renamed
  <1>2. gstep = IF k = "data" THEN (2 * N) + j ELSE (3 * N) + j
    BY DEF Create, Slot
  <1>3. gstep' \in Gone .. Serving
    BY <1>2
  <1>4. ASSUME NEW i \in Client PROVE InOrder(i)'
    <2>1. InOrder(i)
      OBVIOUS
    <2>2. gstep > 2 * i
      BY <1>2
    <2>3. CASE i # j \/ name[j][k] # "none"
      <3>1. name'[i].data = name[i].data /\ name'[i].back = name[i].back
        BY <1>1, <2>3
      <3> QED BY <2>1, <2>2, <3>1
              DEF InOrder, NameInOrder, HeldInOrder, StaysHeld
    <2>4. CASE i = j /\ k = "data" /\ name[j][k] = "none"
      <3>1. /\ name'[i].data = "new" /\ name[i].data = "none"
            /\ name'[i].back = name[i].back
        BY <1>1, <2>4
      <3>2. gstep = (2 * N) + i
        BY <1>2, <2>4
      <3> QED BY <2>1, <2>2, <2>4, <3>1, <3>2
              DEF InOrder, NameInOrder, HeldInOrder, StaysHeld
    <2>5. CASE i = j /\ k = "back" /\ name[j][k] = "none"
      <3>1. /\ name'[i].data = name[i].data
            /\ name'[i].back = "new" /\ name[i].back = "none"
        BY <1>1, <2>5
      <3>2. gstep = (3 * N) + i
        BY <1>2, <2>5
      <3> QED BY <2>1, <2>2, <2>5, <3>1, <3>2
              DEF InOrder, NameInOrder, HeldInOrder, StaysHeld
    <2> QED BY <2>3, <2>4, <2>5
  <1> QED BY <1>1, <1>3, <1>4

LEMMA NameStep ==
  ASSUME QueueInv, (~field /\ GatherStep) \/ (field /\ create_v43),
         field' = field
  PROVE  QueueInv'
  <1>1. UNCHANGED <<field, cpc, held, leftover>>
    BY DEF GatherStep, create_v43
  <1>2. ASSUME Block \/ Serve,
               \/ gstep' = gstep + 1
               \/ field /\ gstep = 0 /\ gstep' = (2 * N) + 1
        PROVE  QueueInv'
    <2> USE Times DEF Client, Serving, Gone
    <2>1. name' = name /\ gstep' \in Gone .. Serving
      BY <1>2 DEF Block, Serve
    <2>2. QueueTypes'
      BY <1>1, <2>1 DEF QueueInv, QueueTypes
    <2>3. ASSUME NEW i \in Client PROVE InOrder(i)'
      <3>1. InOrder(i) /\ i \in 1 .. N
        BY DEF QueueInv
      <3>2. CASE Serve
        <4>1. gstep = (4 * N) + 1 /\ gstep' = (4 * N) + 2
          BY <1>2, <3>2 DEF Serve
        <4>2. gstep >= 2 * i /\ gstep > 2 * i /\ ~(gstep' <= (2 * N) + i)
          BY <3>1, <4>1
        <4> QED BY <1>1, <2>1, <3>1, <4>2
                DEF InOrder, NameInOrder, HeldInOrder, StaysHeld
      <3>3. CASE Block
        <4>1. gstep = 0 /\ gstep <= (2 * N) + i
          BY <3>1, <3>3 DEF Block
        <4>2. CASE field
          BY <1>1, <2>1, <3>1, <4>1, <4>2
             DEF InOrder, NameInOrder, HeldInOrder, StaysHeld
        <4>3. CASE ~field
          <5>1. gstep' = 1
            BY <1>2, <4>1, <4>3
          <5>2. ~(gstep' >= 2 * i) /\ ~(gstep' > 2 * i)
            BY <3>1, <5>1
          <5> QED BY <1>1, <2>1, <3>1, <4>1, <4>3, <5>2
                  DEF InOrder, NameInOrder, HeldInOrder, StaysHeld
        <4> QED BY <4>2, <4>3
      <3> QED BY <1>2, <3>2, <3>3
    <2> QED BY <2>2, <2>3 DEF QueueInv
  <1>3. CASE ~field /\ GatherStep
    BY <1>1, <1>2, <1>3, RemoveStep, CreateStep DEF GatherStep
  <1>4. CASE field /\ create_v43
    <2>1. CASE Block /\ gstep' = (2 * N) + 1
      BY <1>2, <1>4, <2>1 DEF Block
    <2>2. CASE Serve /\ gstep' = gstep + 1
      BY <1>2, <2>2
    <2>3. ASSUME NEW i \in Client, NEW k \in Kind, Create(i, k),
                 gstep' = gstep + 1
          PROVE  QueueInv'
      BY <1>1, <2>3, CreateStep
    <2> QED BY <1>4, <2>1, <2>2, <2>3, Zenon DEF create_v43
  <1> QED BY <1>3, <1>4

(***************************************************************************)
(* A client opens its queues.                                              *)
(***************************************************************************)
LEMMA OpenStep ==
  ASSUME QueueInv, NEW j \in Client,
         \/ ForkClient(j) \/ client_v43(j)
         \/ OpenData(j) \/ OpenBack(j) \/ ClientExits(j),
         field' = field
  PROVE  QueueInv'
  <1> USE DEF QueueInv, QueueTypes, Kind
  <1>1. UNCHANGED <<field, name, gstep, leftover>>
    BY DEF ForkClient, client_v43, OpenData, OpenBack, ClientExits
  <1>2. CASE OpenData(j)
    <2>1. /\ held' = [held EXCEPT ![j].data = name[j].data]
          /\ cpc' = [cpc EXCEPT ![j] =
                        IF name[j].data = "none" THEN "gone" ELSE "back"]
      BY <1>2 DEF OpenData, Opened
    <2>2. QueueTypes'
      BY <1>1, <2>1
    <2>3. ASSUME NEW i \in Client PROVE InOrder(i)'
      <3>1. InOrder(i)
        OBVIOUS
      <3>2. i # j => cpc'[i] = cpc[i] /\ held'[i] = held[i]
        BY <2>1
      <3>3. CASE i # j
        BY <1>1, <3>1, <3>2, <3>3
           DEF InOrder, NameInOrder, HeldInOrder, StaysHeld
      <3>4. CASE i = j
        <4>1. held'[i].data = name[i].data
          BY <2>1, <3>4
        <4>2. cpc'[i] = "gone" \/ (cpc'[i] = "back" /\ name[i].data # "none")
          BY <2>1, <3>4
        <4> QED BY <1>1, <3>1, <4>1, <4>2
                DEF InOrder, NameInOrder, HeldInOrder, StaysHeld
      <3> QED BY <3>3, <3>4
    <2> QED BY <2>2, <2>3
  <1>3. CASE OpenBack(j)
    <2>1. /\ held' = [held EXCEPT ![j].back = name[j].back]
          /\ cpc[j] = "back"
          /\ cpc' = [cpc EXCEPT ![j] =
                        IF name[j].back = "none" THEN "gone" ELSE "run"]
      BY <1>3 DEF OpenBack, Opened
    <2>2. QueueTypes'
      BY <1>1, <2>1
    <2>3. ASSUME NEW i \in Client PROVE InOrder(i)'
      <3>1. InOrder(i)
        OBVIOUS
      <3>2. i # j => cpc'[i] = cpc[i] /\ held'[i] = held[i]
        BY <2>1
      <3>3. CASE i # j
        BY <1>1, <3>1, <3>2, <3>3
           DEF InOrder, NameInOrder, HeldInOrder, StaysHeld
      <3>4. CASE i = j
        <4>1. held'[i].data = held[i].data /\ held'[i].back = name[i].back
          BY <2>1, <3>4
        <4>2. cpc'[i] = "gone" \/ (cpc'[i] = "run" /\ name[i].back # "none")
          BY <2>1, <3>4
        <4> QED BY <1>1, <2>1, <3>1, <3>4, <4>1, <4>2
                DEF InOrder, NameInOrder, HeldInOrder, StaysHeld
      <3> QED BY <3>3, <3>4
    <2> QED BY <2>2, <2>3
  <1>4. CASE ForkClient(j) \/ client_v43(j) \/ ClientExits(j)
    <2>1. held' = held
      BY <1>4 DEF ForkClient, client_v43, ClientExits
    <2>2. PICK s \in {"data", "gone"} : cpc' = [cpc EXCEPT ![j] = s]
      BY <1>4 DEF ForkClient, client_v43, ClientExits
    <2>3. QueueTypes'
      BY <1>1, <2>1, <2>2
    <2>4. ASSUME NEW i \in Client PROVE InOrder(i)'
      <3>1. InOrder(i)
        OBVIOUS
      <3>2. cpc'[i] = cpc[i] \/ cpc'[i] \in {"data", "gone"}
        BY <2>2
      <3> QED BY <1>1, <2>1, <3>1, <3>2
              DEF InOrder, NameInOrder, HeldInOrder, StaysHeld
    <2> QED BY <2>3, <2>4
  <1> QED BY <1>2, <1>3, <1>4

(***************************************************************************)
(* main starts a client again: both its queues have been created.          *)
(***************************************************************************)
LEMMA StartAgainStep ==
  ASSUME StartInv, QueueInv, StartAgain, field' = field
  PROVE  QueueInv'
  <1> USE DEF QueueInv, QueueTypes, Kind
  <1>1. /\ UNCHANGED <<field, name, gstep, cpc, leftover>>
        /\ held' = [held EXCEPT ![flag] = name[flag]]
        /\ flag \in Client /\ Created(flag)
    BY Times DEF StartAgain, Fork, StartInv, Inv, NumbersOK, Client
  <1>2. name[flag].data # "none" /\ name[flag].back # "none"
    BY <1>1 DEF Created
  <1>3. QueueTypes'
    BY <1>1
  <1>4. ASSUME NEW i \in Client PROVE InOrder(i)'
    <2>1. InOrder(i)
      OBVIOUS
    <2>2. held'[i] = IF i = flag THEN name[i] ELSE held[i]
      BY <1>1
    <2>3. CASE i = flag
      BY <1>1, <1>2, <2>1, <2>2, <2>3
         DEF InOrder, NameInOrder, HeldInOrder, StaysHeld
    <2>4. CASE i # flag
      BY <1>1, <2>1, <2>2, <2>4
         DEF InOrder, NameInOrder, HeldInOrder, StaysHeld
    <2> QED BY <2>3, <2>4
  <1> QED BY <1>3, <1>4

LEMMA NoQueues ==
  ASSUME name' = Nothing, held' = Nothing, gstep' = 0,
         cpc' = [i \in Client |-> "off"]
  PROVE  QueueInv'
  <1>1. QueueTypes'
    BY Times DEF QueueTypes, Nothing, Kind, Serving, Gone
  <1>2. ASSUME NEW i \in Client PROVE InOrder(i)'
    BY Times DEF Nothing, Kind, InOrder, NameInOrder, HeldInOrder, StaysHeld,
                 Client
  <1> QED BY <1>1, <1>2 DEF QueueInv

LEMMA QueuesKept ==
  ASSUME QueueInv, UNCHANGED <<field, name, held, gstep, cpc, leftover>>
  PROVE  QueueInv'
  BY Zenon DEF QueueInv, QueueTypes, InOrder, NameInOrder, HeldInOrder,
               StaysHeld

LEMMA QueuesGone ==
  ASSUME QueueInv, UNCHANGED <<field, name, held, cpc, leftover>>,
         gstep' = Gone
  PROVE  QueueInv'
  <1>1. QueueTypes'
    BY Times DEF QueueInv, QueueTypes, Gone, Serving
  <1>2. ASSUME NEW i \in Client PROVE InOrder(i)'
    <2>1. InOrder(i) /\ i \in 1 .. N
      BY DEF QueueInv, Client
    <2>2. ~(gstep' >= 2 * i) /\ ~(gstep' > 2 * i) /\ ~(0 <= gstep')
      BY <2>1, Times DEF Gone
    <2> QED BY <2>1, <2>2
            DEF InOrder, NameInOrder, HeldInOrder, StaysHeld
  <1> QED BY <1>1, <1>2 DEF QueueInv

LEMMA QueueStep ==
  ASSUME StartInv, QueueInv, field' = field,
         (~field /\ StartStep) \/ (field /\ FieldStep)
  PROVE  QueueInv'
  <1> USE DEF vars, processes, watchdog, main, history, start
  <1>1. CASE \/ RemoveWatchdog \/ OpenWatchdog \/ ForkGather \/ MainExits
             \/ Watch \/ ForkInVain
    BY <1>1, QueuesKept
       DEF RemoveWatchdog, OpenWatchdog, ForkGather, MainExits, Watch,
           ForkInVain
  <1>2. CASE UNCHANGED start
    BY <1>2, QueuesKept
  <1>3. CASE GatherExits \/ EarlySignal
    BY <1>3, QueuesGone DEF GatherExits, EarlySignal
  <1>4. CASE StartAgain
    BY <1>4, StartAgainStep
  <1>5. CASE RebootAll
    BY <1>5, NoQueues DEF RebootAll
  <1>6. ASSUME NEW i \in Client,
               \/ ForkClient(i) \/ client_v43(i)
               \/ OpenData(i) \/ OpenBack(i) \/ ClientExits(i)
        PROVE  QueueInv'
    BY <1>6, OpenStep
  <1>7. CASE (~field /\ GatherStep) \/ (field /\ create_v43)
    BY <1>7, NameStep
  <1>8. Supervise \/ watchdog_v43 \/ (\E i \in Proc : hello_v43(i))
          => UNCHANGED start
    BY DEF Supervise, watchdog_v43, hello_v43
  <1>9. CASE ~field /\ StartStep
    BY <1>1, <1>2, <1>3, <1>4, <1>5, <1>6, <1>7, <1>8, <1>9, Zenon
       DEF StartStep
  <1>10. CASE field /\ FieldStep
    BY <1>1, <1>2, <1>3, <1>4, <1>5, <1>6, <1>7, <1>8, <1>10, Zenon
       DEF FieldStep, open_v43, gather_v43, queues_v43, main_v43
  <1> QED BY <1>9, <1>10

-----------------------------------------------------------------------------
(***************************************************************************)
(* A gather that has exited before it served is missed before any client   *)
(* is, for its queue is looked at first; main then reboots, and starts no  *)
(* client again.                                                           *)
(***************************************************************************)
MissedFirst ==
  /\ ~up[0] /\ hellos[0] = 0 /\ again = {} /\ ~forked
  /\ \/ flag = -1 /\ look = 0
     \/ flag = 0 /\ (missed => wait = Grace)

AgainInv ==
  /\ again \subseteq Client
  /\ mpc # "run" => again = {}
  /\ mpc \in {"gather", "clients"} => hellos = kept
  /\ mpc = "run" => \A i \in Client : cpc[i] \in {"run", "gone"}
  /\ (mpc = "run" /\ gstep # Serving /\ kept[0] = 0) => MissedFirst
  /\ \A i \in again :
       \/ (\A k \in Kind : held[i][k] = name[i][k]) /\ gstep = Serving
       \/ kept[0] > 0

Watching ==
  \/ Receive \/ Miss \/ Report \/ Reset \/ Tick
  \/ \E i \in Proc : Hello(i) \/ Die(i)

LEMMA MissedFirstStep ==
  ASSUME StartInv, MissedFirst, Watching, again' = again
  PROVE  MissedFirst'
  <1> USE Times DEF MissedFirst, StartInv, Inv, NumbersOK, FlagsOK, Proc,
                    processes, watchdog, main, history
  <1>1. ASSUME NEW i \in Proc, Hello(i) PROVE MissedFirst'
    <2>1. i # 0
      BY <1>1 DEF Hello
    <2> QED BY <1>1, <2>1 DEF Hello
  <1>2. ASSUME NEW i \in Proc, Die(i) PROVE MissedFirst'
    <2>1. i # 0
      BY <1>2 DEF Die
    <2> QED BY <1>2, <2>1 DEF Die
  <1>3. CASE Receive
    <2>1. look # 0 /\ flag = 0 /\ up' = up /\ forked' = forked /\ flag' = flag
          /\ hellos'[0] = hellos[0] /\ missed' = missed /\ ~missed
      BY <1>3 DEF Receive
    <2> QED BY <2>1
  <1>4. CASE Miss
    BY <1>4 DEF Miss
  <1>5. CASE Report
    BY <1>5 DEF Report
  <1>6. CASE Tick
    BY <1>6 DEF Tick
  <1> QED BY <1>1, <1>2, <1>3, <1>4, <1>5, <1>6 DEF Watching, Reset

LEMMA AgainStep ==
  ASSUME StartInv, AgainInv, QueueTypes, StartStep \/ FieldStep
  PROVE  AgainInv'
  <1> USE DEF AgainInv, vars, processes, watchdog, main, history, start
  <1>1. CASE \/ RemoveWatchdog \/ OpenWatchdog \/ ForkGather \/ MainExits
             \/ GatherStep \/ create_v43 \/ GatherExits \/ EarlySignal
    <2>1. mpc # "run" /\ mpc' # "run" /\ again' = again
      BY <1>1 DEF RemoveWatchdog, OpenWatchdog, ForkGather, MainExits,
                  GatherStep, create_v43, GatherExits, EarlySignal, Block,
                  Serve, Remove, Create, GatherRuns
    <2>2. mpc' \in {"gather", "clients"} => hellos' = kept'
      BY <1>1 DEF RemoveWatchdog, OpenWatchdog, ForkGather, MainExits,
                  GatherStep, create_v43, GatherExits, EarlySignal
    <2> QED BY <2>1, <2>2
  <1>2. ASSUME NEW i \in Client,
               \/ ForkClient(i) \/ client_v43(i)
               \/ OpenData(i) \/ OpenBack(i) \/ ClientExits(i)
        PROVE  AgainInv'
    <2>1. mpc # "run" /\ UNCHANGED <<mpc, again, hellos, kept>>
      BY <1>2 DEF ForkClient, client_v43, OpenData, OpenBack, ClientExits
    <2> QED BY <2>1
  <1>3. CASE Watch
    <2>1. /\ mpc = "clients" /\ again' = again /\ kept' = kept
          /\ hellos' = hellos /\ cpc' = cpc /\ gstep' = gstep
          /\ look' = look /\ flag' = flag /\ forked' = forked
          /\ \A i \in Client : cpc[i] \in {"run", "gone"}
      BY <1>3 DEF Watch, Arrived
    <2>2. gstep # Serving => ~up'[0]
      <3>1. 0 \in Proc
        BY Times DEF Proc
      <3> QED BY <1>3, <3>1 DEF Watch
    <2>3. look = 0 /\ flag = -1 /\ ~forked /\ again = {} /\ hellos = kept
      BY <2>1 DEF StartInv, Rest
    <2>4. (gstep' # Serving /\ kept'[0] = 0) => MissedFirst'
      BY <2>1, <2>2, <2>3 DEF MissedFirst
    <2> QED BY <2>1, <2>3, <2>4
  <1>4. CASE mpc = "run" /\ UNCHANGED start /\ Watching
    <2>1. MissedFirst => MissedFirst'
      BY <1>4, MissedFirstStep
    <2> QED BY <1>4, <2>1
  <1>5. CASE StartAgain
    <2>1. /\ mpc = "run" /\ mpc' = "run" /\ flag \in Client /\ flag > 0
          /\ UNCHANGED <<gstep, kept, name, cpc>>
          /\ held' = [held EXCEPT ![flag] = name[flag]]
          /\ again' = again \cup {flag}
      BY <1>5, Times DEF StartAgain, Fork, StartInv, Inv, NumbersOK, Client
    <2>2. gstep = Serving \/ kept[0] # 0
      BY <2>1 DEF MissedFirst
    <2>3. kept[0] \in Nat
      BY Times DEF StartInv, Proc
    <2>4. \A i \in again' :
            \/ (\A k \in Kind : held'[i][k] = name'[i][k]) /\ gstep' = Serving
            \/ kept'[0] > 0
      BY <2>1, <2>2, <2>3 DEF QueueTypes
    <2> QED BY <2>1, <2>2, <2>4
  <1>6. CASE ForkInVain
    <2>1. /\ mpc = "run" /\ mpc' = "run" /\ flag > 0 /\ flag \in Client
          /\ UNCHANGED <<gstep, kept, name, held, cpc, again>>
      BY <1>6, Times DEF ForkInVain, StartInv, Inv, NumbersOK, Client
    <2>2. ~MissedFirst
      BY <2>1 DEF MissedFirst
    <2> QED BY <2>1, <2>2
  <1>7. CASE RebootAll
    BY <1>7 DEF RebootAll, Begin
  <1>8. ASSUME NEW i \in Proc, hello_v43(i) PROVE AgainInv'
    BY <1>4, <1>8, Zenon DEF hello_v43, Watching
  <1>9. CASE Supervise \/ watchdog_v43
    BY <1>4, <1>9, Zenon DEF Supervise, watchdog_v43, Watching
  <1>10. CASE mpc = "run" /\ (Reset \/ Tick \/ \E i \in Proc : Die(i))
              /\ UNCHANGED start
    BY <1>4, <1>10, Zenon DEF Watching
  <1> QED
    BY <1>1, <1>2, <1>3, <1>5, <1>6, <1>7, <1>8, <1>9, <1>10, Zenon
       DEF StartStep, FieldStep, open_v43, gather_v43, queues_v43, main_v43

-----------------------------------------------------------------------------
(***************************************************************************)
(* All of it, in any release; `field' is what it was at first.             *)
(***************************************************************************)
AllInv == StartInv /\ QueueInv /\ AgainInv

AnyStart ==
  (~field /\ StartStep /\ UNCHANGED field)
    \/ (field /\ FieldStep /\ UNCHANGED field)

LEMMA AllInit == ASSUME NEW f, StartInitOf(f) PROVE AllInv
  <1>1. StartInv
    BY StartInvInit
  <1>2. QueueTypes
    BY Times DEF StartInitOf, QueueTypes, Nothing, Kind, Serving, Gone
  <1>3. ASSUME NEW i \in Client PROVE InOrder(i)
    <2>1. ~leftover => name = Nothing
      BY DEF StartInitOf
    <2>2. i \in 1 .. N /\ gstep = 0 /\ cpc[i] = "off" /\ held[i].data = "none"
          /\ name[i].data # "new"
      BY <1>2, <1>3 DEF StartInitOf, Client, Nothing, Kind
    <2>3. ~leftover => name[i].data = "none" /\ name[i].back = "none"
      BY <2>1, <1>3 DEF Nothing, Kind
    <2> QED BY <2>2, <2>3
            DEF InOrder, NameInOrder, HeldInOrder, StaysHeld
  <1>4. AgainInv
    BY DEF StartInitOf, Begin, AgainInv
  <1> QED BY <1>1, <1>2, <1>3, <1>4 DEF AllInv, QueueInv

LEMMA AllStep == AllInv /\ [AnyStart]_svars => AllInv'
  <1>1. ASSUME AllInv, AnyStart PROVE AllInv'
    <2>1. StartInv'
      BY <1>1, StartStepKeeps DEF AllInv, AnyStart
    <2>2. QueueInv'
      BY <1>1, QueueStep DEF AllInv, AnyStart
    <2>3. AgainInv'
      BY <1>1, AgainStep DEF AllInv, AnyStart, QueueInv
    <2> QED BY <2>1, <2>2, <2>3 DEF AllInv
  <1>2. ASSUME AllInv, UNCHANGED svars PROVE AllInv'
    <2>1. StartInv'
      BY <1>2, AsideStep DEF AllInv, Aside, svars, start, vars, processes,
                             watchdog, main, history
    <2>2. QueueInv'
      BY <1>2, QueuesKept DEF AllInv, svars, start
    <2>3. AgainInv'
      BY <1>2 DEF AllInv, AgainInv, MissedFirst, svars, start, vars,
                  processes, watchdog, main, history
    <2> QED BY <2>1, <2>2, <2>3 DEF AllInv
  <1> QED BY <1>1, <1>2

LEMMA AllFound == AllInv => QueuesFound
  <1> SUFFICES ASSUME AllInv PROVE QueuesFound
    OBVIOUS
  <1>1. BothQueues
    BY DEF AllInv, QueueInv, InOrder, HeldInOrder, BothQueues
  <1>2. ASSUME NEW i \in Client, cpc[i] = "run", held[i].data # name[i].data
        PROVE  leftover /\ ~field
    BY <1>2, Zenon DEF AllInv, QueueInv, InOrder, StaysHeld
  <1>3. OrphanHasCause
    BY <1>2 DEF AllInv, AgainInv, OrphanHasCause
  <1> QED BY <1>1, <1>3 DEF QueuesFound

(***************************************************************************)
(* However the start of gather and of the clients interleaves, whoever     *)
(* exits, and whatever a former run left: a client that reads gather's     *)
(* queue also writes to gather's; one that listens to nobody has a queue   *)
(* of a former run; and a client that is started again finds gather's.     *)
(***************************************************************************)
THEOREM FoundFromStart == StartSpec => []QueuesFound
  <1>1. StartInit => AllInv
    BY AllInit DEF StartInit
  <1>2. [StartNext]_svars => [AnyStart]_svars
    BY Zenon DEF StartNext, AnyStart
  <1> QED BY <1>1, <1>2, AllStep, AllFound, PTL DEF StartSpec

(***************************************************************************)
(* The same in the field, where no queue is removed.                       *)
(***************************************************************************)
THEOREM FoundInField == FieldStartSpec => []QueuesFound
  <1>1. FieldStartInit => AllInv
    BY AllInit DEF FieldStartInit
  <1>2. [FieldStartNext]_svars => [AnyStart]_svars
    BY Zenon DEF FieldStartNext, AnyStart
  <1> QED BY <1>1, <1>2, AllStep, AllFound, PTL DEF FieldStartSpec

-----------------------------------------------------------------------------
(***************************************************************************)
(* How long the watchdog thread may still sleep.                           *)
(***************************************************************************)
SleepInv ==
  /\ misses \in Nat
  /\ missed => wait <= Grace
  /\ ~missed => wait <= Period
  /\ (~missed /\ look > 0) => wait = 0

LEMMA SleepStep == NumbersOK /\ SleepInv /\ [Next]_vars => SleepInv'
  <1> SUFFICES ASSUME NumbersOK, SleepInv, [Next]_vars PROVE SleepInv'
    OBVIOUS
  <1> USE Times DEF SleepInv, NumbersOK, Proc, processes, watchdog, main,
                    history
  <1>1. CASE UNCHANGED <<misses, missed, wait, look>>
    BY <1>1
  <1>2. CASE Receive \/ Report
    BY <1>2 DEF Receive, Report, NextQueue
  <1>3. CASE Miss
    BY <1>3 DEF Miss
  <1>4. CASE Reboot
    BY <1>4 DEF Reboot
  <1>5. CASE Tick
    BY <1>5 DEF Tick
  <1>6. CASE Fork \/ Reset \/ (\E i \in Proc : Hello(i) \/ Die(i))
    BY <1>1, <1>6 DEF Fork, Reset, Hello, Die
  <1> QED BY <1>1, <1>2, <1>3, <1>4, <1>5, <1>6 DEF Next, vars

-----------------------------------------------------------------------------
(***************************************************************************)
(* What is in a queue, what a former run left there, and by how much       *)
(* misses have delayed the watchdog thread.                                *)
(***************************************************************************)
Queued(i) == Period * hellos[i]

Inherited(i) == Period * Left(i)

Caused == Grace * misses

Delayed == Caused + (IF missed THEN Grace ELSE 0)

(***************************************************************************)
(* A live process is ahead of the watchdog thread by Ahead and the misses; *)
(* one that has died left at most two hellos more.                         *)
(***************************************************************************)
Backlog(i) ==
  /\ up[i] => Queued(i) + UntilLook(i)
                <= due[i] + Ahead + Inherited(i) + Delayed
  /\ ~up[i] => Queued(i) <= (2 * Period) + Inherited(i) + Caused

BacklogInv ==
  /\ \A i \in Proc : Backlog(i)
  /\ missed => hellos[look] = 0
  /\ (flag >= 0 /\ ~forked) => hellos[flag] = 0

LEMMA Sums ==
  ASSUME NumbersOK, misses \in Nat, kept \in [Proc -> Nat], NEW i \in Proc
  PROVE  /\ Queued(i) \in Nat /\ Inherited(i) \in Nat /\ Caused \in Nat
         /\ Delayed \in Nat /\ UntilLook(i) \in Nat /\ due[i] \in 0 .. Period
  <1>1. Left(i) \in Nat /\ hellos[i] \in Nat
    BY DEF Left, NumbersOK
  <1>2. Queued(i) \in Nat /\ Inherited(i) \in Nat
    BY <1>1, Product DEF Queued, Inherited
  <1>3. Caused \in Nat
    BY Times DEF Caused
  <1> QED BY <1>2, <1>3, Times DEF NumbersOK, Delayed, UntilLook

LEMMA OneMoreMiss == \A h \in Nat : Grace * (h + 1) = (Grace * h) + Grace
  BY Times

LEMMA BacklogStep ==
  ASSUME NumbersOK, FlagsOK, SafeInv, Prompt, SleepInv,
         kept \in [Proc -> Nat], BacklogInv, Watching \/ Fork,
         kept' = kept, field' = field
  PROVE  BacklogInv'
  <1> USE DEF processes, watchdog, main, history
  <1>1. \A i \in Proc : Inherited(i)' = Inherited(i)
    BY DEF Inherited, Left
  <1>2. \A i \in Proc :
          /\ Queued(i) \in Nat /\ Inherited(i) \in Nat /\ Caused \in Nat
          /\ Delayed \in Nat /\ UntilLook(i) \in Nat /\ due[i] \in 0 .. Period
    BY Sums DEF SleepInv
  <1>3. ASSUME NEW p \in Proc, Hello(p) PROVE BacklogInv'
    <2>1. /\ UNCHANGED <<up, look, missed, wait, flag, forked, misses>>
          /\ up[p] /\ due[p] = 0
          /\ due' = [due EXCEPT ![p] = Period]
          /\ hellos' = [hellos EXCEPT ![p] = @ + 1]
      BY <1>3 DEF Hello
    <2>2. \A i \in Proc : UntilLook(i)' = UntilLook(i)
      BY <2>1 DEF UntilLook, Passed
    <2>3. Caused' = Caused /\ Delayed' = Delayed
      BY <2>1 DEF Caused, Delayed
    <2>4. Queued(p)' = Queued(p) + Period /\ due'[p] = Period
      BY <2>1, OneMore DEF Queued, NumbersOK
    <2>5. \A i \in Proc : i # p => Queued(i)' = Queued(i) /\ due'[i] = due[i]
      BY <2>1 DEF Queued, NumbersOK
    <2>6. ASSUME NEW i \in Proc PROVE Backlog(i)'
      <3>1. Backlog(i) /\ up' = up
        BY <2>1 DEF BacklogInv
      <3>2. CASE i = p
        BY <1>1, <1>2, <2>1, <2>2, <2>3, <2>4, <3>1, <3>2, Times DEF Backlog
      <3>3. CASE i # p
        <4>1. Queued(i)' = Queued(i) /\ due'[i] = due[i]
          BY <2>5, <3>3
        <4> QED BY <1>1, <2>2, <2>3, <3>1, <4>1 DEF Backlog
      <3> QED BY <3>2, <3>3
    <2>7. missed => p # look
      BY <2>1 DEF SafeInv
    <2>8. (flag >= 0 /\ ~forked) => p # flag
      BY <2>1 DEF SafeInv, Reported
    <2> QED BY <2>1, <2>6, <2>7, <2>8 DEF BacklogInv
  <1>4. ASSUME NEW p \in Proc, Die(p) PROVE BacklogInv'
    <2>1. /\ UNCHANGED <<due, look, missed, wait, flag, forked, misses>>
          /\ up[p] /\ up' = [up EXCEPT ![p] = FALSE]
          /\ hellos' = [hellos EXCEPT ![p] = Least(@, Cap)]
      BY <1>4 DEF Die
    <2>2. \A i \in Proc : UntilLook(i)' = UntilLook(i)
      BY <2>1 DEF UntilLook, Passed
    <2>3. Caused' = Caused /\ Delayed' = Delayed
      BY <2>1 DEF Caused, Delayed
    <2>4. \A i \in Proc : i # p => Queued(i)' = Queued(i) /\ up'[i] = up[i]
      BY <2>1 DEF Queued, NumbersOK
    <2>5. hellos'[p] \in Nat /\ hellos'[p] <= hellos[p]
      BY <2>1, Times DEF Least, NumbersOK
    <2>6. Queued(p)' <= Queued(p) /\ Queued(p)' \in Nat
      BY <2>5, Times DEF Queued, NumbersOK
    <2>7. ~up'[p]
      BY <2>1, Zenon DEF FlagsOK
    <2>8. Queued(p)' <= (2 * Period) + Inherited(p) + Caused
      <3>1. Queued(p) + UntilLook(p) <= due[p] + Ahead + Inherited(p) + Delayed
        BY <2>1 DEF BacklogInv, Backlog
      <3>2. Delayed <= Caused + Grace
        BY <1>2, Times DEF Delayed
      <3>3. Queued(p) <= due[p] + Ahead + Inherited(p) + Caused + Grace
        BY <1>2, <3>1, <3>2, Times
      <3>4. due[p] + Ahead + Grace <= 2 * Period
        BY <1>2, GraceAssumption, Times
      <3> QED BY <1>2, <2>6, <3>3, <3>4, Times
    <2>9. Backlog(p)'
      BY <1>1, <2>3, <2>7, <2>8 DEF Backlog
    <2>10. \A i \in Proc : i # p => Backlog(i)'
      BY <1>1, <2>1, <2>2, <2>3, <2>4 DEF BacklogInv, Backlog
    <2>11. \A i \in Proc : hellos[i] = 0 => hellos'[i] = 0
      BY <2>1, Times DEF Least, NumbersOK
    <2> QED BY <2>1, <2>9, <2>10, <2>11 DEF BacklogInv
  <1>5. CASE Receive
    <2>1. /\ UNCHANGED <<up, due, missed, flag, forked, misses>>
          /\ ~missed /\ missed' = FALSE /\ wait = 0 /\ hellos[look] > 0
          /\ hellos' = [hellos EXCEPT ![look] = @ - 1]
          /\ NextQueue
      BY <1>5 DEF Receive
    <2>2. \A i \in Proc : UntilLook(i)' =
            IF i = look THEN Period ELSE UntilLook(i)
      BY <2>1, Turn
    <2>3. UntilLook(look) = 0
      BY <2>1 DEF UntilLook, Passed, NumbersOK, Proc
    <2>4. Caused' = Caused /\ Delayed' = Delayed
      BY <2>1 DEF Caused, Delayed
    <2>5. \A i \in Proc : i = look =>
            Queued(i) = Queued(i)' + Period /\ Queued(i)' \in Nat
      <3>1. hellos'[look] \in Nat /\ hellos[look] = hellos'[look] + 1
        BY <2>1 DEF NumbersOK
      <3> QED BY <3>1, OneMore, Product DEF Queued
    <2>6. \A i \in Proc : i # look => Queued(i)' = Queued(i)
      BY <2>1 DEF Queued, NumbersOK
    <2>7. ASSUME NEW i \in Proc PROVE Backlog(i)'
      <3>1. Backlog(i) /\ up' = up /\ due' = due
        BY <2>1 DEF BacklogInv
      <3>2. CASE i = look
        BY <1>1, <1>2, <2>2, <2>3, <2>4, <2>5, <3>1, <3>2, Times DEF Backlog
      <3>3. CASE i # look
        <4>1. Queued(i)' = Queued(i) /\ UntilLook(i)' = UntilLook(i)
          BY <2>2, <2>6, <3>3
        <4> QED BY <1>1, <2>4, <3>1, <4>1 DEF Backlog
      <3> QED BY <3>2, <3>3
    <2>8. (flag >= 0 /\ ~forked) => hellos'[flag] = 0
      BY <2>1, Times DEF BacklogInv, NumbersOK, Proc
    <2> QED BY <2>1, <2>7, <2>8 DEF BacklogInv
  <1>6. CASE Miss
    <2>1. /\ UNCHANGED <<up, due, hellos, look, flag, forked, misses>>
          /\ wait = 0 /\ hellos[look] = 0 /\ wait' = Grace
          /\ ~missed /\ missed'
      BY <1>6 DEF Miss
    <2>2. ~up[look]
      <3>1. (Period * hellos[look]) = 0
        BY <2>1, Times
      <3>2. UntilLook(look) = 0
        BY <2>1 DEF UntilLook, Passed, NumbersOK, Proc
      <3>3. due[look] \in Nat /\ look \in Proc
        BY DEF NumbersOK
      <3> QED BY <3>1, <3>2, <3>3 DEF SafeInv, Timely
    <2>3. \A i \in Proc : i # look => UntilLook(i)' = UntilLook(i) + Grace
      BY <2>1, Times DEF UntilLook, Passed
    <2>4. Caused' = Caused /\ Delayed' = Delayed + Grace
      BY <1>2, <2>1, Times DEF Caused, Delayed, SleepInv
    <2>5. \A i \in Proc : Queued(i)' = Queued(i)
      BY <2>1 DEF Queued
    <2>6. ASSUME NEW i \in Proc PROVE Backlog(i)'
      <3>1. Backlog(i) /\ up' = up /\ due' = due
        BY <2>1 DEF BacklogInv
      <3>2. CASE up[i]
        <4>1. UntilLook(i)' = UntilLook(i) + Grace
          BY <2>2, <2>3, <3>2
        <4> QED BY <1>1, <1>2, <2>4, <2>5, <3>1, <3>2, <4>1, Times
                DEF Backlog
      <3>3. CASE ~up[i]
        BY <1>1, <2>4, <2>5, <3>1, <3>3 DEF Backlog
      <3> QED BY <3>2, <3>3
    <2> QED BY <2>1, <2>6 DEF BacklogInv
  <1>7. CASE Report
    <2>1. /\ UNCHANGED <<up, due, hellos, forked>>
          /\ flag' = look /\ misses' = misses + 1
          /\ wait = 0 /\ missed /\ missed' = FALSE
          /\ NextQueue
      BY <1>7 DEF Report
    <2>2. \A i \in Proc : UntilLook(i)' = UntilLook(i)
      <3>1. \A i \in Proc : UntilLook(i)' =
              IF i = look THEN Period ELSE UntilLook(i)
        BY <2>1, Turn
      <3>2. UntilLook(look) = Period
        BY <2>1, Times DEF UntilLook, Passed
      <3> QED BY <3>1, <3>2
    <2>3. Caused' = Caused + Grace
      <3>1. (Grace * (misses + 1)) = (Grace * misses) + Grace
        BY OneMoreMiss DEF SleepInv
      <3> QED BY <2>1, <3>1 DEF Caused
    <2>8. Delayed' = Delayed
      BY <1>2, <2>1, <2>3, Times DEF Delayed
    <2>4. \A i \in Proc : Queued(i)' = Queued(i)
      BY <2>1 DEF Queued
    <2>5. ASSUME NEW i \in Proc PROVE Backlog(i)'
      <3>1. Backlog(i) /\ up' = up /\ due' = due
        BY <2>1 DEF BacklogInv
      <3> QED BY <1>1, <1>2, <2>2, <2>3, <2>4, <2>8, <3>1, Times DEF Backlog
    <2> QED BY <2>1, <2>5 DEF BacklogInv
  <1>8. CASE Fork         \* its queue is empty, and its first look far off
    <2>1. PICK t \in FirstHello : due' = [due EXCEPT ![flag] = t]
      BY <1>8 DEF Fork
    <2>2. /\ UNCHANGED <<hellos, look, missed, wait, flag, misses>>
          /\ up' = [up EXCEPT ![flag] = TRUE]
          /\ flag \in Proc /\ forked' /\ hellos[flag] = 0
          /\ ~(missed /\ look = flag)
      BY <1>8, Times
         DEF Fork, SafeInv, Reported, BacklogInv, NumbersOK, Proc
    <2>3. t \in Nat /\ Period - Ahead <= t
      BY Times DEF FirstHello
    <2>4. \A i \in Proc : UntilLook(i)' = UntilLook(i)
      BY <2>2 DEF UntilLook, Passed
    <2>5. Caused' = Caused /\ Delayed' = Delayed
      BY <2>2 DEF Caused, Delayed
    <2>6. \A i \in Proc : Queued(i)' = Queued(i)
      BY <2>2 DEF Queued
    <2>7. ASSUME NEW i \in Proc PROVE Backlog(i)'
      <3>1. Backlog(i)
        BY DEF BacklogInv
      <3>2. CASE i = flag
        <4>1. due'[i] = t
          BY <2>1, <2>2, <3>2 DEF NumbersOK
        <4>2. Queued(i) = 0
          BY <2>2, <3>2, Times DEF Queued
        <4>3. UntilLook(i) <= Period + (IF missed THEN Grace ELSE 0)
          BY Times DEF UntilLook, Passed, SleepInv, NumbersOK, Proc
        <4>4. UntilLook(i) <= t + Ahead + Inherited(i) + Delayed
          BY <1>2, <2>3, <4>3, Times DEF Delayed
        <4>5. up'[i]
          BY <2>2, <3>2, Zenon DEF FlagsOK
        <4> QED BY <1>1, <1>2, <2>4, <2>5, <2>6, <4>1, <4>2, <4>4, <4>5
                DEF Backlog
      <3>3. CASE i # flag
        <4>1. due'[i] = due[i]
          BY <2>1, <3>3 DEF NumbersOK
        <4>2. up'[i] = up[i]
          BY <2>2, <3>3, Zenon DEF FlagsOK
        <4> QED BY <1>1, <2>4, <2>5, <2>6, <3>1, <4>1, <4>2 DEF Backlog
      <3> QED BY <3>2, <3>3
    <2> QED BY <2>2, <2>7 DEF BacklogInv
  <1>9. CASE Reset
    <2>1. /\ UNCHANGED <<up, due, hellos, look, missed, wait, misses>>
          /\ flag' = -1
      BY <1>9 DEF Reset
    <2>2. \A i \in Proc : Backlog(i)'
      BY <1>1, <2>1 DEF BacklogInv, Backlog, Queued, UntilLook, Passed,
                        Caused, Delayed
    <2> QED BY <2>1, <2>2 DEF BacklogInv
  <1>10. CASE Tick
    <2>1. /\ UNCHANGED <<up, hellos, look, missed, flag, forked, misses>>
          /\ wait > 0 /\ wait' = wait - 1
      BY <1>10 DEF Tick
    <2>2. \A i \in Proc : UntilLook(i)' = UntilLook(i) - 1
      BY <2>1, Times DEF UntilLook, Passed, NumbersOK
    <2>3. Caused' = Caused /\ Delayed' = Delayed
      BY <2>1 DEF Caused, Delayed
    <2>4. \A i \in Proc : Queued(i)' = Queued(i)
      BY <2>1 DEF Queued
    <2>5. \A i \in Proc : up[i] => due'[i] = due[i] - 1
      BY <1>10 DEF Tick
    <2>6. ASSUME NEW i \in Proc PROVE Backlog(i)'
      <3>1. Backlog(i) /\ up' = up
        BY <2>1 DEF BacklogInv
      <3>2. CASE up[i]
        <4>1. due'[i] = due[i] - 1
          BY <2>5, <3>2
        <4> QED BY <1>1, <1>2, <2>2, <2>3, <2>4, <3>1, <3>2, <4>1, Times
                DEF Backlog
      <3>3. CASE ~up[i]
        BY <1>1, <2>3, <2>4, <3>1, <3>3 DEF Backlog
      <3> QED BY <3>2, <3>3
    <2> QED BY <2>1, <2>6 DEF BacklogInv
  <1> QED
    BY <1>3, <1>4, <1>5, <1>6, <1>7, <1>8, <1>9, <1>10 DEF Watching

(***************************************************************************)
(* Until main watches, each queue holds no more than a former run left.    *)
(***************************************************************************)
Fresh == misses = 0 /\ \A i \in Proc : hellos[i] <= Left(i)

LateInv ==
  /\ SleepInv
  /\ Prompt => BacklogInv
  /\ mpc # "run" => Fresh
  /\ (mpc = "open" /\ ~field) => kept = [i \in Proc |-> 0]

LEMMA FreshIsLate ==
  StartInv /\ Rest /\ Fresh => SleepInv /\ BacklogInv
  <1> SUFFICES ASSUME StartInv, Rest, Fresh PROVE SleepInv /\ BacklogInv
    OBVIOUS
  <1>1. SleepInv
    BY Times DEF Rest, Fresh, SleepInv
  <1>2. ~missed /\ flag = -1 /\ look = 0 /\ wait = Period
    BY DEF Rest
  <1>3. ASSUME NEW i \in Proc PROVE Backlog(i)
    <2>1. /\ Queued(i) \in Nat /\ Inherited(i) \in Nat /\ Caused \in Nat
          /\ Delayed \in Nat
      BY <1>1, Sums DEF StartInv, Inv, SleepInv
    <2>2. Queued(i) <= Inherited(i)
      <3>1. hellos[i] \in Nat /\ Left(i) \in Nat /\ hellos[i] <= Left(i)
        BY DEF StartInv, Inv, NumbersOK, Fresh, Left
      <3> QED BY <3>1, Times DEF Queued, Inherited
    <2>3. due[i] \in Nat /\ Period <= due[i] + Ahead
      BY Times DEF Rest, FirstHello
    <2>4. UntilLook(i) = Period
      BY <1>2, Times DEF UntilLook, Passed, Proc
    <2> QED BY <2>1, <2>2, <2>3, <2>4, Times DEF Backlog
  <1> QED BY <1>1, <1>2, <1>3 DEF BacklogInv

(***************************************************************************)
(* A step of the start, and one that leads to it.                          *)
(***************************************************************************)
LEMMA FreshStep ==
  ASSUME StartInv, StartInv', mpc' # "run", Fresh',
         (mpc' = "open" /\ ~field') => kept' = [i \in Proc |-> 0]
  PROVE  LateInv'
  <1>1. Rest'
    BY DEF StartInv
  <1>2. SleepInv' /\ BacklogInv'
    BY <1>1, FreshIsLate, PTL
  <1> QED BY <1>2 DEF LateInv

LEMMA LateAside ==
  LateInv /\ UNCHANGED <<up, due, hellos, look, missed, wait, flag, refused,
                         misses, kept, mpc, field>>
          /\ (forked => forked')
    => LateInv'
  <1> SUFFICES ASSUME LateInv,
                      UNCHANGED <<up, due, hellos, look, missed, wait, flag,
                                  refused, misses, kept, mpc, field>>,
                      forked => forked'
               PROVE  LateInv'
    OBVIOUS
  <1>1. SleepInv'
    BY DEF LateInv, SleepInv
  <1>2. Prompt' => Prompt
    BY DEF Prompt
  <1>3. BacklogInv => BacklogInv'
    BY DEF BacklogInv, Backlog, Queued, UntilLook, Passed, Inherited, Left,
           Caused, Delayed
  <1>4. Fresh => Fresh'
    BY DEF Fresh, Left
  <1> QED BY <1>1, <1>2, <1>3, <1>4 DEF LateInv

LEMMA LateStep ==
  ASSUME StartInv, StartInv', LateInv, AnyStart
  PROVE  LateInv'
  <1> USE DEF vars, processes, watchdog, main, history, start
  <1>1. field' = field
    BY DEF AnyStart
  <1>2. CASE ~field /\ RemoveWatchdog
    <2>1. mpc # "run" /\ mpc' = "open" /\ UNCHANGED <<hellos, misses>>
          /\ kept' = [i \in Proc |-> 0]
      BY <1>2 DEF RemoveWatchdog
    <2>2. Fresh'
      BY <1>1, <1>2, <2>1 DEF LateInv, Fresh, Left
    <2> QED BY <2>1, <2>2, FreshStep
  <1>3. CASE OpenWatchdog
    <2>1. mpc = "open" /\ mpc' = "gather" /\ hellos' = kept
          /\ UNCHANGED <<misses, kept>>
      BY <1>3 DEF OpenWatchdog
    <2>2. Fresh'
      BY <1>1, <2>1 DEF LateInv, Fresh, Left, StartInv
    <2> QED BY <2>1, <2>2, FreshStep
  <1>4. CASE ForkGather \/ MainExits
    <2>1. mpc # "run" /\ mpc' # "run" /\ mpc' # "open"
          /\ UNCHANGED <<hellos, misses, kept>>
      BY <1>4 DEF ForkGather, MainExits
    <2>2. Fresh'
      BY <1>1, <2>1 DEF LateInv, Fresh, Left
    <2> QED BY <2>1, <2>2, FreshStep
  <1>5. CASE GatherStep \/ create_v43 \/ GatherExits \/ EarlySignal
    BY <1>1, <1>5, LateAside
       DEF GatherStep, create_v43, GatherExits, EarlySignal
  <1>6. ASSUME NEW i \in Client,
               \/ ForkClient(i) \/ client_v43(i)
               \/ OpenData(i) \/ OpenBack(i) \/ ClientExits(i)
        PROVE  LateInv'
    BY <1>1, <1>6, LateAside
       DEF ForkClient, client_v43, OpenData, OpenBack, ClientExits
  <1>7. CASE Watch
    <2>1. /\ mpc # "run" /\ mpc' = "run"
          /\ UNCHANGED <<hellos, misses, kept, due, look, missed, wait, flag,
                         forked>>
      BY <1>7 DEF Watch, Arrived
    <2>2. Fresh'
      BY <1>1, <2>1 DEF LateInv, Fresh, Left
    <2>3. Rest'
      BY <2>1 DEF StartInv, Rest
    <2>4. SleepInv' /\ BacklogInv'
      BY <2>2, <2>3, FreshIsLate, PTL
    <2> QED BY <2>1, <2>4 DEF LateInv
  <1>8. ASSUME Watching \/ Fork, UNCHANGED <<mpc, kept>>, mpc = "run"
        PROVE  LateInv'
    <2>1. Next
      BY <1>8 DEF Watching, Next
    <2>2. SleepInv'
      BY <2>1, SleepStep DEF StartInv, Inv, LateInv
    <2>3. Prompt' => Prompt
      <3>1. refused' = refused \/ refused' = refused + 1
        BY <2>1 DEF Next, Hello, Die, Receive, Miss, Report, Fork, Reset,
                    Reboot, Tick
      <3>2. refused \in Nat
        BY DEF StartInv, Inv, NumbersOK
      <3> QED BY <3>1, <3>2, Times DEF Prompt
    <2>4. Prompt => BacklogInv'
      BY <1>1, <1>8, BacklogStep DEF StartInv, Inv, LateInv
    <2> QED BY <1>8, <2>2, <2>3, <2>4 DEF LateInv
  <1>9. CASE StartAgain
    BY <1>8, <1>9 DEF StartAgain
  <1>10. CASE ForkInVain
    BY <1>1, <1>10, LateAside DEF ForkInVain
  <1>11. CASE RebootAll
    <2>1. /\ mpc' # "run" /\ misses' = 0
          /\ hellos' = [i \in Proc |-> 0] /\ kept' = [i \in Proc |-> 0]
      BY <1>11 DEF RebootAll, Reboot, Begin
    <2>2. Fresh'
      BY <2>1 DEF Fresh, Left
    <2> QED BY <2>1, <2>2, FreshStep
  <1>12. ASSUME NEW i \in Proc, hello_v43(i) PROVE LateInv'
    BY <1>8, <1>12, Zenon DEF hello_v43, Watching
  <1>13. CASE Supervise \/ watchdog_v43
    BY <1>8, <1>13, Zenon DEF Supervise, watchdog_v43, Watching
  <1>14. CASE mpc = "run" /\ (Reset \/ Tick \/ \E i \in Proc : Die(i))
              /\ UNCHANGED start
    BY <1>8, <1>14, Zenon DEF Watching
  <1>15. CASE ~field /\ StartStep
    BY <1>2, <1>3, <1>4, <1>5, <1>6, <1>7, <1>9, <1>10, <1>11, <1>13, <1>15,
       Zenon DEF StartStep
  <1>16. CASE field /\ FieldStep
    BY <1>3, <1>4, <1>5, <1>6, <1>7, <1>9, <1>10, <1>11, <1>12, <1>13,
       <1>14, <1>16, Zenon
       DEF FieldStep, open_v43, gather_v43, queues_v43, main_v43
  <1> QED BY <1>15, <1>16 DEF AnyStart

LEMMA LateCaused == StartInv /\ LateInv => BacklogHasCause
  <1> SUFFICES ASSUME StartInv, LateInv, Prompt, NEW i \in Proc
               PROVE  Period * (hellos[i] - 2 - Left(i)) <= Grace * misses
    BY DEF BacklogHasCause, Prompt
  <1>1. /\ Queued(i) \in Nat /\ Inherited(i) \in Nat /\ Caused \in Nat
        /\ UntilLook(i) \in Nat /\ due[i] \in 0 .. Period
    BY Sums DEF StartInv, Inv, LateInv, SleepInv
  <1>2. Queued(i) <= (2 * Period) + Inherited(i) + Caused
    <2>1. Backlog(i)
      BY DEF LateInv, BacklogInv
    <2>2. Delayed <= Caused + Grace
      BY <1>1, Times DEF Delayed
    <2>3. Delayed \in Nat
      BY <1>1, Times DEF Delayed
    <2>4. Ahead + Grace <= Period
      BY GraceAssumption
    <2> QED BY <1>1, <2>1, <2>2, <2>3, <2>4, Times DEF Backlog
  <1>3. hellos[i] \in Nat /\ Left(i) \in Nat
    BY DEF StartInv, Inv, NumbersOK, Left
  <1>4. Period * (hellos[i] - 2 - Left(i))
          = Queued(i) - (2 * Period) - Inherited(i)
    BY <1>3, Times DEF Queued, Inherited
  <1> QED BY <1>1, <1>2, <1>4, Times DEF Caused

-----------------------------------------------------------------------------
(***************************************************************************)
(* How many other queues the watchdog thread looks at before it comes to a *)
(* process; when that is at the latest; and by when it finds none of its   *)
(* hellos any more and has slept.                                          *)
(***************************************************************************)
Looks(i) ==
  IF missed
    THEN IF look < i THEN i - look - 1 ELSE N - look + i
    ELSE IF look <= i THEN i - look ELSE N + 1 - look + i

Sleeps(i) == Grace * Looks(i)

Away(i) == UntilLook(i) + Sleeps(i)

Hidden(i) == Round * hellos[i]

Deadline(i) == Away(i) + Hidden(i) + Grace

AtIt(i) == missed /\ look = i

LEMMA RoundIs ==
  /\ Round \in Nat /\ (Grace * N) \in Nat
  /\ Round = Period + (Grace * N) + Grace
  BY Times DEF Round

LEMMA MoreMisses ==
  \A a, b \in Nat : a <= b => (Grace * a) <= (Grace * b) /\ (Grace * a) \in Nat
  BY Times

LEMMA MoreRounds ==
  \A a \in Nat : /\ (Round * a) \in Nat
                 /\ (Round * (a + 1)) = (Round * a) + Round
  BY RoundIs

LooksOK == \A i \in Proc : Looks(i) \in 0 .. N

LEMMA LooksNat == NumbersOK => LooksOK
  BY Times DEF NumbersOK, LooksOK, Looks, Proc

LEMMA AwayNat ==
  ASSUME NumbersOK, NEW i \in Proc
  PROVE  /\ Sleeps(i) \in Nat /\ UntilLook(i) \in Nat /\ Away(i) \in Nat
         /\ Hidden(i) \in Nat /\ Deadline(i) \in Nat
  <1>1. Sleeps(i) \in Nat
    BY LooksNat, MoreMisses DEF LooksOK, Sleeps
  <1>2. UntilLook(i) \in Nat
    BY Times DEF NumbersOK, UntilLook
  <1>3. Hidden(i) \in Nat
    BY MoreRounds DEF NumbersOK, Hidden
  <1> QED BY <1>1, <1>2, <1>3, Times DEF Away, Deadline

AwayOK ==
  \A i \in Proc :
    Away(i) \in Nat /\ Hidden(i) \in Nat /\ Deadline(i) \in Nat

LEMMA AllAwayNat == NumbersOK => AwayOK
  BY AwayNat DEF AwayOK

(***************************************************************************)
(* The next look is less than a round away.                                *)
(***************************************************************************)
NearOK ==
  \A i \in Proc : Away(i) + (IF AtIt(i) THEN 0 ELSE Grace) <= Round

LEMMA NeverFar == NumbersOK /\ SleepInv => NearOK
  <1> SUFFICES ASSUME NumbersOK, SleepInv, NEW i \in Proc
               PROVE  Away(i) + (IF AtIt(i) THEN 0 ELSE Grace) <= Round
    BY DEF NearOK
  <1> DEFINE k == Looks(i)
  <1>1. k \in 0 .. N
    BY LooksNat DEF LooksOK
  <1>2. (Grace * k) <= (Grace * N) /\ (Grace * k) \in Nat
    BY <1>1, MoreMisses, Times
  <1>3. CASE AtIt(i)
    <2>1. UntilLook(i) <= Period + Grace
      BY <1>3, Times DEF AtIt, SleepInv, UntilLook, NumbersOK
    <2> QED BY <1>2, <1>3, <2>1, RoundIs, AwayNat, Times DEF Away, Sleeps
  <1>4. CASE ~missed
    <2>1. UntilLook(i) <= Period
      BY <1>4, Times DEF SleepInv, UntilLook, Passed, NumbersOK, Proc
    <2>2. ~AtIt(i)
      BY <1>4 DEF AtIt
    <2> QED BY <1>2, <2>1, <2>2, RoundIs, AwayNat, Times DEF Away, Sleeps
  <1>5. CASE missed /\ look # i
    <2>1. UntilLook(i) <= Period + Grace
      BY <1>5, Times DEF SleepInv, UntilLook, NumbersOK
    <2>2. k + 1 \in 0 .. N
      BY <1>5, Times DEF Looks, NumbersOK, Proc
    <2>3. (Grace * (k + 1)) <= (Grace * N)
      BY <2>2, MoreMisses, Times
    <2>4. (Grace * (k + 1)) = (Grace * k) + Grace
      BY <1>1, OneMoreMiss
    <2>5. ~AtIt(i)
      BY <1>5 DEF AtIt
    <2> QED BY <1>2, <2>1, <2>3, <2>4, <2>5, RoundIs, AwayNat, Times
            DEF Away, Sleeps
  <1> QED BY <1>3, <1>4, <1>5 DEF AtIt

(***************************************************************************)
(* What the steps of the watchdog thread do to the times.                  *)
(***************************************************************************)
LEMMA AwayReceive ==
  ASSUME NumbersOK, NumbersOK', wait = 0, ~missed, missed' = FALSE, NextQueue,
         NEW i \in Proc, i # look
  PROVE  Away(i)' <= Away(i)
  <1>1. UntilLook(i)' = UntilLook(i)
    BY Turn
  <1>2. Looks(i)' <= Looks(i)
    <2>1. N \in Nat /\ look \in 0 .. N /\ i \in 0 .. N
      BY Times DEF NumbersOK, Proc
    <2>2. CASE look < N /\ look' = look + 1
      BY <2>1, <2>2 DEF Looks
    <2>3. CASE look = N /\ look' = 0
      BY <2>1, <2>3 DEF Looks
    <2> QED BY <2>1, <2>2, <2>3 DEF NextQueue
  <1>3. Looks(i) \in Nat /\ Looks(i)' \in Nat
    <2>1. LooksOK'
      BY LooksNat, PTL
    <2> QED BY <2>1, LooksNat DEF LooksOK
  <1>4. Sleeps(i)' <= Sleeps(i) /\ Sleeps(i)' \in Nat
    BY <1>2, <1>3, MoreMisses DEF Sleeps
  <1>5. Sleeps(i) \in Nat /\ UntilLook(i) \in Nat
    BY AwayNat
  <1> QED BY <1>1, <1>4, <1>5 DEF Away

LEMMA AwayReport ==
  ASSUME NumbersOK, NumbersOK', wait = 0, missed, missed' = FALSE, NextQueue,
         NEW i \in Proc
  PROVE  Away(i)' <= Away(i)
  <1>1. UntilLook(i)' = UntilLook(i)
    <2>1. UntilLook(i)' = IF i = look THEN Period ELSE UntilLook(i)
      BY Turn
    <2>2. i = look => UntilLook(i) = Period
      BY Times DEF UntilLook, Passed
    <2> QED BY <2>1, <2>2
  <1>2. Looks(i)' <= Looks(i)
    <2>1. N \in Nat /\ look \in 0 .. N /\ i \in 0 .. N
      BY Times DEF NumbersOK, Proc
    <2>2. CASE look < N /\ look' = look + 1
      BY <2>1, <2>2 DEF Looks
    <2>3. CASE look = N /\ look' = 0
      BY <2>1, <2>3 DEF Looks
    <2> QED BY <2>1, <2>2, <2>3 DEF NextQueue
  <1>3. Looks(i) \in Nat /\ Looks(i)' \in Nat
    <2>1. LooksOK'
      BY LooksNat, PTL
    <2> QED BY <2>1, LooksNat DEF LooksOK
  <1>4. Sleeps(i)' <= Sleeps(i) /\ Sleeps(i)' \in Nat
    BY <1>2, <1>3, MoreMisses DEF Sleeps
  <1>5. Sleeps(i) \in Nat /\ UntilLook(i) \in Nat
    BY AwayNat
  <1> QED BY <1>1, <1>4, <1>5 DEF Away

LEMMA AwayMiss ==
  ASSUME NumbersOK, NumbersOK', wait = 0, wait' = Grace, ~missed, missed',
         look' = look, NEW i \in Proc, i # look
  PROVE  Away(i)' <= Away(i)
  <1>1. UntilLook(i)' = UntilLook(i) + Grace
    BY Times DEF UntilLook, Passed
  <1>2. Looks(i)' \in Nat /\ Looks(i) = Looks(i)' + 1
    BY Times DEF NumbersOK, Looks, Proc
  <1>3. (Grace * (Looks(i)' + 1)) = (Grace * Looks(i)') + Grace
    BY <1>2, OneMoreMiss
  <1>4. Sleeps(i) = Sleeps(i)' + Grace
    BY <1>2, <1>3 DEF Sleeps
  <1>5. (Grace * Looks(i)') \in Nat /\ UntilLook(i) \in Nat
    BY <1>2, MoreMisses, AwayNat
  <1> QED BY <1>1, <1>4, <1>5, Times DEF Away, Sleeps

-----------------------------------------------------------------------------
(***************************************************************************)
(* A dead process has been dead for at most b when it is reported; if it   *)
(* has been reported, and main has not yet started it, a round more is     *)
(* allowed until it would be reported again.                               *)
(***************************************************************************)
Marked(i) == flag = i /\ ~forked

Bounded(i, b) ==
  /\ Marked(i) => gone[i] <= b
  /\ (~Marked(i) /\ AtIt(i)) => gone[i] + wait <= b
  /\ gone[i] + Deadline(i)
       <= b + (IF Marked(i) THEN Round ELSE 0) + (IF AtIt(i) THEN Round ELSE 0)

NatGone == gone \in [Proc -> Nat]

LEMMA BoundedStep ==
  ASSUME NumbersOK, NumbersOK', FlagsOK, SleepInv, SleepInv', NatGone,
         forked => flag >= 0, NEW i \in Proc, ~up[i], ~up'[i], Next,
         NEW b \in Nat, NEW c \in Nat, b <= c,
         (Tick /\ flag >= 0) => b + 1 <= c,
         (Report /\ flag >= 0) => b + Round <= c,
         Bounded(i, b)
  PROVE  Bounded(i, c)'
  <1> USE DEF processes, watchdog, main, history
  <1>1. /\ Sleeps(i) \in Nat /\ UntilLook(i) \in Nat /\ Away(i) \in Nat
        /\ Hidden(i) \in Nat /\ Deadline(i) \in Nat
    BY AwayNat
  <1>2. gone[i] \in Nat /\ wait \in Nat /\ hellos[i] \in Nat /\ look \in Proc
    BY DEF NatGone, NumbersOK
  <1>3. NearOK'
    BY NeverFar, PTL
  <1>0. Away(i)' \in Nat /\ Hidden(i)' \in Nat /\ Deadline(i)' \in Nat
    <2>1. AwayOK'
      BY AllAwayNat, PTL
    <2> QED BY <2>1 DEF AwayOK
  <1>4. ASSUME UNCHANGED <<flag, forked, look, missed, wait, gone>>,
               hellos'[i] = hellos[i]
        PROVE  Bounded(i, c)'
    <2>1. UNCHANGED <<AtIt(i), Marked(i), wait, gone[i]>>
      BY <1>4 DEF AtIt, Marked
    <2>2. Deadline(i)' = Deadline(i)
      BY <1>4 DEF Deadline, Hidden, Away, Sleeps, Looks, UntilLook, Passed
    <2> QED BY <1>1, <1>2, <2>1, <2>2, RoundIs DEF Bounded
  <1>5. ASSUME NEW p \in Proc, Hello(p) PROVE Bounded(i, c)'
    <2>1. p # i
      BY <1>5 DEF Hello
    <2> QED BY <1>4, <1>5, <2>1 DEF Hello, NumbersOK
  <1>6. ASSUME NEW p \in Proc, Die(p) PROVE Bounded(i, c)'
    <2>1. p # i
      BY <1>6 DEF Die
    <2>2. /\ UNCHANGED <<flag, forked, look, missed, wait>>
          /\ hellos'[i] = hellos[i] /\ gone'[i] = gone[i]
      BY <1>6, <2>1 DEF Die, NumbersOK, NatGone
    <2>3. UNCHANGED <<AtIt(i), Marked(i), wait, gone[i]>>
      BY <2>2 DEF AtIt, Marked
    <2>4. Deadline(i)' = Deadline(i)
      BY <2>2 DEF Deadline, Hidden, Away, Sleeps, Looks, UntilLook, Passed
    <2> QED BY <1>1, <1>2, <2>3, <2>4, RoundIs DEF Bounded
  <1>7. CASE Receive
    <2>1. /\ UNCHANGED <<flag, forked, gone>>
          /\ wait = 0 /\ ~missed /\ missed' = FALSE /\ NextQueue
          /\ hellos[look] > 0
          /\ hellos' = [hellos EXCEPT ![look] = @ - 1]
      BY <1>7 DEF Receive
    <2>2. ~AtIt(i) /\ ~AtIt(i)' /\ UNCHANGED <<Marked(i), gone[i]>>
      BY <2>1 DEF AtIt, Marked
    <2>3. Deadline(i)' <= Deadline(i) /\ Deadline(i)' \in Nat
      <3>2. CASE i # look
        <4>1. Away(i)' <= Away(i)
          BY <2>1, <3>2, AwayReceive
        <4>2. Hidden(i)' = Hidden(i)
          BY <2>1, <3>2 DEF Hidden, NumbersOK
        <4> QED BY <1>0, <1>1, <4>1, <4>2, Times DEF Deadline
      <3>3. CASE i = look
        <4>1. hellos'[i] \in Nat /\ hellos[i] = hellos'[i] + 1
          BY <1>2, <2>1, <3>3 DEF NumbersOK
        <4>2. Hidden(i) = Hidden(i)' + Round
          BY <4>1, MoreRounds DEF Hidden
        <4>3. Away(i)' + Grace <= Round
          BY <1>3, <2>2 DEF NearOK
        <4> QED BY <1>0, <1>1, <4>2, <4>3, Times, RoundIs DEF Deadline
      <3> QED BY <3>2, <3>3
    <2> QED BY <1>1, <1>2, <2>2, <2>3, RoundIs DEF Bounded
  <1>8. CASE Miss
    <2>1. /\ UNCHANGED <<flag, forked, gone, look, hellos>>
          /\ wait = 0 /\ wait' = Grace /\ ~missed /\ missed'
          /\ hellos[look] = 0
      BY <1>8 DEF Miss
    <2>2. ~AtIt(i) /\ UNCHANGED <<Marked(i), gone[i]>>
      BY <2>1 DEF AtIt, Marked
    <2>3. Hidden(i)' = Hidden(i)
      BY <2>1 DEF Hidden
    <2>4. CASE i # look
      <3>1. Away(i)' <= Away(i) /\ ~AtIt(i)'
        BY <2>1, <2>4, AwayMiss DEF AtIt
      <3>2. Deadline(i)' <= Deadline(i)
        BY <1>0, <1>1, <2>3, <3>1, Times DEF Deadline
      <3> QED BY <1>0, <1>1, <1>2, <2>2, <3>1, <3>2, RoundIs DEF Bounded
    <2>5. CASE i = look
      <3>1. AtIt(i)'
        BY <2>1, <2>5 DEF AtIt
      <3>2. Hidden(i) = 0
        BY <2>1, <2>5, RoundIs DEF Hidden
      <3>3. Away(i)' <= Round
        BY <1>0, <1>3, <3>1 DEF NearOK
      <3>4. Grace <= Deadline(i) /\ Deadline(i)' <= Deadline(i) + Round
        BY <1>0, <1>1, <2>3, <3>2, <3>3, Times, RoundIs DEF Deadline
      <3> QED BY <1>0, <1>1, <1>2, <2>1, <2>2, <3>1, <3>4, RoundIs, Times
              DEF Bounded
    <2> QED BY <2>4, <2>5
  <1>9. CASE Report
    <2>1. /\ UNCHANGED <<forked, gone, hellos>>
          /\ wait = 0 /\ missed /\ missed' = FALSE /\ NextQueue
          /\ flag' = look
      BY <1>9 DEF Report
    <2>2. Deadline(i)' <= Deadline(i)
      <3>1. Away(i)' <= Away(i)
        BY <2>1, AwayReport
      <3>2. Hidden(i)' = Hidden(i)
        BY <2>1 DEF Hidden
      <3> QED BY <1>0, <1>1, <3>1, <3>2, Times DEF Deadline
    <2>3. ~AtIt(i)' /\ gone'[i] = gone[i]
      BY <2>1 DEF AtIt
    <2>4. Marked(i) => b + Round <= c
      BY <1>9, Times DEF Marked, Proc
    <2>5. CASE i # look
      <3>1. ~AtIt(i) /\ ~Marked(i)'
        BY <2>1, <2>5 DEF AtIt, Marked
      <3> QED BY <1>0, <1>1, <1>2, <2>2, <2>3, <2>4, <3>1, RoundIs
              DEF Bounded
    <2>6. CASE i = look
      <3>1. AtIt(i) /\ flag' = i
        BY <2>1, <2>6 DEF AtIt
      <3>2. CASE forked
        <4>1. ~Marked(i) /\ ~Marked(i)' /\ b + Round <= c
          BY <1>9, <2>1, <3>2 DEF Marked
        <4> QED BY <1>0, <1>1, <1>2, <2>2, <2>3, <3>1, <4>1, RoundIs
                DEF Bounded
      <3>3. CASE ~forked
        <4>1. Marked(i)'
          BY <2>1, <3>1, <3>3 DEF Marked
        <4>2. gone[i] <= c
          BY <1>2, <2>1, <3>1 DEF Bounded
        <4>3. gone[i] + Deadline(i) <= c + Round
          BY <1>1, <1>2, <2>4, <3>1, RoundIs DEF Bounded
        <4> QED BY <1>0, <1>1, <1>2, <2>2, <2>3, <4>1, <4>2, <4>3, RoundIs
                DEF Bounded
      <3> QED BY <3>2, <3>3
    <2> QED BY <2>5, <2>6
  <1>10. CASE Fork
    <2>1. /\ UNCHANGED <<flag, look, missed, wait, gone, hellos>>
          /\ forked' /\ up' = [up EXCEPT ![flag] = TRUE]
          /\ flag > 0
      BY <1>10 DEF Fork
    <2>2. ~Marked(i) /\ ~Marked(i)'
      <3>1. flag # i
        BY <2>1, Zenon DEF FlagsOK
      <3> QED BY <2>1, <3>1 DEF Marked
    <2>3. UNCHANGED <<AtIt(i), wait, gone[i]>>
      BY <2>1 DEF AtIt
    <2>4. Deadline(i)' = Deadline(i)
      BY <2>1 DEF Deadline, Hidden, Away, Sleeps, Looks, UntilLook, Passed
    <2> QED BY <1>1, <1>2, <2>2, <2>3, <2>4, RoundIs DEF Bounded
  <1>11. CASE Reset
    <2>1. /\ UNCHANGED <<look, missed, wait, gone, hellos>>
          /\ forked /\ flag' = -1
      BY <1>11 DEF Reset
    <2>2. ~Marked(i) /\ ~Marked(i)' /\ UNCHANGED <<AtIt(i), wait, gone[i]>>
      BY <2>1, Times DEF Marked, AtIt, Proc
    <2>3. Deadline(i)' = Deadline(i)
      BY <2>1 DEF Deadline, Hidden, Away, Sleeps, Looks, UntilLook, Passed
    <2> QED BY <1>1, <1>2, <2>2, <2>3, RoundIs DEF Bounded
  <1>12. CASE Reboot
    BY <1>12 DEF Reboot
  <1>13. CASE Tick
    <2>1. /\ UNCHANGED <<look, missed, flag, forked, hellos>>
          /\ wait > 0 /\ wait' = wait - 1
          /\ gone'[i] = gone[i] + 1
          /\ flag = -1 \/ flag > 0
      BY <1>13 DEF Tick
    <2>2. UNCHANGED <<AtIt(i), Marked(i)>>
      BY <2>1 DEF AtIt, Marked
    <2>3. Deadline(i)' = Deadline(i) - 1
      <3>1. UntilLook(i)' = UntilLook(i) - 1
        BY <1>2, <2>1, Times DEF UntilLook, Passed
      <3>2. Sleeps(i)' = Sleeps(i) /\ Hidden(i)' = Hidden(i)
        BY <2>1 DEF Sleeps, Looks, Hidden
      <3> QED BY <1>1, <3>1, <3>2, Times DEF Deadline, Away
    <2>4. Marked(i) => b + 1 <= c
      BY <1>13, Times DEF Marked, Proc
    <2> QED BY <1>1, <1>2, <2>1, <2>2, <2>3, <2>4, RoundIs DEF Bounded
  <1> QED
    BY <1>5, <1>6, <1>7, <1>8, <1>9, <1>10, <1>11, <1>12, <1>13 DEF Next

(***************************************************************************)
(* A process that has just died is reported a round after its hellos.      *)
(***************************************************************************)
LEMMA BoundIs ==
  /\ (Round * Cap) \in Nat /\ DetectionBound \in Nat
  /\ DetectionBound = (Round * Cap) + Round
  BY RoundIs, Times DEF DetectionBound

JustDead ==
  \A i \in Proc, h \in Nat, b \in Nat :
    (gone[i] = 0 /\ hellos[i] <= h /\ (Round * h) + Round <= b)
      => Bounded(i, b)

LEMMA JustDeadOK == NumbersOK /\ SleepInv => JustDead
  <1> SUFFICES ASSUME NumbersOK, SleepInv,
                      NEW i \in Proc, NEW h \in Nat, NEW b \in Nat,
                      gone[i] = 0, hellos[i] <= h, (Round * h) + Round <= b
               PROVE  Bounded(i, b)
    BY DEF JustDead
  <1>1. /\ Away(i) \in Nat /\ Hidden(i) \in Nat /\ Deadline(i) \in Nat
    BY AwayNat
  <1>2. Away(i) + (IF AtIt(i) THEN 0 ELSE Grace) <= Round
    BY NeverFar DEF NearOK
  <1>3. Hidden(i) <= (Round * h) /\ (Round * h) \in Nat
    BY RoundIs, Times DEF NumbersOK, Hidden
  <1>4. Grace <= Round
    BY RoundIs, Times
  <1>5. Deadline(i) <= b + (IF AtIt(i) THEN Round ELSE 0)
    BY <1>1, <1>2, <1>3, <1>4, RoundIs, Times DEF Deadline
  <1>6. AtIt(i) => wait <= b
    <2>1. AtIt(i) => wait <= Grace
      BY DEF AtIt, SleepInv
    <2> QED BY <1>3, <1>4, <2>1, RoundIs, Times DEF NumbersOK
  <1>7. wait \in Nat
    BY DEF NumbersOK
  <1> QED BY <1>1, <1>5, <1>6, <1>7, RoundIs DEF Bounded

LEMMA BoundedGone ==
  ASSUME NumbersOK, NatGone, NEW i \in Proc, NEW b \in Nat, Bounded(i, b)
  PROVE  gone[i] <= b
  <1>1. gone[i] \in Nat /\ Deadline(i) \in Nat /\ wait \in Nat
    BY AwayNat DEF NumbersOK, NatGone
  <1> QED BY <1>1 DEF Bounded

-----------------------------------------------------------------------------
(***************************************************************************)
(* A report is lost only when a process was found silent and the thread    *)
(* slept, while main was refused a fork all the time.  `Credit' is how     *)
(* much of such a sleep has passed.                                        *)
(***************************************************************************)
Credit == IF flag >= 0 /\ missed THEN Grace - wait ELSE 0

CreditOK == Credit \in Nat

LEMMA CreditNat == NumbersOK /\ SleepInv => CreditOK
  BY Times DEF CreditOK, Credit, SleepInv, NumbersOK

LEMMA CreditStep ==
  ASSUME NumbersOK, SleepInv, Next, NEW l \in Nat,
         (Grace * l) + Credit <= refused
  PROVE  \E k \in Nat :
           /\ (Grace * k) + Credit' <= refused'
           /\ IF Report /\ flag >= 0 THEN k = l + 1 ELSE k = l
  <1> USE DEF processes, watchdog, main, history
  <1>1. (Grace * l) \in Nat /\ (Grace * (l + 1)) = (Grace * l) + Grace
    BY MoreMisses, OneMoreMiss
  <1>2. Credit \in Nat
    BY Times DEF Credit, SleepInv, NumbersOK
  <1>3. refused \in Nat /\ wait \in Nat
    BY DEF NumbersOK
  <1>4. CASE Report
    <2>1. wait = 0 /\ missed /\ missed' = FALSE /\ refused' = refused
      BY <1>4 DEF Report
    <2>2. Credit' = 0
      BY <2>1 DEF Credit
    <2>3. CASE flag >= 0
      <3>1. Credit = Grace
        BY <2>1, <2>3, Times DEF Credit
      <3>2. (Grace * (l + 1)) + Credit' <= refused'
        BY <1>1, <2>1, <2>2, <3>1, Times
      <3> QED BY <1>4, <2>3, <3>2
    <2>4. CASE ~(flag >= 0)
      <3>1. (Grace * l) + Credit' <= refused'
        BY <1>1, <1>2, <1>3, <2>1, <2>2
      <3> QED BY <2>4, <3>1
    <2> QED BY <2>3, <2>4
  <1>5. ASSUME Credit' = Credit, refused' = refused, ~Report
        PROVE  \E k \in Nat :
                 /\ (Grace * k) + Credit' <= refused'
                 /\ IF Report /\ flag >= 0 THEN k = l + 1 ELSE k = l
    BY <1>5
  <1>6. ASSUME Credit' = 0, refused' = refused, ~Report
        PROVE  \E k \in Nat :
                 /\ (Grace * k) + Credit' <= refused'
                 /\ IF Report /\ flag >= 0 THEN k = l + 1 ELSE k = l
    <2>1. (Grace * l) + Credit' <= refused'
      BY <1>1, <1>2, <1>3, <1>6
    <2> QED BY <1>6, <2>1
  <1>7. CASE Tick
    <2>1. /\ UNCHANGED <<missed, flag>> /\ wait > 0 /\ wait' = wait - 1
          /\ (flag = -1 /\ refused' = refused)
               \/ (flag > 0 /\ refused' = refused + 1)
          /\ missed \/ ~missed
      BY <1>7 DEF Tick
    <2>2. (Grace * l) + Credit' <= refused'
      BY <1>1, <1>3, <2>1, Times DEF Credit
    <2>3. ~Report
      BY <2>1 DEF Report
    <2> QED BY <2>2, <2>3
  <1>8. ASSUME ~Report, Receive \/ Miss PROVE Credit' = 0 /\ refused' = refused
    BY <1>8, Times DEF Receive, Miss, Credit
  <1>9. ASSUME Fork \/ (\E p \in Proc : Hello(p) \/ Die(p))
        PROVE  Credit' = Credit /\ refused' = refused
    BY <1>9 DEF Fork, Hello, Die, Credit
  <1>10. ASSUME Reset \/ Reboot
        PROVE  Credit' = 0 /\ refused' = refused
    BY <1>10 DEF Reset, Reboot, Credit
  <1> QED
    BY <1>4, <1>5, <1>6, <1>7, <1>8, <1>9, <1>10 DEF Next

-----------------------------------------------------------------------------
(***************************************************************************)
(* For every process there is a number of reports that were lost while     *)
(* forks were refused, and its death is bounded by it.                     *)
(***************************************************************************)
Allowed(l) == DetectionBound + (Round * l) + refused

LiveInv(i) ==
  \E l \in Nat : (Grace * l) <= refused /\ gone[i] <= Allowed(l)

DeadInv(i) ==
  \E l \in Nat : (Grace * l) + Credit <= refused /\ Bounded(i, Allowed(l))

DetectInv ==
  /\ NatGone
  /\ forked => flag >= 0
  /\ Credit <= refused
  /\ \A i \in Proc : ~up[i] => hellos[i] <= Cap
  /\ \A i \in Proc : up[i] => LiveInv(i)
  /\ \A i \in Proc : ~up[i] => DeadInv(i)

LEMMA AllowedNat ==
  ASSUME NumbersOK, NEW l \in Nat
  PROVE  Allowed(l) \in Nat /\ DetectionBound <= Allowed(l)
  BY BoundIs, MoreRounds DEF Allowed, NumbersOK

NoneGone == \A i \in Proc : gone[i] = 0 => LiveInv(i)

LEMMA NothingGone == NumbersOK => NoneGone
  <1> SUFFICES ASSUME NumbersOK, NEW i \in Proc, gone[i] = 0
               PROVE  LiveInv(i)
    BY DEF NoneGone
  <1>1. Allowed(0) \in Nat /\ (Grace * 0) = 0
    BY AllowedNat, Times
  <1> QED BY <1>1 DEF LiveInv, NumbersOK

LEMMA DeadHasGone ==
  ASSUME NumbersOK, SleepInv, NatGone, NEW i \in Proc, DeadInv(i)
  PROVE  LiveInv(i)
  <1>1. PICK l \in Nat :
          (Grace * l) + Credit <= refused /\ Bounded(i, Allowed(l))
    BY DEF DeadInv
  <1>2. gone[i] <= Allowed(l)
    BY <1>1, AllowedNat, BoundedGone
  <1>3. Credit \in Nat /\ (Grace * l) \in Nat
    BY MoreMisses, Times DEF Credit, SleepInv, NumbersOK
  <1>4. (Grace * l) <= refused
    BY <1>1, <1>3 DEF NumbersOK
  <1> QED BY <1>2, <1>4 DEF LiveInv

LEMMA DetectStep ==
  ASSUME NumbersOK, NumbersOK', FlagsOK, FlagsOK', SleepInv, SleepInv',
         DetectInv, Next
  PROVE  DetectInv'
  <1> USE DEF processes, watchdog, main, history
  <1>1. refused' \in Nat /\ refused \in Nat /\ refused <= refused'
        /\ (Tick /\ flag >= 0 => refused + 1 <= refused')
    <2>1. CASE Tick
      BY <2>1 DEF Tick, NumbersOK
    <2>2. ~Tick => refused' = refused
      BY DEF Next, Hello, Die, Receive, Miss, Report, Fork, Reset, Reboot
    <2> QED BY <2>1, <2>2 DEF NumbersOK
  <1>2. NatGone'
    <2>1. gone' = gone \/ (\E p \in Proc : gone' = [gone EXCEPT ![p] = 0])
          \/ gone' = [i \in Proc |-> 0]
          \/ gone' = [i \in Proc |-> IF up[i] THEN 0 ELSE gone[i] + 1]
      BY DEF Next, Hello, Die, Receive, Miss, Report, Fork, Reset, Reboot,
             Tick
    <2> QED BY <2>1 DEF DetectInv, NatGone
  <1>3. forked' => flag' >= 0
    <2>1. CASE Report
      BY <2>1, Times DEF Report, NumbersOK, Proc
    <2>2. CASE Fork
      BY <2>2 DEF Fork, NumbersOK
    <2>3. CASE Reset \/ Reboot
      BY <2>3 DEF Reset, Reboot
    <2>4. CASE Receive \/ Miss \/ Tick \/ \E i \in Proc : Hello(i) \/ Die(i)
      <3>1. UNCHANGED <<flag, forked>>
        BY <2>4 DEF Hello, Die, Receive, Miss, Tick
      <3> QED BY <3>1 DEF DetectInv
    <2> QED BY <2>1, <2>2, <2>3, <2>4, Zenon DEF Next
  <1>4. Credit' <= refused'
    <2>1. (Grace * 0) = 0 /\ Credit \in Nat
      BY Times DEF Credit, SleepInv, NumbersOK
    <2>2. PICK k \in Nat : (Grace * k) + Credit' <= refused'
      BY <2>1, CreditStep DEF DetectInv
    <2>3. CreditOK'
      BY CreditNat, PTL
    <2>4. (Grace * k) \in Nat
      BY MoreMisses
    <2> QED BY <1>1, <2>2, <2>3, <2>4 DEF CreditOK
  <1>5. ASSUME NEW i \in Proc, ~up'[i] PROVE hellos'[i] <= Cap
    <2>1. CASE up[i]
      <3>1. Die(i)
        BY <1>5, <2>1, Zenon DEF Next, Hello, Die, Receive, Miss, Report,
               Fork, Reset, Reboot, Tick, FlagsOK
      <3> QED BY <3>1, Times DEF Die, Least, NumbersOK
    <2>2. CASE ~up[i]
      <3>1. hellos[i] <= Cap /\ hellos[i] \in Nat
        BY <2>2 DEF DetectInv, NumbersOK
      <3>2. hellos'[i] <= hellos[i]
        BY <2>2, Times DEF Next, Hello, Die, Least, Receive, Miss, Report, Fork,
               Reset, Reboot, Tick, NumbersOK
      <3> QED BY <3>1, <3>2, Times DEF NumbersOK
    <2> QED BY <2>1, <2>2
  <1>6. JustDead'
    BY JustDeadOK, PTL
  <1>7. ASSUME NEW l \in Nat
        PROVE  /\ Allowed(l) \in Nat /\ Allowed(l)' \in Nat
               /\ Allowed(l)' = Allowed(l) + (refused' - refused)
               /\ Allowed(l + 1)' = Allowed(l)' + Round
               /\ DetectionBound <= Allowed(l)'
    <2>1. (Round * l) \in Nat /\ (Round * (l + 1)) = (Round * l) + Round
      BY MoreRounds
    <2>2. Allowed(l)' = DetectionBound + (Round * l) + refused'
      BY DEF Allowed
    <2>3. Allowed(l + 1)' = DetectionBound + (Round * (l + 1)) + refused'
      BY DEF Allowed
    <2> QED BY <1>1, <2>1, <2>2, <2>3, BoundIs, RoundIs DEF Allowed
  <1>8. ASSUME NEW i \in Proc, up[i] \/ up'[i]
        PROVE  gone'[i] = 0 \/ gone'[i] = gone[i]
    BY <1>8, Zenon DEF Next, Hello, Die, Receive, Miss, Report, Fork, Reset,
                Reboot, Tick, DetectInv, NatGone, FlagsOK
  <1>9. ASSUME NEW i \in Proc, LiveInv(i), gone'[i] = 0 \/ gone'[i] = gone[i]
        PROVE  LiveInv(i)'
    <2>1. PICK l \in Nat : (Grace * l) <= refused /\ gone[i] <= Allowed(l)
      BY <1>9 DEF LiveInv
    <2>2. gone[i] \in Nat /\ (Grace * l) \in Nat
      BY MoreMisses DEF DetectInv, NatGone
    <2>3. (Grace * l) <= refused' /\ gone'[i] <= Allowed(l)'
      BY <1>1, <1>7, <1>9, <2>1, <2>2
    <2> QED BY <2>3 DEF LiveInv
  <1>10. ASSUME NEW i \in Proc, up'[i] PROVE LiveInv(i)'
    <2>1. LiveInv(i)
      BY DeadHasGone DEF DetectInv
    <2> QED BY <1>8, <1>9, <1>10, <2>1
  <1>11. ASSUME NEW i \in Proc, ~up'[i] PROVE DeadInv(i)'
    <2>1. CASE up[i]
      <3>1. gone'[i] = 0
        <4>1. Die(i)
          BY <1>11, <2>1, Zenon DEF Next, Hello, Die, Receive, Miss, Report,
                 Fork, Reset, Reboot, Tick, FlagsOK
        <4> QED BY <4>1 DEF Die, DetectInv, NatGone
      <3>2. Allowed(0)' \in Nat /\ DetectionBound <= Allowed(0)'
        BY <1>7
      <3>3. PICK c \in Nat : c = Allowed(0)'
        BY <3>2
      <3>4. Bounded(i, c)'
        BY <1>5, <1>6, <1>11, <3>1, <3>2, <3>3, BoundIs, Times DEF JustDead
      <3>5. Bounded(i, Allowed(0))'
        BY <3>3, <3>4 DEF Bounded
      <3>6. (Grace * 0) + Credit' <= refused'
        <4>1. CreditOK'
          BY CreditNat, PTL
        <4> QED BY <1>4, <4>1, Times DEF CreditOK
      <3> QED BY <3>5, <3>6 DEF DeadInv
    <2>2. CASE ~up[i]
      <3>1. PICK l \in Nat :
              (Grace * l) + Credit <= refused /\ Bounded(i, Allowed(l))
        BY <2>2 DEF DetectInv, DeadInv
      <3>2. PICK k \in Nat :
              /\ (Grace * k) + Credit' <= refused'
              /\ IF Report /\ flag >= 0 THEN k = l + 1 ELSE k = l
        BY <3>1, CreditStep
      <3>3. PICK b \in Nat : b = Allowed(l)
        BY <1>7
      <3>4. PICK c \in Nat : c = Allowed(k)'
        BY <1>7
      <3>5. /\ b <= c
            /\ (Tick /\ flag >= 0) => b + 1 <= c
            /\ (Report /\ flag >= 0) => b + Round <= c
        <4>1. Allowed(l)' = b + (refused' - refused)
          BY <1>7, <3>3
        <4>2. CASE Report /\ flag >= 0
          <5>1. c = Allowed(l)' + Round
            BY <1>7, <3>2, <3>4, <4>2
          <5>2. ~Tick
            BY <4>2 DEF Report, Tick
          <5> QED BY <1>1, <4>1, <4>2, <5>1, <5>2, RoundIs
        <4>3. CASE ~(Report /\ flag >= 0)
          <5>1. c = b + (refused' - refused)
            BY <3>2, <3>4, <4>1, <4>3
          <5>2. b <= c
            BY <1>1, <3>3, <5>1
          <5>3. (Tick /\ flag >= 0) => b + 1 <= c
            BY <1>1, <3>3, <5>1
          <5> QED BY <4>3, <5>2, <5>3
        <4> QED BY <4>2, <4>3
      <3>6. Bounded(i, b)
        BY <3>1, <3>3
      <3>7. Bounded(i, c)'
        BY <1>11, <2>2, <3>5, <3>6, BoundedStep DEF DetectInv
      <3>8. Bounded(i, Allowed(k))'
        BY <3>4, <3>7 DEF Bounded
      <3> QED BY <3>2, <3>8 DEF DeadInv
    <2> QED BY <2>1, <2>2
  <1> QED BY <1>2, <1>3, <1>4, <1>5, <1>10, <1>11 DEF DetectInv

LEMMA Detected == NumbersOK /\ SleepInv /\ DetectInv => DetectedInTime
  <1> SUFFICES ASSUME NumbersOK, SleepInv, DetectInv, NEW i \in Proc
               PROVE  gone[i] <= DetectionBound
                        + (Round * (refused \div Grace)) + refused
    BY DEF DetectedInTime
  <1> DEFINE q == refused \div Grace
  <1>1. LiveInv(i)
    BY DeadHasGone DEF DetectInv
  <1>2. PICK l \in Nat : (Grace * l) <= refused /\ gone[i] <= Allowed(l)
    BY <1>1 DEF LiveInv
  <1>3. refused \in Nat /\ gone[i] \in Nat
    BY DEF NumbersOK, DetectInv, NatGone
  <1>4. l <= q /\ q \in Nat
    BY <1>2, <1>3, Times
  <1> HIDE DEF q
  <1>5. (Round * l) <= (Round * q) /\ (Round * l) \in Nat
        /\ (Round * q) \in Nat
    BY <1>2, <1>4, RoundIs
  <1> QED BY <1>2, <1>3, <1>5, BoundIs DEF Allowed, q

(***************************************************************************)
(* All are alive, and the watchdog thread is at the start of its round.    *)
(***************************************************************************)
AllUp == up = [i \in Proc |-> TRUE] /\ gone = [i \in Proc |-> 0]

LEMMA RestDetects == NumbersOK /\ Rest /\ AllUp => DetectInv
  <1> SUFFICES ASSUME NumbersOK, Rest, AllUp PROVE DetectInv
    OBVIOUS
  <1>1. NatGone /\ \A i \in Proc : gone[i] = 0
    BY DEF AllUp, NatGone
  <1>2. \A i \in Proc : up[i]
    BY Zenon DEF AllUp
  <1>3. Credit <= refused /\ ~forked
    BY DEF Rest, Credit, NumbersOK
  <1>4. \A i \in Proc : LiveInv(i)
    BY <1>1, NothingGone DEF NoneGone
  <1> QED BY <1>1, <1>2, <1>3, <1>4 DEF DetectInv

(***************************************************************************)
(* Supervision alone: a death is noticed in bounded time.                  *)
(***************************************************************************)
THEOREM SilenceFound == Spec => []DetectedInTime
  <1> DEFINE I == Inv /\ SleepInv /\ DetectInv
  <1>1. Init => I
    <2> SUFFICES ASSUME Init PROVE I
      OBVIOUS
    <2>1. Rest /\ hellos \in [Proc -> Nat] /\ refused \in Nat
      BY DEF Init, Rest
    <2>2. up \in [Proc -> BOOLEAN]
      BY Zenon DEF Init
    <2>3. Inv
      BY <2>1, <2>2, CalmIsSafe DEF Calm
    <2>4. AllUp /\ misses = 0
      BY DEF Init, AllUp
    <2>5. SleepInv
      BY <2>1, <2>4, Times DEF SleepInv, Rest
    <2> QED BY <2>1, <2>3, <2>4, <2>5, RestDetects DEF Inv
  <1>2. I /\ [Next]_vars => I'
    <2>1. ASSUME I, Next PROVE I'
      <3>1. Inv' /\ SleepInv'
        BY <2>1, InvStep, SleepStep DEF Inv
      <3> QED BY <2>1, <3>1, DetectStep DEF Inv
    <2>2. ASSUME I, UNCHANGED vars PROVE I'
      <3>1. Inv' /\ SleepInv'
        BY <2>2, InvStep, SleepStep DEF Inv
      <3>2. DetectInv'
        BY <2>2 DEF vars, processes, watchdog, main, history, DetectInv,
           NatGone, Credit, LiveInv, DeadInv, Allowed, Bounded, Marked, AtIt,
           Deadline, Away, Hidden, Sleeps, Looks, UntilLook, Passed
      <3> QED BY <3>1, <3>2
    <2> QED BY <2>1, <2>2
  <1>3. I => DetectedInTime
    BY Detected DEF Inv
  <1> QED BY <1>1, <1>2, <1>3, PTL DEF Spec

-----------------------------------------------------------------------------
(***************************************************************************)
(* The start: all are alive until main watches.  Then those that exited    *)
(* while starting are dead, and the hellos that were left hide it for as   *)
(* many rounds.                                                            *)
(***************************************************************************)
Hiding(i) == Round * (1 + Left(i))

EarlyInv == refused = 0 => \A i \in early : ~up[i] /\ Bounded(i, Hiding(i))

NoticeInv ==
  /\ DetectInv
  /\ \A i \in Proc : kept[i] <= Cap
  /\ mpc # "run" => AllUp /\ early = {}
  /\ early \subseteq Proc
  /\ EarlyInv

LEMMA HidingNat == StartInv => \A i \in Proc : Hiding(i) \in Nat
  <1> SUFFICES ASSUME StartInv, NEW i \in Proc PROVE Hiding(i) \in Nat
    OBVIOUS
  <1>1. Left(i) \in Nat
    BY DEF StartInv, Left
  <1> QED BY <1>1, RoundIs DEF Hiding

(***************************************************************************)
(* Steps before main watches.                                              *)
(***************************************************************************)
NoticeRest ==
  Rest /\ AllUp /\ early = {} /\ \A i \in Proc : kept[i] <= Cap

LEMMA RestNotices == StartInv /\ NoticeRest => NoticeInv
  BY RestDetects DEF StartInv, Inv, NoticeRest, NoticeInv, EarlyInv

LEMMA NoticeStart ==
  ASSUME StartInv, StartInv', NoticeInv, mpc # "run", mpc' # "run",
         UNCHANGED <<up, gone, early>>,
         kept' = kept \/ kept' = [i \in Proc |-> 0]
  PROVE  NoticeInv'
  <1>1. AllUp' /\ early' = {}
    BY DEF NoticeInv, AllUp
  <1>2. Rest'
    BY DEF StartInv
  <1>3. \A i \in Proc : kept'[i] <= Cap
    BY Times DEF NoticeInv
  <1>4. NoticeRest'
    BY <1>1, <1>2, <1>3 DEF NoticeRest
  <1> QED BY <1>4, RestNotices, PTL

LEMMA NoticeAside ==
  NoticeInv /\ UNCHANGED <<up, hellos, look, missed, wait, flag, forked,
                           refused, gone, kept, mpc, field, early>>
    => NoticeInv'
  <1> SUFFICES ASSUME NoticeInv,
                      UNCHANGED <<up, hellos, look, missed, wait, flag,
                           forked, refused, gone, kept, mpc, field, early>>
               PROVE  NoticeInv'
    OBVIOUS
  <1>1. DetectInv'
    BY DEF NoticeInv, DetectInv, NatGone, Credit, LiveInv, DeadInv, Allowed,
           Bounded, Marked, AtIt, Deadline, Away, Hidden, Sleeps, Looks,
           UntilLook, Passed
  <1>2. EarlyInv'
    BY DEF NoticeInv, EarlyInv, Hiding, Left, Bounded, Marked, AtIt,
           Deadline, Away, Hidden, Sleeps, Looks, UntilLook, Passed
  <1>3. (mpc' # "run" => AllUp' /\ early' = {}) /\ early' \subseteq Proc
        /\ \A i \in Proc : kept'[i] <= Cap
    BY DEF NoticeInv, AllUp
  <1> QED BY <1>1, <1>2, <1>3 DEF NoticeInv

(***************************************************************************)
(* main begins to watch.                                                   *)
(***************************************************************************)
LEMMA NoticeWatch ==
  ASSUME StartInv, StartInv', LateInv, LateInv', NoticeInv, Watch,
         field' = field
  PROVE  NoticeInv'
  <1> USE DEF watchdog, main, history
  <1>1. /\ mpc = "clients" /\ mpc' = "run"
        /\ UNCHANGED <<hellos, look, missed, wait, flag, forked, refused,
                       gone, kept>>
        /\ early' = {i \in Client : cpc[i] = "gone"}
        /\ up' = [i \in Proc |->
                    IF i = 0 THEN gstep = Serving ELSE cpc[i] = "run"]
    BY DEF Watch, Arrived
  <1>2. /\ ~missed' /\ wait' = Period /\ look' = 0 /\ flag' = -1
        /\ ~forked' /\ gone' = [i \in Proc |-> 0]
    BY <1>1 DEF StartInv, Rest, NoticeInv, AllUp
  <1>3. NatGone' /\ \A i \in Proc : gone'[i] = 0
    BY <1>2 DEF NatGone
  <1>4. NumbersOK' /\ SleepInv'
    BY DEF StartInv, Inv, LateInv
  <1>5. ASSUME NEW i \in Proc
        PROVE  /\ hellos'[i] <= Left(i) /\ Left(i) <= Cap
               /\ hellos'[i] \in Nat /\ Left(i) \in Nat /\ Left(i)' = Left(i)
    BY <1>1, Times DEF LateInv, Fresh, Left, NoticeInv, StartInv, Inv,
                      NumbersOK
  <1>6. Credit' = 0 /\ refused' \in Nat
    BY <1>2, <1>4 DEF Credit, NumbersOK
  <1>7. ASSUME NEW i \in Proc PROVE LiveInv(i)'
    <2>1. NoneGone'
      BY <1>4, NothingGone, PTL
    <2> QED BY <1>3, <2>1 DEF NoneGone
  <1>8. JustDead'
    BY <1>4, JustDeadOK, PTL
  <1>9. ASSUME NEW i \in Proc PROVE DeadInv(i)'
    <2>1. NumbersOK /\ Allowed(0)' \in Nat /\ DetectionBound <= Allowed(0)'
      BY <1>6, BoundIs, MoreRounds DEF Allowed, StartInv, Inv
    <2>2. PICK c \in Nat : c = Allowed(0)'
      BY <2>1
    <2>3. Bounded(i, c)'
      BY <1>3, <1>5, <1>8, <2>1, <2>2, BoundIs, Times DEF JustDead
    <2>4. Bounded(i, Allowed(0))'
      BY <2>2, <2>3 DEF Bounded
    <2>5. (Grace * 0) + Credit' <= refused'
      BY <1>6, Times
    <2> QED BY <2>4, <2>5 DEF DeadInv
  <1>10. DetectInv'
    <2>1. \A i \in Proc : hellos'[i] <= Cap
      BY <1>5, Times
    <2>2. Credit' <= refused' /\ ~forked'
      BY <1>2, <1>6
    <2> QED BY <1>3, <1>7, <1>9, <2>1, <2>2 DEF DetectInv
  <1>11. ASSUME NEW i \in early' PROVE ~up'[i] /\ Bounded(i, Hiding(i))'
    <2>1. i \in Proc /\ i # 0 /\ cpc[i] = "gone"
      BY <1>1, Times DEF Client, Proc
    <2>2. ~up'[i]
      BY <1>1, <2>1
    <2>3. PICK c \in Nat : c = Hiding(i)'
      BY <1>5, <2>1, RoundIs DEF Hiding
    <2>4. (Round * Left(i)) + Round <= c
      BY <1>5, <2>1, <2>3, RoundIs DEF Hiding
    <2>5. Bounded(i, c)'
      BY <1>3, <1>5, <1>8, <2>1, <2>3, <2>4 DEF JustDead
    <2> QED BY <2>2, <2>3, <2>5 DEF Bounded
  <1>12. early' \subseteq Proc
    BY <1>1, Times DEF Client, Proc
  <1> QED BY <1>1, <1>10, <1>11, <1>12 DEF NoticeInv, EarlyInv

(***************************************************************************)
(* Supervision.                                                            *)
(***************************************************************************)
LEMMA NoticeRun ==
  ASSUME StartInv, StartInv', LateInv, LateInv', NoticeInv, mpc' = "run",
         kept' = kept, field' = field,
         (Watching /\ early' = early) \/ (Fork /\ early' = early \ {flag})
  PROVE  NoticeInv'
  <1>1. /\ NumbersOK /\ NumbersOK' /\ FlagsOK /\ FlagsOK'
        /\ SleepInv /\ SleepInv' /\ DetectInv /\ Next
    BY DEF StartInv, Inv, LateInv, NoticeInv, Watching, Next
  <1>2. DetectInv'
    BY <1>1, DetectStep
  <1>3. ASSUME refused' = 0, NEW i \in early'
        PROVE  ~up'[i] /\ Bounded(i, Hiding(i))'
    <2>1. i \in Proc /\ i \in early
      BY DEF NoticeInv
    <2>2. refused = 0 /\ ~(Tick /\ flag >= 0)
      BY <1>1, <1>3
         DEF Next, Hello, Die, Receive, Miss, Report, Fork, Reset, Reboot,
             Tick, processes, watchdog, main, history, NumbersOK
    <2>3. ~(Report /\ flag >= 0)
      BY <1>1, <2>2, Times DEF Report, NoticeInv, DetectInv, Credit
    <2>4. ~up[i] /\ Bounded(i, Hiding(i))
      BY <2>1, <2>2 DEF NoticeInv, EarlyInv
    <2>5. ~up'[i]
      <3>1. CASE Watching
        BY <1>1, <2>1, <2>4, <3>1, Zenon
           DEF Watching, Receive, Miss, Report, Reset, Tick, Hello, Die,
               FlagsOK, processes, watchdog, main, history
      <3>2. CASE Fork /\ early' = early \ {flag}
        <4>1. i # flag
          BY <1>3, <3>2
        <4> QED BY <1>1, <2>1, <2>4, <3>2, <4>1, Zenon DEF Fork, FlagsOK
      <3> QED BY <3>1, <3>2
    <2>6. Hiding(i)' = Hiding(i)
      BY DEF Hiding, Left
    <2>7. PICK c \in Nat : c = Hiding(i)
      BY <2>1, HidingNat
    <2>8. Bounded(i, c)'
      BY <1>1, <2>1, <2>2, <2>3, <2>4, <2>5, <2>7, BoundedStep DEF DetectInv
    <2> QED BY <2>5, <2>6, <2>7, <2>8 DEF Bounded
  <1> QED BY <1>2, <1>3 DEF NoticeInv, EarlyInv

(***************************************************************************)
(* A client that was started again has exited at once.                     *)
(***************************************************************************)
LEMMA NoticeInVain ==
  ASSUME StartInv, StartInv', LateInv, LateInv', NoticeInv, ForkInVain,
         field' = field
  PROVE  NoticeInv'
  <1> USE DEF processes, watchdog
  <1>1. /\ UNCHANGED <<up, hellos, look, missed, wait, flag, refused, kept,
                       mpc>>
        /\ flag > 0 /\ flag \in Proc /\ ~forked /\ forked' = TRUE
        /\ gone' = [gone EXCEPT ![flag] = 0]
        /\ early' = early \ {flag} /\ mpc = "run"
    BY Times DEF ForkInVain, StartInv, Inv, NumbersOK, Proc
  <1>2. NumbersOK' /\ SleepInv' /\ NumbersOK
    BY DEF StartInv, Inv, LateInv
  <1>3. NatGone' /\ gone'[flag] = 0
        /\ \A i \in Proc : i # flag => gone'[i] = gone[i]
    BY <1>1 DEF NoticeInv, DetectInv, NatGone
  <1>4. Credit' = Credit /\ \A l : Allowed(l)' = Allowed(l)
    BY <1>1 DEF Credit, Allowed
  <1>5. ASSUME NEW i \in Proc, NEW b, i # flag, Bounded(i, b)
        PROVE  Bounded(i, b)'
    <2>1. ~Marked(i) /\ ~Marked(i)' /\ UNCHANGED <<AtIt(i), wait>>
          /\ gone'[i] = gone[i]
      BY <1>1, <1>3, <1>5 DEF Marked, AtIt
    <2>2. Deadline(i)' = Deadline(i)
      BY <1>1 DEF Deadline, Hidden, Away, Sleeps, Looks, UntilLook, Passed
    <2> QED BY <1>5, <2>1, <2>2 DEF Bounded
  <1>6. JustDead'
    BY <1>2, JustDeadOK, PTL
  <1>7. ASSUME NEW i \in Proc, up[i] PROVE LiveInv(i)'
    <2>1. PICK l \in Nat : (Grace * l) <= refused /\ gone[i] <= Allowed(l)
      BY <1>7 DEF NoticeInv, DetectInv, LiveInv
    <2>2. gone'[i] <= Allowed(l)'
      BY <1>3, <1>4, <2>1, <1>2, AllowedNat DEF NoticeInv, DetectInv, NatGone
    <2> QED BY <1>1, <2>1, <2>2 DEF LiveInv
  <1>8. ASSUME NEW i \in Proc, ~up[i] PROVE DeadInv(i)'
    <2>1. CASE i = flag
      <3>1. Allowed(0) \in Nat /\ DetectionBound <= Allowed(0)
        BY <1>2, AllowedNat
      <3>2. PICK c \in Nat : c = Allowed(0)
        BY <3>1
      <3>3. hellos[i] <= Cap
        BY <1>8 DEF NoticeInv, DetectInv
      <3>4. Bounded(i, c)'
        BY <1>1, <1>3, <1>6, <2>1, <3>1, <3>2, <3>3, BoundIs, Times
           DEF JustDead
      <3>5. Bounded(i, Allowed(0))'
        BY <1>4, <3>2, <3>4 DEF Bounded
      <3>6. (Grace * 0) + Credit' <= refused'
        BY <1>1, <1>2, <1>4, CreditNat, Times
           DEF CreditOK, NoticeInv, DetectInv, LateInv
      <3> QED BY <3>5, <3>6 DEF DeadInv
    <2>2. CASE i # flag
      <3>1. PICK l \in Nat :
              (Grace * l) + Credit <= refused /\ Bounded(i, Allowed(l))
        BY <1>8 DEF NoticeInv, DetectInv, DeadInv
      <3>2. PICK c \in Nat : c = Allowed(l)
        BY <1>2, AllowedNat
      <3>3. Bounded(i, c)'
        BY <1>5, <2>2, <3>1, <3>2
      <3>4. Bounded(i, Allowed(l))'
        BY <1>4, <3>2, <3>3 DEF Bounded
      <3> QED BY <1>1, <1>4, <3>1, <3>4 DEF DeadInv
    <2> QED BY <2>1, <2>2
  <1>9. DetectInv'
    <2>1. forked' => flag' >= 0
      BY <1>1 DEF Proc
    <2> QED BY <1>1, <1>3, <1>4, <1>7, <1>8, <2>1 DEF NoticeInv, DetectInv
  <1>10. EarlyInv'
    <2> SUFFICES ASSUME refused' = 0, NEW i \in early'
                 PROVE  ~up'[i] /\ Bounded(i, Hiding(i))'
      BY DEF EarlyInv
    <2>1. i \in Proc /\ i \in early /\ i # flag
      BY <1>1 DEF NoticeInv
    <2>2. ~up[i] /\ Bounded(i, Hiding(i))
      BY <1>1, <2>1 DEF NoticeInv, EarlyInv
    <2>3. Hiding(i)' = Hiding(i)
      BY <1>1 DEF Hiding, Left
    <2>4. PICK c \in Nat : c = Hiding(i)
      BY <2>1, HidingNat
    <2>5. Bounded(i, c)'
      BY <1>5, <2>1, <2>2, <2>4
    <2> QED BY <1>1, <2>2, <2>3, <2>4, <2>5 DEF Bounded
  <1> QED BY <1>1, <1>9, <1>10 DEF NoticeInv

LEMMA NoticeStep ==
  ASSUME StartInv, StartInv', LateInv, LateInv', NoticeInv, AnyStart
  PROVE  NoticeInv'
  <1> USE DEF vars, processes, watchdog, main, history, start
  <1>1. field' = field
    BY DEF AnyStart
  <1>2. CASE RemoveWatchdog \/ OpenWatchdog \/ ForkGather \/ MainExits
    <2>1. mpc # "run" /\ mpc' # "run" /\ UNCHANGED <<up, gone, early>>
      BY <1>2 DEF RemoveWatchdog, OpenWatchdog, ForkGather, MainExits
    <2>2. kept' = kept \/ kept' = [i \in Proc |-> 0]
      BY <1>2 DEF RemoveWatchdog, OpenWatchdog, ForkGather, MainExits
    <2> QED BY <2>1, <2>2, NoticeStart
  <1>3. CASE GatherStep \/ create_v43 \/ GatherExits \/ EarlySignal
    BY <1>1, <1>3, NoticeAside
       DEF GatherStep, create_v43, GatherExits, EarlySignal
  <1>4. ASSUME NEW i \in Client,
               \/ ForkClient(i) \/ client_v43(i)
               \/ OpenData(i) \/ OpenBack(i) \/ ClientExits(i)
        PROVE  NoticeInv'
    BY <1>1, <1>4, NoticeAside
       DEF ForkClient, client_v43, OpenData, OpenBack, ClientExits
  <1>5. CASE Watch
    BY <1>1, <1>5, NoticeWatch
  <1>6. ASSUME Watching, UNCHANGED start, mpc = "run" PROVE NoticeInv'
    BY <1>1, <1>6, NoticeRun
  <1>7. CASE StartAgain
    BY <1>1, <1>7, NoticeRun DEF StartAgain
  <1>8. CASE ForkInVain
    BY <1>1, <1>8, NoticeInVain
  <1>9. CASE RebootAll
    <2>1. /\ mpc' # "run" /\ early' = {}
          /\ up' = [i \in Proc |-> TRUE] /\ gone' = [i \in Proc |-> 0]
          /\ kept' = [i \in Proc |-> 0]
      BY <1>9 DEF RebootAll, Reboot, Begin
    <2>2. Rest'
      BY <2>1 DEF StartInv
    <2>3. NoticeRest'
      BY <2>1, <2>2, Times DEF NoticeRest, AllUp
    <2> QED BY <2>3, RestNotices, PTL
  <1>10. ASSUME NEW i \in Proc, hello_v43(i) PROVE NoticeInv'
    BY <1>6, <1>10, Zenon DEF hello_v43, Watching
  <1>11. CASE Supervise \/ watchdog_v43
    BY <1>6, <1>11, Zenon DEF Supervise, watchdog_v43, Watching
  <1>12. CASE mpc = "run" /\ (Reset \/ Tick \/ \E i \in Proc : Die(i))
              /\ UNCHANGED start
    BY <1>6, <1>12, Zenon DEF Watching
  <1>13. CASE ~field /\ StartStep
    BY <1>2, <1>3, <1>4, <1>5, <1>7, <1>8, <1>9, <1>11, <1>13, Zenon
       DEF StartStep
  <1>14. CASE field /\ FieldStep
    BY <1>2, <1>3, <1>4, <1>5, <1>7, <1>8, <1>9, <1>10, <1>11, <1>12,
       <1>14, Zenon
       DEF FieldStep, open_v43, gather_v43, queues_v43, main_v43
  <1> QED BY <1>13, <1>14 DEF AnyStart

-----------------------------------------------------------------------------
WatchInv == StartInv /\ LateInv /\ NoticeInv

LEMMA WatchInit == ASSUME NEW f, StartInitOf(f) PROVE WatchInv
  <1>1. StartInv
    BY StartInvInit
  <1>2. Rest /\ AllUp /\ misses = 0 /\ mpc # "run" /\ early = {}
    BY DEF StartInitOf, Init, Rest, AllUp, Begin
  <1>3. \A i \in Proc : hellos[i] <= Left(i) /\ kept[i] <= Cap
    BY <1>1, Times DEF StartInitOf, Init, Left, StartInv
  <1>4. (mpc = "open" /\ ~field) => kept = [i \in Proc |-> 0]
    BY DEF StartInitOf, Begin
  <1>5. LateInv
    BY <1>1, <1>2, <1>3, <1>4, FreshIsLate DEF LateInv, Fresh
  <1>6. NoticeInv
    BY <1>1, <1>2, <1>3, RestNotices DEF NoticeRest
  <1> QED BY <1>1, <1>5, <1>6 DEF WatchInv

LEMMA WatchStep == WatchInv /\ [AnyStart]_svars => WatchInv'
  <1>1. ASSUME WatchInv, AnyStart PROVE WatchInv'
    <2>1. StartInv'
      BY <1>1, StartStepKeeps DEF WatchInv, AnyStart
    <2>2. LateInv'
      BY <1>1, <2>1, LateStep DEF WatchInv
    <2>3. NoticeInv'
      BY <1>1, <2>1, <2>2, NoticeStep DEF WatchInv
    <2> QED BY <2>1, <2>2, <2>3 DEF WatchInv
  <1>2. ASSUME WatchInv, UNCHANGED svars PROVE WatchInv'
    <2> USE DEF svars, start, vars, processes, watchdog, main, history
    <2>1. StartInv'
      BY <1>2, AsideStep DEF WatchInv, Aside
    <2>2. LateInv'
      BY <1>2, LateAside DEF WatchInv
    <2>3. NoticeInv'
      BY <1>2, NoticeAside DEF WatchInv
    <2> QED BY <2>1, <2>2, <2>3 DEF WatchInv
  <1> QED BY <1>1, <1>2

LEMMA WatchNotices == WatchInv => DeathNoticed /\ EarlyExitSeen
  <1> SUFFICES ASSUME WatchInv PROVE DeathNoticed /\ EarlyExitSeen
    OBVIOUS
  <1>1. DetectedInTime
    BY Detected DEF WatchInv, StartInv, Inv, LateInv, NoticeInv
  <1>2. BacklogHasCause
    BY LateCaused DEF WatchInv
  <1>3. ASSUME refused = 0, NEW i \in early
        PROVE  gone[i] <= Round * (1 + Left(i))
    <2>1. i \in Proc /\ Bounded(i, Hiding(i))
      BY <1>3 DEF WatchInv, NoticeInv, EarlyInv
    <2>2. Hiding(i) \in Nat
      BY <2>1, HidingNat DEF WatchInv
    <2>3. gone[i] <= Hiding(i)
      BY <2>1, <2>2, BoundedGone
         DEF WatchInv, StartInv, Inv, NoticeInv, DetectInv
    <2> QED BY <2>3 DEF Hiding
  <1> QED BY <1>1, <1>2, <1>3 DEF DeathNoticed, EarlyExitSeen

(***************************************************************************)
(* From the first step of the program: a death is noticed in bounded time, *)
(* whatever a former run left, however many die and however long forks are *)
(* refused; and what hides a death has a cause.                            *)
(***************************************************************************)
THEOREM NoticedFromStart == StartSpec => []DeathNoticed
  <1>1. StartInit => WatchInv
    BY WatchInit DEF StartInit
  <1>2. [StartNext]_svars => [AnyStart]_svars
    BY Zenon DEF StartNext, AnyStart
  <1>3. WatchInv => DeathNoticed
    BY WatchNotices
  <1> QED BY <1>1, <1>2, <1>3, WatchStep, PTL DEF StartSpec

(***************************************************************************)
(* The same in the field, where hellos of a former run stay in the queues. *)
(***************************************************************************)
THEOREM NoticedInField == FieldStartSpec => []DeathNoticed
  <1>1. FieldStartInit => WatchInv
    BY WatchInit DEF FieldStartInit
  <1>2. [FieldStartNext]_svars => [AnyStart]_svars
    BY Zenon DEF FieldStartNext, AnyStart
  <1>3. WatchInv => DeathNoticed
    BY WatchNotices
  <1> QED BY <1>1, <1>2, <1>3, WatchStep, PTL DEF FieldStartSpec

(***************************************************************************)
(* A client that exited while starting is missed within a round for each   *)
(* hello left for it and one more; without any left, at the first look.    *)
(***************************************************************************)
THEOREM EarlySeenFromStart == StartSpec => []EarlyExitSeen
  <1>1. StartInit => WatchInv
    BY WatchInit DEF StartInit
  <1>2. [StartNext]_svars => [AnyStart]_svars
    BY Zenon DEF StartNext, AnyStart
  <1>3. WatchInv => EarlyExitSeen
    BY WatchNotices
  <1> QED BY <1>1, <1>2, <1>3, WatchStep, PTL DEF StartSpec

(***************************************************************************)
(* The same in the field.                                                  *)
(***************************************************************************)
THEOREM EarlySeenInField == FieldStartSpec => []EarlyExitSeen
  <1>1. FieldStartInit => WatchInv
    BY WatchInit DEF FieldStartInit
  <1>2. [FieldStartNext]_svars => [AnyStart]_svars
    BY Zenon DEF FieldStartNext, AnyStart
  <1>3. WatchInv => EarlyExitSeen
    BY WatchNotices
  <1> QED BY <1>1, <1>2, <1>3, WatchStep, PTL DEF FieldStartSpec
=============================================================================

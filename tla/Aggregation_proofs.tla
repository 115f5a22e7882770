------------------------- MODULE Aggregation_proofs -------------------------
(***************************************************************************)
(* Proofs about Aggregation and FieldAggregation, for any times that       *)
(* satisfy their assumptions and any bounds; at the end, proofs about      *)
(* Settings, for any tables and any number of devices and lines.           *)
(***************************************************************************)
EXTENDS FieldAggregation, Settings, FiniteSetTheorems, TLAPS

(***************************************************************************)
(* Multiples of an interval.                                               *)
(***************************************************************************)
LEMMA MultipleMod ==
  ASSUME NEW q \in Int, NEW n \in Nat \ {0}
  PROVE  (q * n) % n = 0
  BY SMT

LEMMA DivMod ==
  ASSUME NEW n \in Nat \ {0}, NEW a \in Nat
  PROVE  /\ a \div n \in Nat
         /\ (a \div n) * n \in Nat
         /\ (a \div n) * n <= a
         /\ a < (a \div n) * n + n
         /\ a % n = 0 => a = (a \div n) * n
  BY SMT

LEMMA Product ==
  ASSUME NEW p \in Nat, NEW q \in Nat, NEW n \in Nat \ {0}, p < q
  PROVE  p * n + n <= q * n
  BY SMT

LEMMA NextMultiple ==
  ASSUME NEW n \in Nat \ {0}, NEW a \in Nat, NEW b \in Nat,
         a % n = 0, b % n = 0, a < b
  PROVE  a + n <= b
  <1> DEFINE p == a \div n
             q == b \div n
  <1>1. p \in Nat /\ q \in Nat /\ a = p * n /\ b = q * n
    BY DivMod
  <1> HIDE DEF p, q
  <1>2. CASE p < q
    BY <1>1, <1>2, Product
  <1>3. CASE q <= p
    <2>1. q * n <= p * n
      BY <1>1, <1>3
    <2> QED BY <1>1, <2>1
  <1> QED BY <1>1, <1>2, <1>3

LEMMA MultipleOfMultiple ==
  ASSUME NEW n \in Nat \ {0}, NEW m \in Nat \ {0}, NEW a \in Nat,
         a % n = 0, n % m = 0
  PROVE  a % m = 0
  <1> DEFINE p == a \div n
             q == n \div m
  <1>1. p \in Nat /\ q \in Nat /\ a = p * n /\ n = q * m
    BY DivMod
  <1> HIDE DEF p, q
  <1>2. a = (p * q) * m /\ p * q \in Int
    BY <1>1
  <1> QED BY <1>2, MultipleMod

LEMMA MultipleSum ==
  ASSUME NEW n \in Nat \ {0}, NEW a \in Nat, a % n = 0
  PROVE  (a + n) % n = 0
  <1> DEFINE p == a \div n
  <1>1. p \in Nat /\ a = p * n
    BY DivMod
  <1> HIDE DEF p
  <1>2. a + n = (p + 1) * n /\ p + 1 \in Int
    BY <1>1
  <1> QED BY <1>2, MultipleMod

LEMMA CutTo ==
  ASSUME NEW n \in Nat \ {0}, NEW a \in Nat, NEW b \in Nat, a % n = 0,
         a <= b, b < a + n
  PROVE  (b \div n) * n = a
  <1> DEFINE c == (b \div n) * n
  <1>1. c \in Nat /\ c <= b /\ b < c + n /\ c % n = 0
    BY DivMod, MultipleMod
  <1> HIDE DEF c
  <1>2. ~(c < a)
    <2> SUFFICES ASSUME c < a PROVE FALSE
      OBVIOUS
    <2>1. c + n <= a
      BY <1>1, NextMultiple
    <2> QED BY <1>1, <2>1
  <1>3. ~(a < c)
    <2> SUFFICES ASSUME a < c PROVE FALSE
      OBVIOUS
    <2>1. a + n <= c
      BY <1>1, NextMultiple
    <2> QED BY <1>1, <2>1
  <1>4. c = a
    BY <1>1, <1>2, <1>3
  <1> QED BY <1>4 DEF c

LEMMA Repeats ==
  ASSUME NEW n \in Nat \ {0}, NEW z \in Nat, NEW m \in Nat, m * n <= z + n - 1
  PROVE  m <= (z + n - 1) \div n
  BY SMT

-----------------------------------------------------------------------------
(***************************************************************************)
(* What the assumptions say of one level: its thread is done before the    *)
(* timer below expires again.                                              *)
(***************************************************************************)
LEMMA Speeds ==
  /\ {ERROR_TIMES, Slow, Late, First, MaxClock, MaxBoot, MaxFail} \subseteq Nat
  /\ First <= MaxClock /\ Interval[0] \in Nat \ {0}
  /\ \A l \in Level :
       /\ l - 1 \in Table
       /\ Interval[l] \in Nat \ {0} /\ Interval[l - 1] \in Nat \ {0}
       /\ Sleep[l] \in Nat \ {0} /\ Unit[l] \in Nat \ {0}
       /\ Sleep[l] + Late < Interval[l - 1] /\ Interval[l - 1] <= Interval[l]
       /\ Interval[l] % Interval[l - 1] = 0 /\ Interval[l] % Unit[l] = 0
       /\ Sleep[l] < Unit[l]
       /\ l # 1 => l - 1 \in Level /\ Sleep[l - 1] + Late < Sleep[l]
  <1>1. /\ {ERROR_TIMES, Slow, Late, First, MaxClock, MaxBoot, MaxFail}
              \subseteq Nat
        /\ First <= MaxClock /\ 0 < Sleep[1]
    BY SpeedAssumption
  <1>2. \A k \in 0 .. 3 : Interval[k] \in Nat \ {0}
    BY TimesAssumption
  <1>3. ASSUME NEW l \in Level
        PROVE  /\ l - 1 \in Table /\ Sleep[l] \in Nat /\ Unit[l] \in Nat \ {0}
               /\ Interval[l] \in Nat \ {0} /\ Interval[l - 1] \in Nat \ {0}
               /\ Interval[l] % Interval[l - 1] = 0 /\ Interval[l] % Unit[l] = 0
               /\ Sleep[l] < Unit[l]
    BY <1>2, TimesAssumption DEF Level, Table
  <1>4. ASSUME NEW l \in Level PROVE Interval[l - 1] <= Interval[l]
    <2>1. 0 % Interval[l - 1] = 0
      BY <1>3
    <2>2. 0 + Interval[l - 1] <= Interval[l]
      BY <1>3, <2>1, NextMultiple
    <2> QED BY <1>3, <2>2
  <1>5. /\ Interval[1] <= Interval[2] /\ Interval[1] \in Nat
        /\ Interval[2] \in Nat /\ Interval[0] \in Nat
    BY <1>2, <1>4 DEF Level
  <1>6. /\ Sleep[1] \in Nat /\ Sleep[2] \in Nat /\ Sleep[3] \in Nat
        /\ Sleep[1] + Late < Interval[0] /\ Sleep[3] + Late < Interval[1]
        /\ Sleep[1] + Late < Sleep[2] /\ Sleep[2] + Late < Sleep[3]
    BY <1>3, SpeedAssumption DEF Level
  <1>7. ASSUME NEW l \in Level
        PROVE  /\ Sleep[l] # 0 /\ Sleep[l] + Late < Interval[l - 1]
               /\ l # 1 => l - 1 \in Level /\ Sleep[l - 1] + Late < Sleep[l]
    <2>1. CASE l = 1
      BY <1>1, <1>6, <2>1
    <2>2. CASE l = 2
      BY <1>1, <1>5, <1>6, <2>2 DEF Level
    <2>3. CASE l = 3
      BY <1>1, <1>5, <1>6, <2>3 DEF Level
    <2> QED BY <2>1, <2>2, <2>3 DEF Level
  <1> QED BY <1>1, <1>3, <1>4, <1>5, <1>7, <1>2

LEMMA NextIsAll == FieldNext => Next
  BY Zenon DEF FieldNext, V43, V37, Next, sitepols_v43, sitepols_v37, start_v43,
     start_v37, thread_min_v43, thread_hour_v43, thread_day_v43,
     thread_min_v37, thread_hour_v37, thread_day_v37,
     timer_thread_min, timer_thread_hour, timer_thread_day

AnyInit == \E r \in Release : InitOf(r)

LEMMA InitIsAny == (Init => AnyInit) /\ (FieldInit => AnyInit)
  BY DEF Init, FieldInit, AnyInit, Release

-----------------------------------------------------------------------------
(***************************************************************************)
(* Where the threads and the readings stand: a timer has expired at a      *)
(* multiple of its interval, and the thread that it has started is not     *)
(* late.  Readings may be, and go on side by side.                         *)
(***************************************************************************)
Timing ==
  /\ \A l \in Level :
       /\ fired[l] % Interval[l] = 0 /\ fired[l] <= clock
       /\ pc[l] # "idle" =>
            First < fired[l] /\ clock <= fired[l] + Sleep[l] + Late
       /\ pc[l] = "record" => fired[l] + Sleep[l] <= clock
  /\ \A t \in reading :
       t % Interval[0] = 0 /\ First < t /\ t <= clock

(***************************************************************************)
(* The time of a row is that of the expiry it is from.                     *)
(***************************************************************************)
RowTimes ==
  \A k \in Table : \A t \in DOMAIN table[k] :
    t % Interval[k] = 0 /\ First < t /\ t <= clock

Timed == TypeOK /\ Timing /\ RowTimes

LEMMA RowTimeIs ==
  Timed => \A l \in Level : pc[l] # "idle" => RowTime(l) = fired[l]
  <1> SUFFICES ASSUME Timed, NEW l \in Level PROVE RowTime(l) = fired[l]
    OBVIOUS
  <1> DEFINE d == IF release \in Early THEN 0 ELSE Sleep[l]
             u == Unit[l]
             f == fired[l]
  <1>1. d \in Nat /\ u \in Nat \ {0} /\ d < u /\ f \in Nat
    BY Speeds DEF Timed, TypeOK
  <1>2. f % u = 0
    BY Speeds, MultipleOfMultiple, <1>1 DEF Timed, Timing
  <1>3. RowTime(l) = ((f + d) \div u) * u
    BY DEF RowTime
  <1> HIDE DEF d, u, f
  <1>4. f <= f + d /\ f + d < f + u /\ f + d \in Nat
    BY <1>1
  <1>5. ((f + d) \div u) * u = f
    BY <1>1, <1>2, <1>4, CutTo
  <1> QED BY <1>3, <1>5 DEF f

(***************************************************************************)
(* What a step does to the rows: it leaves a row, counts it, or adds one   *)
(* that is new.                                                            *)
(***************************************************************************)
Fresh(k, t) ==
  \/ k = 0 /\ t \in reading
  \/ k \in Level /\ pc[k] = "record" /\ t = fired[k]

RowsChange ==
  \A k \in Table : \A t \in DOMAIN table'[k] :
    \/ t \in DOMAIN table[k] /\ table'[k][t] = table[k][t]
    \/ /\ t \in DOMAIN table[k] /\ table'[k][t] = table[k][t] + 1
       /\ pc[k + 1] = "query" /\ Awake(k + 1) /\ InWindow(k + 1, t)
       /\ pc'[k + 1] = "record" /\ clock' = clock
    \/ /\ t \notin DOMAIN table[k] /\ table'[k][t] = 0 /\ Fresh(k, t)
       /\ clock' = clock

LEMMA RowsStep == Timed /\ [Next]_vars => RowsChange /\ DOMAIN table' = Table
  <1> SUFFICES ASSUME Timed, [Next]_vars
               PROVE  RowsChange /\ DOMAIN table' = Table
    OBVIOUS
  <1>0. DOMAIN table = Table
    BY DEF Timed, TypeOK
  <1>1. ASSUME UNCHANGED table PROVE RowsChange /\ DOMAIN table' = Table
    BY <1>0, <1>1 DEF RowsChange
  <1>2. ASSUME NEW r \in reading, ReadValue(r)
        PROVE  RowsChange /\ DOMAIN table' = Table
    <2>1. /\ DOMAIN table' = Table /\ table'[0] = WithRow(table[0], r)
          /\ \A k \in Table \ {0} : table'[k] = table[k]
      BY <1>0, <1>2 DEF ReadValue, Insert, Table
    <2>2. clock' = clock
      BY <1>2 DEF ReadValue
    <2>3. ASSUME NEW t \in DOMAIN table'[0]
          PROVE  \/ t \in DOMAIN table[0] /\ table'[0][t] = table[0][t]
                 \/ t \notin DOMAIN table[0] /\ table'[0][t] = 0 /\ Fresh(0, t)
      BY <2>1, <2>3 DEF WithRow, Fresh
    <2> QED BY <2>1, <2>2, <2>3 DEF RowsChange
  <1>3. ASSUME NEW l \in Level, Query(l)
        PROVE  RowsChange /\ DOMAIN table' = Table
    <2>1. l - 1 \in Table /\ (l - 1) + 1 = l
      BY DEF Level, Table
    <2>2. /\ DOMAIN table' = Table
          /\ \A k \in Table \ {l - 1} : table'[k] = table[k]
          /\ table'[l - 1] = [t \in DOMAIN table[l - 1] |->
                IF InWindow(l, t) THEN table[l - 1][t] + 1 ELSE table[l - 1][t]]
      BY <1>0, <1>3, <2>1 DEF Query
    <2>3. pc[l] = "query" /\ Awake(l) /\ pc'[l] = "record" /\ clock' = clock
      BY <1>3 DEF Query, Goto, Timed, TypeOK
    <2>4. ASSUME NEW t \in DOMAIN table'[l - 1]
          PROVE  /\ t \in DOMAIN table[l - 1]
                 /\ \/ table'[l - 1][t] = table[l - 1][t]
                    \/ /\ table'[l - 1][t] = table[l - 1][t] + 1
                       /\ InWindow(l, t)
      BY <2>2, <2>4
    <2>5. ASSUME NEW k \in Table, k = l - 1, NEW t \in DOMAIN table'[k]
          PROVE  \/ t \in DOMAIN table[k] /\ table'[k][t] = table[k][t]
                 \/ /\ t \in DOMAIN table[k] /\ table'[k][t] = table[k][t] + 1
                    /\ pc[k + 1] = "query" /\ Awake(k + 1) /\ InWindow(k + 1, t)
                    /\ pc'[k + 1] = "record" /\ clock' = clock
      BY <2>1, <2>3, <2>4, <2>5
    <2> QED BY <2>2, <2>5 DEF RowsChange
  <1>4. ASSUME NEW l \in Level, Record(l)
        PROVE  RowsChange /\ DOMAIN table' = Table
    <2>1. DOMAIN table' = Table /\ clock' = clock
      BY <1>4 DEF Record
    <2>2. ASSUME NEW k \in Table, NEW t \in DOMAIN table'[k]
          PROVE  \/ t \in DOMAIN table[k] /\ table'[k][t] = table[k][t]
                 \/ t \notin DOMAIN table[k] /\ table'[k][t] = 0 /\ Fresh(k, t)
      <3>1. CASE k = l - 1
        <4>1. table'[k] = Kept(l)
          BY <1>4, <3>1 DEF Record, Level
        <4>2. t \in DOMAIN table[k] /\ Kept(l)[t] = table[k][t]
          BY <2>2, <3>1, <4>1 DEF Kept, Restrict
        <4> QED BY <4>1, <4>2
      <3>2. CASE k = l
        <4>1. k # l - 1 /\ RowTime(l) = fired[l] /\ pc[l] = "record"
          BY <1>4, <3>2, RowTimeIs DEF Record, Level
        <4>2. table'[k] = WithRow(table[k], fired[l])
          BY <1>4, <3>2, <4>1 DEF Record
        <4> QED BY <2>2, <3>2, <4>1, <4>2 DEF WithRow, Fresh
      <3>3. CASE k # l - 1 /\ k # l
        BY <1>4, <2>2, <3>3 DEF Record
      <3> QED BY <3>1, <3>2, <3>3
    <2> QED BY <2>1, <2>2 DEF RowsChange
  <1>5. CASE Tick
    BY <1>1, <1>5 DEF Tick
  <1>6. ASSUME NEW r \in reading, ReadNothing(r)
        PROVE  RowsChange /\ DOMAIN table' = Table
    BY <1>1, <1>6 DEF ReadNothing
  <1>7. ASSUME NEW l \in Level, DbFails(l)
        PROVE  RowsChange /\ DOMAIN table' = Table
    BY <1>1, <1>7 DEF DbFails
  <1>8. CASE Reboot \/ Start
    BY <1>1, <1>8 DEF Reboot, Start
  <1>9. CASE UNCHANGED vars
    BY <1>1, <1>9 DEF vars
  <1> QED BY <1>2, <1>3, <1>4, <1>5, <1>6, <1>7, <1>8, <1>9
          DEF Next, Collect, Thread, Level,
              timer_thread_min, timer_thread_hour, timer_thread_day

(***************************************************************************)
(* What a step does to the threads: a second passes, or one thread goes on *)
(* and the clock stands still.                                             *)
(***************************************************************************)
Quiet ==
  /\ release' = release /\ clock' = clock /\ fired' = fired
  /\ ~troubled' => ~troubled /\ (up => up')
  /\ reading' \subseteq reading /\ tardy \cap DOMAIN table'[0] \subseteq tardy'
  /\ \A l \in Level :
       \/ pc'[l] = pc[l]
       \/ pc[l] = "query" /\ pc'[l] = "record" /\ Query(l)
       \/ pc[l] = "record" /\ pc'[l] = "idle" /\ Record(l)
       \/ pc'[l] = "idle" /\ troubled'

LEMMA StepKinds == Timed /\ [Next]_vars => Tick \/ Quiet
  <1> SUFFICES ASSUME Timed, [Next]_vars, ~Tick PROVE Quiet
    OBVIOUS
  <1>0. pc \in [Level -> {"idle", "query", "record"}]
    BY DEF Timed, TypeOK
  <1>1. ASSUME NEW r \in reading, Collect(r) PROVE Quiet
    <2>1. reading' \subseteq reading /\ tardy \subseteq tardy'
      BY <1>1 DEF Collect, ReadValue, ReadNothing
    <2>2. /\ release' = release /\ clock' = clock /\ fired' = fired
          /\ pc' = pc /\ troubled' = troubled /\ up' = up
      BY <1>1, Zenon DEF Collect, ReadValue, ReadNothing
    <2> QED BY <2>1, <2>2 DEF Quiet
  <1>2. ASSUME NEW l \in Level, Query(l) PROVE Quiet
    <2>1. /\ release' = release /\ clock' = clock /\ fired' = fired
          /\ reading' = reading /\ tardy' = tardy
          /\ troubled' = troubled /\ up' = up
      BY <1>2, Zenon DEF Query, bounds
    <2>2. pc[l] = "query" /\ pc' = [pc EXCEPT ![l] = "record"]
      BY <1>2 DEF Query, Goto
    <2> QED BY <1>0, <1>2, <2>1, <2>2 DEF Quiet
  <1>3. ASSUME NEW l \in Level, Record(l) PROVE Quiet
    <2>1. /\ release' = release /\ clock' = clock /\ fired' = fired
          /\ reading' = reading /\ tardy' = tardy \cap DOMAIN table'[0]
          /\ troubled' = troubled /\ up' = up
      BY <1>3, Zenon DEF Record, bounds
    <2>2. pc[l] = "record" /\ pc' = [pc EXCEPT ![l] = "idle"]
      BY <1>3 DEF Record, Goto
    <2> QED BY <1>0, <1>3, <2>1, <2>2 DEF Quiet
  <1>4. ASSUME NEW l \in Level, DbFails(l) PROVE Quiet
    <2>1. /\ release' = release /\ clock' = clock /\ fired' = fired
          /\ reading' = reading /\ tardy' = tardy
          /\ troubled'
      BY <1>4, Zenon DEF DbFails
    <2>2. pc' = [pc EXCEPT ![l] = "idle"]
      BY <1>4 DEF DbFails, Goto
    <2> QED BY <1>0, <1>4, <2>1, <2>2 DEF Quiet
  <1>5. CASE Reboot
    BY <1>5 DEF Reboot, Quiet
  <1>6. CASE Start
    <2>1. /\ release' = release /\ clock' = clock /\ fired' = fired
          /\ reading' = reading /\ pc' = pc /\ troubled' = troubled /\ up'
          /\ tardy' = tardy
      BY <1>6, Zenon DEF Start, threads, bounds
    <2> QED BY <1>6, <2>1 DEF Quiet, Start
  <1>7. CASE UNCHANGED vars
    <2>1. /\ release' = release /\ clock' = clock /\ fired' = fired
          /\ reading' = reading /\ tardy' = tardy
          /\ troubled' = troubled /\ up' = up /\ pc' = pc
      BY <1>7, Zenon DEF vars, threads, bounds
    <2> QED BY <2>1 DEF Quiet
  <1> QED BY <1>1, <1>2, <1>3, <1>4, <1>5, <1>6, <1>7
          DEF Next, Thread, Level,
              timer_thread_min, timer_thread_hour, timer_thread_day

(***************************************************************************)
(* A timer expires an interval after it did before, at the earliest.       *)
(***************************************************************************)
LEMMA ExpiryLater ==
  ASSUME Timed, NEW l \in Level, (clock + 1) % Interval[l] = 0
  PROVE  fired[l] + Interval[l] <= clock + 1
  <1> DEFINE n == Interval[l]
             f == fired[l]
  <1>1. n \in Nat \ {0} /\ f \in Nat /\ clock \in Nat /\ f % n = 0 /\ f <= clock
    <2>1. First \in Nat /\ MaxClock \in Nat
      BY Speeds
    <2>2. n \in Nat \ {0}
      BY Speeds
    <2>3. f \in 0 .. MaxClock /\ clock \in First .. MaxClock
      BY DEF Timed, TypeOK
    <2>4. f % n = 0 /\ f <= clock
      BY DEF Timed, Timing
    <2> HIDE DEF n, f
    <2> QED BY <2>1, <2>2, <2>3, <2>4
  <1> HIDE DEF n, f
  <1>2. f + n <= clock + 1
    <2>1. clock + 1 \in Nat /\ f < clock + 1 /\ (clock + 1) % n = 0
      BY <1>1 DEF n
    <2> QED BY <1>1, <2>1, NextMultiple
  <1> QED BY <1>2 DEF n, f

LEMMA TimingStep == Timed /\ [Next]_vars => Timing'
  <1> SUFFICES ASSUME Timed, [Next]_vars PROVE Timing'
    OBVIOUS
  <1>0. /\ clock \in Nat /\ First \in Nat /\ First <= clock
        /\ \A t \in reading : t \in Nat
        /\ \A l \in Level : /\ fired[l] \in Nat /\ Interval[l] \in Nat \ {0}
                            /\ Sleep[l] \in Nat
        /\ Late \in Nat
    BY Speeds DEF Timed, TypeOK
  <1>1. CASE Tick
    <2>1. ASSUME NEW l \in Level
          PROVE  /\ fired'[l] % Interval[l] = 0 /\ fired'[l] <= clock'
                 /\ pc'[l] # "idle" =>
                      /\ First < fired'[l]
                      /\ clock' <= fired'[l] + Sleep[l] + Late
                 /\ pc'[l] = "record" => fired'[l] + Sleep[l] <= clock'
      <3>1. CASE Due(l)
        BY <1>0, <1>1, <3>1 DEF Tick, Due
      <3>2. CASE ~Due(l)
        BY <1>0, <1>1, <3>2 DEF Tick, Timed, Timing
      <3> QED BY <3>1, <3>2
    <2>2. ASSUME NEW t \in reading'
          PROVE  t % Interval[0] = 0 /\ First < t /\ t <= clock'
      <3>1. CASE t \in reading
        BY <1>0, <1>1, <3>1 DEF Tick, Timed, Timing
      <3>2. CASE Due(0) /\ t = clock'
        BY <1>0, <1>1, <3>2 DEF Tick, Due
      <3> QED BY <1>1, <2>2, <3>1, <3>2 DEF Tick
    <2> QED BY <2>1, <2>2 DEF Timing
  <1>2. CASE Quiet
    <2>1. ASSUME NEW l \in Level
          PROVE  /\ fired'[l] % Interval[l] = 0 /\ fired'[l] <= clock'
                 /\ pc'[l] # "idle" =>
                      /\ First < fired'[l]
                      /\ clock' <= fired'[l] + Sleep[l] + Late
                 /\ pc'[l] = "record" => fired'[l] + Sleep[l] <= clock'
      BY <1>0, <1>2 DEF Quiet, Timed, Timing, Query, Awake
    <2>2. ASSUME NEW t \in reading'
          PROVE  t % Interval[0] = 0 /\ First < t /\ t <= clock'
      BY <1>2, <2>2 DEF Quiet, Timed, Timing
    <2> QED BY <2>1, <2>2 DEF Timing
  <1> QED BY <1>1, <1>2, StepKinds

LEMMA RowTimesStep == Timed /\ [Next]_vars => RowTimes'
  <1> SUFFICES ASSUME Timed, [Next]_vars,
                      NEW k \in Table, NEW t \in DOMAIN table'[k]
               PROVE  t % Interval[k] = 0 /\ First < t /\ t <= clock'
    BY DEF RowTimes
  <1>1. /\ clock \in Nat /\ clock' \in Nat /\ clock <= clock'
        /\ \A l \in Level : fired[l] \in Nat
        /\ \A r \in reading : r \in Nat
    BY StepKinds, Speeds DEF Timed, TypeOK, Tick, Quiet
  <1>2. CASE t \in DOMAIN table[k]
    <2>1. t \in Nat
      BY <1>2 DEF Timed, TypeOK
    <2> QED BY <1>1, <1>2, <2>1 DEF Timed, RowTimes
  <1>3. CASE Fresh(k, t)
    BY <1>1, <1>3 DEF Fresh, Timed, Timing
  <1> QED BY <1>2, <1>3, RowsStep DEF RowsChange

LEMMA TypeStep == Timed /\ [Next]_vars => TypeOK'
  <1> SUFFICES ASSUME Timed, [Next]_vars PROVE TypeOK'
    OBVIOUS
  <1>0. TypeOK
    BY DEF Timed
  <1>1. up' \in BOOLEAN /\ troubled' \in BOOLEAN
    <2>1. up \in BOOLEAN /\ troubled \in BOOLEAN
      BY <1>0, Zenon DEF TypeOK
    <2>2. up' \in {up, TRUE, FALSE} /\ troubled' \in {troubled, TRUE}
      BY Zenon DEF Next, Tick, Collect, ReadValue, ReadNothing, Thread, Query,
         Record, DbFails, Reboot, Start, vars, bounds, threads,
         timer_thread_min, timer_thread_hour, timer_thread_day
    <2> QED BY <2>1, <2>2, Zenon
  <1>2. DOMAIN table' = Table
    BY RowsStep
  <1>3. ASSUME NEW k \in Table
        PROVE  /\ DOMAIN table'[k] \subseteq 0 .. MaxClock
               /\ Range(table'[k]) \subseteq Nat
    <2>1. ASSUME NEW t \in DOMAIN table'[k]
          PROVE  t \in 0 .. MaxClock /\ table'[k][t] \in Nat
      <3>1. \A u \in DOMAIN table[k] :
              u \in 0 .. MaxClock /\ table[k][u] \in Nat
        BY <1>0 DEF TypeOK, Range
      <3>2. Fresh(k, t) => t \in 0 .. MaxClock
        BY <1>0 DEF Fresh, TypeOK
      <3> QED BY <2>1, <3>1, <3>2, RowsStep DEF RowsChange
    <2> QED BY <2>1 DEF Range
  <1>4. /\ release' \in Release /\ clock' \in First .. MaxClock
        /\ fired' \in [Level -> 0 .. MaxClock]
        /\ pc' \in [Level -> {"idle", "query", "record"}]
        /\ reading' \in SUBSET (0 .. MaxClock)
    <2>1. CASE Tick
      <3>1. clock' \in First .. MaxClock /\ clock' \in 0 .. MaxClock
        BY <1>0, <2>1, Speeds DEF TypeOK, Tick
      <3>2. release' = release
        BY <2>1 DEF Tick
      <3>3. \A l \in Level : /\ fired[l] \in 0 .. MaxClock
                             /\ pc[l] \in {"idle", "query", "record"}
        BY <1>0 DEF TypeOK
      <3>4. fired' \in [Level -> 0 .. MaxClock]
        BY <2>1, <3>1, <3>3 DEF Tick
      <3>5. pc' \in [Level -> {"idle", "query", "record"}]
        BY <2>1, <3>3 DEF Tick
      <3>6. reading' \in SUBSET (0 .. MaxClock)
        BY <1>0, <2>1, <3>1 DEF Tick, TypeOK
      <3> QED BY <1>0, <3>1, <3>2, <3>4, <3>5, <3>6 DEF TypeOK
    <2>2. CASE Quiet
      <3>1. pc' \in [Level -> {"idle", "query", "record"}]
        <4>1. \A l \in Level : pc'[l] \in {"idle", "query", "record"}
          BY <1>0, <2>2 DEF Quiet, TypeOK
        <4>2. pc' = [l \in Level |-> pc'[l]]
          BY <1>0 DEF Next, Tick, Collect, ReadValue, ReadNothing, Thread,
             Query, Record, DbFails, Goto, Reboot, Start, vars, threads, TypeOK,
             timer_thread_min, timer_thread_hour, timer_thread_day
        <4> QED BY <4>1, <4>2
      <3> QED BY <1>0, <2>2, <3>1 DEF Quiet, TypeOK
    <2> QED BY <2>1, <2>2, StepKinds
  <1>5. modbus_retry_times' \in 0 .. 2 * fails'
    <2>1. modbus_retry_times \in 0 .. 2 * fails /\ fails \in Nat
      BY <1>0, Speeds DEF TypeOK
    <2>2. CASE \E r \in reading : Collect(r)
      <3>1. PICK n \in 0 .. 2 :
              /\ modbus_retry_times' = modbus_retry_times + n
              /\ fails' = fails + 1 \/ (fails' = fails /\ n = 0)
        BY <2>2 DEF Collect, ReadValue, ReadNothing, Unanswered
      <3> QED BY <2>1, <3>1
    <2>3. CASE /\ modbus_retry_times' = modbus_retry_times
               /\ fails' = fails \/ fails' = fails + 1
      BY <2>1, <2>3
    <2>4. CASE Start
      BY <2>1, <2>4 DEF Start, bounds
    <2> QED BY <2>2, <2>3, <2>4
         DEF Next, Tick, Thread, Query, Record, DbFails, Reboot, vars, bounds,
         timer_thread_min, timer_thread_hour, timer_thread_day
  <1>6. boots' \in 0 .. MaxBoot /\ fails' \in 0 .. MaxFail
    <2>1. /\ boots \in 0 .. MaxBoot /\ fails \in 0 .. MaxFail
          /\ MaxBoot \in Nat /\ MaxFail \in Nat
      BY <1>0, Speeds DEF TypeOK
    <2>2. /\ boots' = boots \/ (boots < MaxBoot /\ boots' = boots + 1)
          /\ fails' = fails \/ (fails < MaxFail /\ fails' = fails + 1)
      BY Zenon DEF Next, Tick, Collect, ReadValue, ReadNothing, Thread, Query,
         Record, DbFails, Reboot, Start, vars, bounds,
         timer_thread_min, timer_thread_hour, timer_thread_day
    <2> QED BY <2>1, <2>2
  <1>7. tardy' \subseteq 0 .. MaxClock
    <2>1. tardy \subseteq 0 .. MaxClock /\ reading \subseteq 0 .. MaxClock
      BY <1>0 DEF TypeOK
    <2>2. tardy' \subseteq tardy \cup reading
      BY DEF Next, Tick, Collect, ReadValue, ReadNothing, Thread, Query,
         Record, DbFails, Reboot, Start, vars,
         timer_thread_min, timer_thread_hour, timer_thread_day
    <2> QED BY <2>1, <2>2
  <1> QED BY <1>1, <1>2, <1>3, <1>4, <1>5, <1>6, <1>7 DEF TypeOK

LEMMA TimedAtInit == AnyInit => Timed
  <1> SUFFICES ASSUME NEW r \in Release, InitOf(r) PROVE Timed
    BY DEF AnyInit
  <1>1. /\ First \in Nat /\ MaxClock \in Nat /\ First <= MaxClock
        /\ {ERROR_TIMES, MaxBoot, MaxFail} \subseteq Nat
        /\ \A l \in Level : 0 % Interval[l] = 0
    <2>1. \A n \in Nat \ {0} : 0 % n = 0
      BY SMT
    <2> QED BY <2>1, Speeds
  <1>2. up \in BOOLEAN /\ troubled \in BOOLEAN
    BY Zenon DEF InitOf
  <1>3. \A k \in Table : DOMAIN table[k] = {}
    BY DEF InitOf, Empty
  <1>4. TypeOK
    <2>1. \A k \in Table : Range(table[k]) = {}
      BY <1>3 DEF Range
    <2>2. /\ DOMAIN table = Table /\ release \in Release
          /\ clock \in First .. MaxClock /\ reading \in SUBSET (0 .. MaxClock)
          /\ modbus_retry_times \in 0 .. 2 * fails /\ tardy \subseteq 0 .. MaxClock
          /\ pc \in [Level -> {"idle", "query", "record"}]
          /\ fired \in [Level -> 0 .. MaxClock]
          /\ boots \in 0 .. MaxBoot /\ fails \in 0 .. MaxFail
      BY <1>1 DEF InitOf
    <2> QED BY <1>2, <1>3, <2>1, <2>2 DEF TypeOK
  <1>5. Timing
    BY <1>1 DEF InitOf, Timing
  <1> QED BY <1>3, <1>4, <1>5 DEF Timed, RowTimes

LEMMA TimedStep == Timed /\ [Next]_vars => Timed'
  BY TypeStep, TimingStep, RowTimesStep DEF Timed

(***************************************************************************)
(* The variables keep their types, in every release: a failed reading adds *)
(* two at most to the count of failures.                                   *)
(***************************************************************************)
THEOREM TypeCorrect == Spec \/ FieldSpec => []TypeOK
  <1>1. Timed => TypeOK
    BY DEF Timed
  <1>2. [FieldNext]_vars => [Next]_vars
    BY NextIsAll
  <1> QED BY <1>1, <1>2, InitIsAny, TimedAtInit, TimedStep, PTL
          DEF Spec, FieldSpec

-----------------------------------------------------------------------------
(***************************************************************************)
(* How often a row is counted.  Each expiry of the timer above counts it   *)
(* once at most, the first when its time has come, the last when it leaves *)
(* the window: so many expiries have passed since.                         *)
(***************************************************************************)
Spaced ==
  \A l \in Level : \A t \in DOMAIN table[l - 1] :
    table[l - 1][t] > 0 =>
      /\ (table[l - 1][t] - 1) * Interval[l] + t <= fired[l]
      /\ pc[l] = "query" => table[l - 1][t] * Interval[l] + t <= fired[l]

(***************************************************************************)
(* The row of an interval is not counted before the timer above expires.   *)
(***************************************************************************)
LEMMA RowBeforeExpiry ==
  ASSUME Timed, NEW l \in Level, pc[l] = "query", NEW t \in DOMAIN table[l - 1]
  PROVE  t <= fired[l]
  <1> DEFINE m == Interval[l - 1]
             f == fired[l]
  <1>1. /\ m \in Nat \ {0} /\ f \in Nat /\ t \in Nat /\ clock \in Nat
        /\ Sleep[l] \in Nat /\ Late \in Nat /\ Sleep[l] + Late < m
        /\ Interval[l] \in Nat \ {0} /\ l - 1 \in Table
    BY Speeds DEF Timed, TypeOK
  <1>2. f % m = 0
    BY <1>1, Speeds, MultipleOfMultiple DEF Timed, Timing
  <1>3. t % m = 0 /\ t <= clock /\ clock <= f + Sleep[l] + Late
    BY <1>1 DEF Timed, Timing, RowTimes
  <1> HIDE DEF m, f
  <1>4. f < t => f + m <= t
    BY <1>1, <1>2, <1>3, NextMultiple
  <1>5. t <= f
    BY <1>1, <1>3, <1>4
  <1> QED BY <1>5 DEF f

LEMMA OneMore ==
  ASSUME NEW n \in Nat, NEW i \in Nat
  PROVE  (n + 1) * i = n * i + i
  BY SMT

LEMMA TimerGoesOn ==
  Timed /\ [Next]_vars =>
    \A l \in Level :
      \/ fired[l] + Interval[l] <= fired'[l]
      \/ fired'[l] = fired[l] /\ (pc'[l] = "query" => pc[l] = "query")
  <1> SUFFICES ASSUME Timed, [Next]_vars, NEW l \in Level
               PROVE  \/ fired[l] + Interval[l] <= fired'[l]
                      \/ /\ fired'[l] = fired[l]
                         /\ pc'[l] = "query" => pc[l] = "query"
    OBVIOUS
  <1>1. CASE Tick /\ Due(l)
    BY <1>1, ExpiryLater DEF Tick, Due
  <1>2. CASE Tick /\ ~Due(l)
    BY <1>2 DEF Tick
  <1>3. CASE Quiet
    BY <1>3 DEF Quiet
  <1> QED BY <1>1, <1>2, <1>3, StepKinds

LEMMA SpacedStep == Timed /\ Spaced /\ [Next]_vars => Spaced'
  <1> SUFFICES ASSUME Timed, Spaced, [Next]_vars, NEW l \in Level,
                      NEW t \in DOMAIN table'[l - 1], table'[l - 1][t] > 0
               PROVE  /\ (table'[l - 1][t] - 1) * Interval[l] + t <= fired'[l]
                      /\ pc'[l] = "query" =>
                           table'[l - 1][t] * Interval[l] + t <= fired'[l]
    BY DEF Spaced
  <1> DEFINE k == l - 1
             n == table[k][t]
             i == Interval[l]
  <1>1. /\ k \in Table /\ k + 1 = l /\ i \in Nat \ {0}
        /\ fired[l] \in Nat /\ fired'[l] \in Nat /\ clock \in Nat
    BY Speeds, TimedStep DEF Timed, TypeOK, Level
  <1>2. t \in DOMAIN table[k] => n \in Nat /\ t \in Nat
    BY <1>1 DEF Timed, TypeOK, Range
  <1>3. t \in DOMAIN table[k] /\ n > 0 =>
          /\ (n - 1) * i + t <= fired[l]
          /\ pc[l] = "query" => n * i + t <= fired[l]
    BY DEF Spaced
  <1>4. ASSUME t \in DOMAIN table[k], n > 0
        PROVE  n * i = (n - 1) * i + i /\ (n - 1) * i \in Nat /\ n * i \in Nat
    <2> HIDE DEF n, i
    <2>1. n - 1 \in Nat /\ (n - 1) + 1 = n
      BY <1>2, <1>4
    <2> QED BY <1>1, <2>1, OneMore
  <1>5. CASE t \in DOMAIN table[k] /\ table'[k][t] = n
    <2>1. n > 0
      BY <1>5
    <2> HIDE DEF n, i
    <2>2. CASE fired[l] + i <= fired'[l]
      <3>1. n * i + t <= fired'[l] /\ (n - 1) * i + t <= fired'[l]
        BY <1>1, <1>2, <1>3, <1>4, <1>5, <2>1, <2>2
      <3> QED BY <1>5, <3>1 DEF i
    <2>3. CASE fired'[l] = fired[l] /\ (pc'[l] = "query" => pc[l] = "query")
      BY <1>3, <1>5, <2>1, <2>3 DEF i
    <2> QED BY <2>2, <2>3, TimerGoesOn DEF i
  <1>6. CASE /\ t \in DOMAIN table[k] /\ table'[k][t] = n + 1
             /\ pc[k + 1] = "query" /\ pc'[k + 1] = "record" /\ clock' = clock
    <2>1. pc[l] = "query" /\ pc'[l] = "record" /\ n \in Nat /\ t \in Nat
      BY <1>1, <1>2, <1>6
    <2>2. fired'[l] = fired[l]
      <3>1. ~Tick
        BY <1>1, <1>6 DEF Tick
      <3> QED BY <3>1, StepKinds DEF Quiet
    <2>3. n * i + t <= fired[l]
      <3>1. CASE n = 0
        <4>1. t <= fired[l]
          BY <1>6, <2>1, RowBeforeExpiry
        <4> HIDE DEF n, i
        <4>2. n * i = 0
          BY <1>1, <3>1
        <4> QED BY <2>1, <4>1, <4>2
      <3>2. CASE n > 0
        BY <1>3, <1>6, <2>1, <3>2
      <3> QED BY <2>1, <3>1, <3>2
    <2> HIDE DEF n
    <2>4. (n + 1) - 1 = n
      BY <2>1
    <2> QED BY <1>6, <2>1, <2>2, <2>3, <2>4
  <1> QED BY <1>1, <1>5, <1>6, RowsStep DEF RowsChange

(***************************************************************************)
(* No row is counted again once the window has moved on.                   *)
(***************************************************************************)
LEMMA OnceStep ==
  Timed /\ Spaced /\ CountedOnce /\ [Next]_vars => CountedOnce'
  <1> SUFFICES ASSUME Timed, Spaced, CountedOnce, [Next]_vars,
                      NEW k \in Table, NEW t \in DOMAIN table'[k]
               PROVE  table'[k][t] <= 1 + Again(k + 1)'
    BY DEF CountedOnce
  <1> DEFINE l == k + 1
             n == table[k][t]
             i == Interval[l]
             z == Zone[release]
  <1>1. /\ l \in Level /\ l - 1 = k /\ release' = release /\ z \in Nat
        /\ i \in Nat \ {0} /\ Sleep[l] \in Nat \ {0} /\ clock \in Nat
        /\ fired[l] \in Nat
    <2>1. l \in Level /\ l - 1 = k
      BY DEF Table, Level
    <2>2. release' = release
      BY StepKinds DEF Tick, Quiet
    <2>3. z \in Nat
      BY TimesAssumption DEF Timed, TypeOK
    <2> QED BY <2>1, <2>2, <2>3, Speeds DEF Timed, TypeOK
  <1>2. Again(l)' = Again(l) /\ Again(l) = (z + i - 1) \div i
    BY <1>1 DEF Again
  <1>3. (z + i - 1) \div i \in Nat
    <2>1. z + i - 1 \in Nat
      BY <1>1
    <2> HIDE DEF z, i
    <2> QED BY <1>1, <2>1, DivMod
  <1>4. CASE t \in DOMAIN table[k] /\ table'[k][t] = n
    BY <1>2, <1>4 DEF CountedOnce
  <1>5. CASE /\ t \in DOMAIN table[k] /\ table'[k][t] = n + 1
             /\ pc[l] = "query" /\ Awake(l) /\ InWindow(l, t)
    <2>1. n \in Nat /\ t \in Nat
      BY <1>5 DEF Timed, TypeOK, Range
    <2>2. CASE n = 0
      BY <1>2, <1>3, <1>5, <2>2
    <2>3. CASE n > 0
      <3>1. n * i + t <= fired[l]
        BY <1>1, <1>5, <2>3 DEF Spaced
      <3>2. clock >= fired[l] + Sleep[l] /\ clock - z - t <= i
        BY <1>5 DEF Awake, InWindow, Age
      <3> HIDE DEF n, z, i, l
      <3>3. n * i \in Nat
        BY <1>1, <2>1
      <3>4. n * i <= z + i - 1
        BY <1>1, <2>1, <3>1, <3>2, <3>3
      <3>5. n <= (z + i - 1) \div i
        BY <1>1, <2>1, <3>4, Repeats
      <3> QED BY <1>2, <1>3, <1>5, <2>1, <3>5 DEF l
    <2> QED BY <2>1, <2>2, <2>3
  <1>6. CASE table'[k][t] = 0
    BY <1>2, <1>3, <1>6
  <1> QED BY <1>4, <1>5, <1>6, RowsStep DEF RowsChange

LEMMA CountsAtInit == AnyInit => Spaced /\ CountedOnce
  <1> SUFFICES ASSUME NEW r \in Release, InitOf(r) PROVE Spaced /\ CountedOnce
    BY DEF AnyInit
  <1>1. \A k \in Table : DOMAIN table[k] = {}
    BY DEF InitOf, Empty
  <1> QED BY <1>1, Speeds DEF Spaced, CountedOnce

(***************************************************************************)
(* No row is counted twice, or more often than the zone of the release     *)
(* explains, whatever reboots and failures come between.                   *)
(***************************************************************************)
THEOREM Once == Spec \/ FieldSpec => []CountedOnce
  <1>1. [FieldNext]_vars => [Next]_vars
    BY NextIsAll
  <1> QED BY <1>1, InitIsAny, TimedAtInit, TimedStep, CountsAtInit, SpacedStep,
             OnceStep, PTL DEF Spec, FieldSpec

-----------------------------------------------------------------------------
(***************************************************************************)
(* While nothing has gone wrong, what is older than an interval when a     *)
(* timer expires has been counted, and once the thread has run, so has     *)
(* all up to the expiry: all but the readings that came too late.          *)
(***************************************************************************)
TooLate(l, t) == l = 1 /\ t \in tardy

CountedSoFar ==
  ~troubled =>
    /\ up
    /\ \A l \in Level :
         /\ pc[l] = "query" =>
              \A t \in DOMAIN table[l - 1] :
                t + Interval[l] <= fired[l] /\ ~TooLate(l, t)
                  => table[l - 1][t] >= 1
         /\ pc[l] # "query" =>
              /\ First < LastExpiry(l) =>
                   /\ LastExpiry(l) + Sleep[l] <= clock
                   /\ fired[l] = LastExpiry(l)
              /\ \A t \in DOMAIN table[l - 1] :
                   t <= LastExpiry(l) /\ ~TooLate(l, t)
                     => table[l - 1][t] >= 1

LEMMA Numbers ==
  Timed => /\ clock \in Nat /\ \A l \in Level : fired[l] \in Nat
           /\ \A t \in reading : t \in Nat
           /\ \A k \in Table : \A t \in DOMAIN table[k] :
                t \in Nat /\ table[k][t] \in Nat
  <1> SUFFICES ASSUME Timed
               PROVE  /\ clock \in Nat /\ \A l \in Level : fired[l] \in Nat
                      /\ \A t \in reading : t \in Nat
                      /\ \A k \in Table : \A t \in DOMAIN table[k] :
                           t \in Nat /\ table[k][t] \in Nat
    OBVIOUS
  <1>1. clock \in Nat
    BY Speeds DEF Timed, TypeOK
  <1>2. \A l \in Level : fired[l] \in Nat
    BY DEF Timed, TypeOK
  <1>3. reading \subseteq 0 .. MaxClock
    BY DEF Timed, TypeOK
  <1>4. \A k \in Table : \A t \in DOMAIN table[k] :
          t \in Nat /\ table[k][t] \in Nat
    BY DEF Timed, TypeOK, Range
  <1> QED BY <1>1, <1>2, <1>3, <1>4

LEMMA StaysUp ==
  Tick \/ Quiet => (troubled => troubled') /\ (~troubled' => (up => up'))
  <1>1. ASSUME Tick PROVE (troubled => troubled') /\ (up => up')
    BY <1>1, SMT DEF Tick, bounds
  <1>2. ASSUME Quiet
        PROVE  (troubled => troubled') /\ (~troubled' => (up => up'))
    BY <1>2, Zenon DEF Quiet
  <1> QED BY <1>1, <1>2

LEMMA LastExpiryType ==
  ASSUME Timed, NEW l \in Level PROVE LastExpiry(l) \in Nat
  <1> DEFINE n == Interval[l]
  <1>1. n \in Nat \ {0} /\ clock \in Nat
    BY Speeds, Numbers
  <1> HIDE DEF n
  <1>2. (clock \div n) * n \in Nat
    BY <1>1, DivMod
  <1> QED BY <1>2 DEF LastExpiry, n

LEMMA LastExpiryIs ==
  ASSUME Timed, NEW l \in Level, pc[l] # "idle" PROVE LastExpiry(l) = fired[l]
  <1> DEFINE n == Interval[l]
             f == fired[l]
  <1>1. /\ n \in Nat \ {0} /\ f \in Nat /\ clock \in Nat /\ f % n = 0
        /\ f <= clock /\ clock < f + n
    BY Speeds DEF Timed, TypeOK, Timing
  <1> HIDE DEF n, f
  <1>2. (clock \div n) * n = f
    BY <1>1, CutTo
  <1> QED BY <1>2 DEF LastExpiry, n, f

(***************************************************************************)
(* How the last expiry changes in a second: a timer that is due finds its  *)
(* thread at rest, and the last expiry an interval ago.                    *)
(***************************************************************************)
LEMMA LastExpiryDue ==
  ASSUME Timed, Tick, NEW l \in Level, Due(l)
  PROVE  pc[l] = "idle" /\ LastExpiry(l) + Interval[l] = clock + 1
  <1> DEFINE n == Interval[l]
  <1>1. n \in Nat \ {0} /\ clock \in Nat /\ (clock + 1) % n = 0
    BY Speeds, Numbers DEF Due
  <1>2. pc[l] = "idle"
    <2> SUFFICES ASSUME pc[l] # "idle" PROVE FALSE
      OBVIOUS
    <2>1. fired[l] + n <= clock + 1
      BY ExpiryLater DEF Due
    <2>2. /\ clock < fired[l] + Sleep[l] + Late /\ fired[l] \in Nat
          /\ Sleep[l] \in Nat /\ Late \in Nat /\ Sleep[l] + Late < n
      BY Speeds DEF Tick, Timed, TypeOK
    <2> QED BY <1>1, <2>1, <2>2
  <1> HIDE DEF n
  <1> DEFINE e == (clock \div n) * n
  <1>3. e \in Nat /\ e % n = 0 /\ e <= clock /\ clock < e + n
    BY <1>1, DivMod, MultipleMod
  <1> HIDE DEF e
  <1>4. e + n <= clock + 1
    <2>1. clock + 1 \in Nat /\ e < clock + 1
      BY <1>1, <1>3
    <2> QED BY <1>1, <1>3, <2>1, NextMultiple
  <1>5. e + n = clock + 1
    BY <1>1, <1>3, <1>4
  <1> QED BY <1>2, <1>5 DEF LastExpiry, e, n

LEMMA LastExpiryStays ==
  ASSUME Timed, Tick, up, NEW l \in Level, ~Due(l)
  PROVE  LastExpiry(l)' = LastExpiry(l)
  <1> DEFINE n == Interval[l]
             e == (clock \div n) * n
  <1>1. /\ n \in Nat \ {0} /\ clock \in Nat /\ (clock + 1) % n # 0
        /\ clock' = clock + 1
    <2>1. (clock + 1) % n # 0
      BY Zenon DEF Due
    <2>2. clock' = clock + 1
      BY DEF Tick
    <2> QED BY <2>1, <2>2, Speeds, Numbers
  <1>2. LastExpiry(l) = e /\ LastExpiry(l)' = (clock' \div n) * n
    BY DEF LastExpiry
  <1> HIDE DEF n
  <1>3. e \in Nat /\ e % n = 0 /\ e <= clock /\ clock < e + n
    BY <1>1, DivMod, MultipleMod
  <1> HIDE DEF e
  <1>4. (e + n) % n = 0
    BY <1>1, <1>3, MultipleSum
  <1>5. e + n # clock + 1
    BY <1>1, <1>4
  <1>6. clock + 1 \in Nat /\ e <= clock + 1 /\ clock + 1 < e + n
    BY <1>1, <1>3, <1>5
  <1>7. ((clock + 1) \div n) * n = e
    BY <1>1, <1>3, <1>6, CutTo
  <1> QED BY <1>1, <1>2, <1>7

(***************************************************************************)
(* A row comes before the thread above looks for it; a reading that does   *)
(* not is marked.                                                          *)
(***************************************************************************)
LEMMA FreshInTime ==
  ASSUME Timed, CountedSoFar, ~troubled, NEW l \in Level,
         NEW t, Fresh(l - 1, t), ~(l = 1 /\ Overdue(t))
  PROVE  /\ pc[l] = "query" => ~(t + Interval[l] <= fired[l])
         /\ pc[l] # "query" => ~(t <= LastExpiry(l))
  <1>1. /\ Sleep[l] \in Nat /\ Late \in Nat /\ Interval[l] \in Nat
        /\ Sleep[l] + Late < Interval[l] /\ First \in Nat
        /\ clock \in Nat /\ fired[l] \in Nat /\ fired[l] <= clock
    BY Speeds, Numbers DEF Timed, Timing
  <1>2. LastExpiry(l) \in Nat
    BY LastExpiryType
  <1>3. pc[l] # "query" /\ First < LastExpiry(l) =>
          LastExpiry(l) + Sleep[l] <= clock /\ fired[l] = LastExpiry(l)
    BY DEF CountedSoFar
  <1>4. t \in Nat /\ First < t
    <2>1. CASE l = 1
      <3>1. t \in reading
        BY <2>1 DEF Fresh, Level
      <3> QED BY <3>1, Numbers DEF Timed, Timing
    <2>2. CASE l # 1
      <3>1. l - 1 \in Level /\ pc[l - 1] = "record" /\ t = fired[l - 1]
        BY <2>2, Speeds DEF Fresh, Level
      <3> QED BY <3>1, Numbers DEF Timed, Timing
    <2> QED BY <2>1, <2>2
  <1>5. \/ clock < t + Sleep[l]
        \/ pc[l] = "query" /\ ~(t <= fired[l] - Interval[l])
        \/ pc[l] # "query" /\ ~(t <= fired[l])
    <2>1. CASE l = 1
      BY <1>1, <1>4, <2>1 DEF Overdue
    <2>2. CASE l # 1
      <3>1. /\ l - 1 \in Level /\ Sleep[l - 1] + Late < Sleep[l]
            /\ Sleep[l - 1] \in Nat
        BY <2>2, Speeds
      <3>2. pc[l - 1] = "record" /\ t = fired[l - 1]
        BY <2>2, <3>1 DEF Fresh, Level
      <3>3. clock <= t + Sleep[l - 1] + Late
        BY <3>1, <3>2 DEF Timed, Timing
      <3> QED BY <1>1, <1>4, <3>1, <3>3
    <2> QED BY <2>1, <2>2
  <1> QED BY <1>1, <1>2, <1>3, <1>4, <1>5

(***************************************************************************)
(* The window of a query reaches back to the expiry before.                *)
(***************************************************************************)
LEMMA WindowReaches ==
  ASSUME Timed, NEW l \in Level, pc[l] = "query",
         NEW t \in DOMAIN table[l - 1], ~InWindow(l, t)
  PROVE  t + Interval[l] <= fired[l]
  <1> DEFINE m == Interval[l - 1]
             n == Interval[l]
             f == fired[l]
             z == Zone[release]
  <1>1. /\ m \in Nat \ {0} /\ n \in Nat \ {0} /\ f \in Nat /\ t \in Nat
        /\ clock \in Nat /\ l - 1 \in Table
        /\ Sleep[l] \in Nat /\ Late \in Nat /\ Sleep[l] + Late < m
    BY Speeds DEF Timed, TypeOK
  <1>2. z \in Nat
    BY TimesAssumption DEF Timed, TypeOK
  <1>3. f % m = 0 /\ n % m = 0
    BY <1>1, Speeds, MultipleOfMultiple DEF Timed, Timing
  <1>4. t % m = 0 /\ clock <= f + Sleep[l] + Late
    BY <1>1 DEF Timed, Timing, RowTimes
  <1>5. ~(clock - z - t <= n)
    BY DEF InWindow, Age
  <1> HIDE DEF m, n, f, z
  <1>6. (t + n) % m = 0
    <2> DEFINE p == t \div m
               q == n \div m
    <2>1. p \in Nat /\ q \in Nat /\ t = p * m /\ n = q * m
      BY <1>1, <1>3, <1>4, DivMod
    <2> HIDE DEF p, q
    <2>2. t + n = (p + q) * m /\ p + q \in Int
      BY <1>1, <2>1
    <2> QED BY <1>1, <2>2, MultipleMod
  <1>7. f < t + n => f + m <= t + n
    <2>1. t + n \in Nat
      BY <1>1
    <2> QED BY <1>1, <1>3, <1>6, <2>1, NextMultiple
  <1>8. t + n <= f
    BY <1>1, <1>2, <1>4, <1>5, <1>7
  <1> QED BY <1>8 DEF n, f

(***************************************************************************)
(* A reading that is stored too late is marked as such.                    *)
(***************************************************************************)
LEMMA NewReading ==
  ASSUME Timed, [Next]_vars, NEW t \in DOMAIN table'[0],
         t \notin DOMAIN table[0], Overdue(t)
  PROVE  t \in tardy'
  <1>0. DOMAIN table = Table /\ 0 \in Table
    BY DEF Timed, TypeOK, Table
  <1>1. ASSUME NEW r \in reading, ReadValue(r) PROVE t = r
    BY <1>0, <1>1 DEF ReadValue, Insert, WithRow
  <1>2. ASSUME NEW l \in Level, Query(l) PROVE FALSE
    BY <1>0, <1>2 DEF Query
  <1>3. ASSUME NEW l \in Level, Record(l) PROVE FALSE
    <2>1. CASE l = 1
      <3>1. table'[0] = Kept(1)
        BY <1>0, <1>3, <2>1 DEF Record
      <3> QED BY <2>1, <3>1 DEF Kept, Restrict
    <2>2. CASE l # 1
      BY <1>0, <1>3, <2>2 DEF Record, Level
    <2> QED BY <2>1, <2>2
  <1> QED BY <1>1, <1>2, <1>3
          DEF Next, Tick, Collect, ReadValue, ReadNothing, Thread, DbFails,
              Reboot, Start, vars, Level,
              timer_thread_min, timer_thread_hour, timer_thread_day

LEMMA CountedStep ==
  Timed /\ CountedSoFar /\ [Next]_vars => CountedSoFar'
  <1> SUFFICES ASSUME Timed, CountedSoFar, [Next]_vars, ~troubled'
               PROVE  up' /\ \A l \in Level :
         /\ pc'[l] = "query" =>
              \A t \in DOMAIN table'[l - 1] :
                t + Interval[l] <= fired'[l] /\ ~TooLate(l, t)'
                  => table'[l - 1][t] >= 1
         /\ pc'[l] # "query" =>
              /\ First < LastExpiry(l)' =>
                   /\ LastExpiry(l)' + Sleep[l] <= clock'
                   /\ fired'[l] = LastExpiry(l)'
              /\ \A t \in DOMAIN table'[l - 1] :
                   t <= LastExpiry(l)' /\ ~TooLate(l, t)'
                     => table'[l - 1][t] >= 1
    BY DEF CountedSoFar
  <1>1. ~troubled /\ up /\ up'
    <2>1. ~troubled => up
      BY Zenon DEF CountedSoFar
    <2> QED BY <2>1, StaysUp, StepKinds, Zenon
  <1>2. ASSUME NEW l \in Level, NEW t \in DOMAIN table'[l - 1]
        PROVE  \/ table'[l - 1][t] >= 1
               \/ /\ t \in DOMAIN table[l - 1]
                  /\ table'[l - 1][t] = table[l - 1][t]
                  /\ ~TooLate(l, t)' => ~TooLate(l, t)
               \/ Fresh(l - 1, t) /\ ~(l = 1 /\ Overdue(t))
               \/ TooLate(l, t)'
    <2>1. l - 1 \in Table
      BY Speeds
    <2>2. t \in DOMAIN table[l - 1] => table[l - 1][t] \in Nat
      BY <2>1 DEF Timed, TypeOK, Range
    <2>3. t \in DOMAIN table[l - 1] /\ ~TooLate(l, t)' => ~TooLate(l, t)
      BY <1>2, StepKinds DEF TooLate, Tick, Quiet
    <2>4. ASSUME Fresh(l - 1, t), t \notin DOMAIN table[l - 1],
                 l = 1, Overdue(t)
          PROVE  TooLate(l, t)'
      BY <1>2, <2>4, NewReading DEF TooLate
    <2> QED BY <2>1, <2>2, <2>3, <2>4, RowsStep, <1>2 DEF RowsChange
  <1>3. ASSUME NEW l \in Level, Tick
        PROVE  /\ pc'[l] = "query" =>
                    \A t \in DOMAIN table'[l - 1] :
                      t + Interval[l] <= fired'[l] /\ ~TooLate(l, t)'
                        => table'[l - 1][t] >= 1
               /\ pc'[l] # "query" =>
                    /\ First < LastExpiry(l)' =>
                         /\ LastExpiry(l)' + Sleep[l] <= clock'
                         /\ fired'[l] = LastExpiry(l)'
                    /\ \A t \in DOMAIN table'[l - 1] :
                         t <= LastExpiry(l)' /\ ~TooLate(l, t)'
                           => table'[l - 1][t] >= 1
    <2>0. /\ table' = table /\ clock' = clock + 1 /\ clock \in Nat
          /\ Interval[l] \in Nat /\ Sleep[l] \in Nat /\ l - 1 \in Table
          /\ \A t \in DOMAIN table[l - 1] : t \in Nat
          /\ \A t : TooLate(l, t)' = TooLate(l, t)
      BY <1>3, Speeds, Numbers DEF Tick, TooLate
    <2>3. LastExpiry(l) \in Nat
      BY LastExpiryType
    <2>1. CASE Due(l)
      <3>1. pc'[l] = "query" /\ fired'[l] = clock + 1
        BY <1>3, <2>1 DEF Tick
      <3>2. pc[l] = "idle" /\ LastExpiry(l) + Interval[l] = clock + 1
        BY <1>3, <2>1, LastExpiryDue
      <3>3. ASSUME NEW t \in DOMAIN table[l - 1], t + Interval[l] <= clock + 1,
                   ~TooLate(l, t)
            PROVE  table[l - 1][t] >= 1
        <4>1. t <= LastExpiry(l)
          BY <2>0, <2>3, <3>2, <3>3
        <4> QED BY <1>1, <3>2, <3>3, <4>1 DEF CountedSoFar
      <3> QED BY <2>0, <3>1, <3>3
    <2>2. CASE ~Due(l)
      <3>1. pc'[l] = pc[l] /\ fired'[l] = fired[l]
        BY <1>3, <2>2 DEF Tick
      <3>2. LastExpiry(l)' = LastExpiry(l)
        BY <1>1, <1>3, <2>2, LastExpiryStays
      <3>3. /\ pc[l] = "query" =>
                 \A t \in DOMAIN table[l - 1] :
                   t + Interval[l] <= fired[l] /\ ~TooLate(l, t)
                     => table[l - 1][t] >= 1
            /\ pc[l] # "query" =>
                 /\ First < LastExpiry(l) =>
                      /\ LastExpiry(l) + Sleep[l] <= clock
                      /\ fired[l] = LastExpiry(l)
                 /\ \A t \in DOMAIN table[l - 1] :
                      t <= LastExpiry(l) /\ ~TooLate(l, t)
                        => table[l - 1][t] >= 1
        BY <1>1 DEF CountedSoFar
      <3>4. LastExpiry(l) + Sleep[l] <= clock
              => LastExpiry(l) + Sleep[l] <= clock'
        BY <2>0, <2>3
      <3> QED BY <2>0, <3>1, <3>2, <3>3, <3>4
    <2> QED BY <2>1, <2>2
  <1>4. ASSUME NEW l \in Level, Quiet
        PROVE  /\ pc'[l] = "query" =>
                    \A t \in DOMAIN table'[l - 1] :
                      t + Interval[l] <= fired'[l] /\ ~TooLate(l, t)'
                        => table'[l - 1][t] >= 1
               /\ pc'[l] # "query" =>
                    /\ First < LastExpiry(l)' =>
                         /\ LastExpiry(l)' + Sleep[l] <= clock'
                         /\ fired'[l] = LastExpiry(l)'
                    /\ \A t \in DOMAIN table'[l - 1] :
                         t <= LastExpiry(l)' /\ ~TooLate(l, t)'
                           => table'[l - 1][t] >= 1
    <2>0. clock' = clock /\ fired' = fired /\ LastExpiry(l)' = LastExpiry(l)
      BY <1>4 DEF Quiet, LastExpiry
    <2>1. CASE \/ pc'[l] = pc[l]
               \/ pc[l] = "record" /\ pc'[l] = "idle"
      <3>1. ASSUME NEW t \in DOMAIN table'[l - 1], pc'[l] = "query",
                   t + Interval[l] <= fired'[l], ~TooLate(l, t)'
            PROVE  table'[l - 1][t] >= 1
        <4>1. pc[l] = "query" /\ t + Interval[l] <= fired[l]
          BY <2>0, <2>1, <3>1
        <4>2. ~(Fresh(l - 1, t) /\ ~(l = 1 /\ Overdue(t)))
          BY <1>1, <4>1, FreshInTime
        <4>3. t \in DOMAIN table[l - 1] /\ ~TooLate(l, t)
                => table[l - 1][t] >= 1
          BY <1>1, <4>1 DEF CountedSoFar
        <4> QED BY <1>2, <3>1, <4>2, <4>3
      <3>2. ASSUME NEW t \in DOMAIN table'[l - 1], pc'[l] # "query",
                   t <= LastExpiry(l)', ~TooLate(l, t)'
            PROVE  table'[l - 1][t] >= 1
        <4>1. pc[l] # "query" /\ t <= LastExpiry(l)
          BY <2>0, <2>1, <3>2
        <4>2. ~(Fresh(l - 1, t) /\ ~(l = 1 /\ Overdue(t)))
          BY <1>1, <4>1, FreshInTime
        <4>3. t \in DOMAIN table[l - 1] /\ ~TooLate(l, t)
                => table[l - 1][t] >= 1
          BY <1>1, <4>1 DEF CountedSoFar
        <4> QED BY <1>2, <3>2, <4>2, <4>3
      <3>3. pc'[l] # "query" /\ First < LastExpiry(l)' =>
              LastExpiry(l)' + Sleep[l] <= clock' /\ fired'[l] = LastExpiry(l)'
        BY <1>1, <2>0, <2>1 DEF CountedSoFar
      <3> QED BY <3>1, <3>2, <3>3
    <2>2. CASE pc[l] = "query" /\ pc'[l] = "record" /\ Query(l)
      <3>1. LastExpiry(l) = fired[l] /\ fired[l] + Sleep[l] <= clock
        BY <2>2, Speeds, LastExpiryIs DEF Query, Awake
      <3>2. l - 1 \in Table /\ DOMAIN table = Table
        BY Speeds DEF Timed, TypeOK
      <3>3. table'[l - 1] = [t \in DOMAIN table[l - 1] |->
                IF InWindow(l, t) THEN table[l - 1][t] + 1 ELSE table[l - 1][t]]
        BY <2>2, <3>2 DEF Query
      <3>4. ASSUME NEW t \in DOMAIN table'[l - 1], ~TooLate(l, t)'
            PROVE  table'[l - 1][t] >= 1
        <4>0. ~TooLate(l, t)
          BY <2>2, <3>4 DEF Query, TooLate
        <4>1. t \in DOMAIN table[l - 1] /\ table[l - 1][t] \in Nat
          BY <3>2, <3>3, <3>4 DEF Timed, TypeOK, Range
        <4>2. CASE InWindow(l, t)
          BY <3>3, <4>1, <4>2
        <4>3. CASE ~InWindow(l, t)
          <5>1. t + Interval[l] <= fired[l]
            BY <2>2, <4>1, <4>3, WindowReaches
          <5>2. table[l - 1][t] >= 1
            BY <1>1, <2>2, <4>0, <4>1, <5>1 DEF CountedSoFar
          <5> QED BY <3>3, <4>1, <4>3, <5>2
        <4> QED BY <4>2, <4>3
      <3> QED BY <2>0, <2>2, <3>1, <3>4
    <2> QED BY <1>1, <1>4, <2>1, <2>2 DEF Quiet
  <1> QED BY <1>1, <1>3, <1>4, StepKinds

LEMMA CountedAtInit == AnyInit => CountedSoFar
  <1> SUFFICES ASSUME NEW r \in Release, InitOf(r) PROVE CountedSoFar
    BY DEF AnyInit
  <1>1. up /\ \A l \in Level : pc[l] = "idle"
    BY DEF InitOf
  <1>2. \A k \in Table : DOMAIN table[k] = {}
    BY DEF InitOf, Empty
  <1>3. ASSUME NEW l \in Level PROVE ~(First < LastExpiry(l))
    <2> DEFINE n == Interval[l]
    <2>1. n \in Nat \ {0} /\ First \in Nat /\ clock = First
      BY Speeds DEF InitOf
    <2> HIDE DEF n
    <2>2. (First \div n) * n <= First /\ (First \div n) * n \in Nat
      BY <2>1, DivMod
    <2> QED BY <2>1, <2>2 DEF LastExpiry, n
  <1> QED BY <1>1, <1>2, <1>3, Speeds DEF CountedSoFar

(***************************************************************************)
(* Without trouble every reading and every row is counted, in every        *)
(* release and whatever its zone, but for the readings that took as long   *)
(* as the thread above sleeps.                                             *)
(***************************************************************************)
THEOREM AllCounted == Spec \/ FieldSpec => []NothingMissed
  <1>1. CountedSoFar => NothingMissed
    BY DEF CountedSoFar, NothingMissed, TooLate
  <1>2. [FieldNext]_vars => [Next]_vars
    BY NextIsAll
  <1> QED BY <1>1, <1>2, InitIsAny, TimedAtInit, TimedStep, CountedAtInit,
             CountedStep, PTL DEF Spec, FieldSpec

-----------------------------------------------------------------------------
(***************************************************************************)
(* While nothing has gone wrong, the row of every interval that has ended  *)
(* is there, but for the one whose thread is at work.                      *)
(***************************************************************************)
Wanted(l, t) ==
  /\ l = 1 => Age(t) <= Keep[release][1]
  /\ pc[l] # "idle" => t # fired[l]

RowsThere ==
  ~troubled =>
    /\ up
    /\ \A l \in 1 .. 2 : \A t \in Ends(l) :
         Wanted(l, t) => t \in DOMAIN table[l]

(***************************************************************************)
(* Only the thread above deletes, and only what is too old.                *)
(***************************************************************************)
LEMMA RowsStay ==
  ASSUME Timed, [Next]_vars, NEW l \in 1 .. 2, NEW t \in DOMAIN table[l]
  PROVE  t \in DOMAIN table'[l] \/ (l = 1 /\ Age(t) > Keep[release][1])
  <1>0. l \in Table /\ DOMAIN table = Table
    BY DEF Timed, TypeOK, Table
  <1>1. CASE UNCHANGED table
    BY <1>1
  <1>2. ASSUME NEW r \in reading, ReadValue(r) PROVE t \in DOMAIN table'[l]
    BY <1>0, <1>2 DEF ReadValue, Insert
  <1>3. ASSUME NEW m \in Level, Query(m) PROVE t \in DOMAIN table'[l]
    BY <1>0, <1>3 DEF Query
  <1>4. ASSUME NEW m \in Level, Record(m)
        PROVE  t \in DOMAIN table'[l] \/ (l = 1 /\ Age(t) > Keep[release][1])
    <2>1. CASE l = m - 1
      <3>1. table'[l] = Kept(m)
        BY <1>0, <1>4, <2>1 DEF Record
      <3>2. DOMAIN Kept(m) = {x \in DOMAIN table[l] : m = 3 \/ ~Expired(m, x)}
        BY <2>1 DEF Kept, Restrict
      <3>3. m = 3 \/ (l = 1 /\ m = 2)
        BY <2>1 DEF Level
      <3> QED BY <2>1, <3>1, <3>2, <3>3 DEF Expired
    <2>2. CASE l = m
      <3>1. table'[l] = WithRow(table[l], RowTime(m))
        BY <1>0, <1>4, <2>2 DEF Record, Level
      <3> QED BY <3>1 DEF WithRow
    <2>3. CASE l # m - 1 /\ l # m
      BY <1>0, <1>4, <2>3 DEF Record
    <2> QED BY <2>1, <2>2, <2>3
  <1> QED BY <1>1, <1>2, <1>3, <1>4
          DEF Next, Tick, Collect, ReadNothing, Thread, DbFails, Reboot, Start,
              vars, Level, timer_thread_min, timer_thread_hour, timer_thread_day

LEMMA RowRecorded ==
  ASSUME Timed, NEW l \in 1 .. 2, Record(l) PROVE fired[l] \in DOMAIN table'[l]
  <1>1. l \in Level /\ l \in Table /\ l # l - 1 /\ pc[l] = "record"
    BY DEF Level, Table, Record
  <1>2. table'[l] = WithRow(table[l], RowTime(l))
    BY <1>1 DEF Record
  <1>3. RowTime(l) = fired[l]
    BY <1>1, RowTimeIs
  <1> QED BY <1>2, <1>3 DEF WithRow

LEMMA RowsThereStep == Timed /\ RowsThere /\ [Next]_vars => RowsThere'
  <1> SUFFICES ASSUME Timed, RowsThere, [Next]_vars, ~troubled'
               PROVE  up' /\ \A l \in 1 .. 2 : \A t \in Ends(l)' :
                        Wanted(l, t)' => t \in DOMAIN table'[l]
    BY DEF RowsThere
  <1>1. ~troubled /\ up /\ up'
    <2>1. ~troubled => up
      BY Zenon DEF RowsThere
    <2> QED BY <2>1, StaysUp, StepKinds, Zenon
  <1>2. ASSUME NEW l \in 1 .. 2, NEW t \in Ends(l), Wanted(l, t),
               l = 1 => Age(t) <= Keep[release][1]
        PROVE  t \in DOMAIN table'[l]
    <2>1. t \in DOMAIN table[l]
      BY <1>1, <1>2, Zenon DEF RowsThere
    <2>2. /\ Age(t) \in Int
          /\ Keep[release][1] \in Int
      BY Numbers, TimesAssumption DEF Age, Ends, Timed, TypeOK
    <2> QED BY <1>2, <2>1, <2>2, RowsStay
  <1>3. ASSUME NEW l \in 1 .. 2, NEW t \in Ends(l)', Wanted(l, t)', Tick
        PROVE  t \in DOMAIN table'[l]
    <2>1. /\ clock \in Nat /\ First \in Nat /\ l \in Level
          /\ clock' = clock + 1 /\ release' = release /\ table' = table
      BY <1>3, Numbers, Speeds DEF Tick, Level
    <2>2. t \in First + 1 .. clock + 1 /\ t % Interval[l] = 0
      BY <2>1, <1>3 DEF Ends
    <2>3. l = 1 => Age(t) <= Keep[release][1]
      <3> SUFFICES ASSUME l = 1 PROVE Age(t) <= Keep[release][1]
        OBVIOUS
      <3>1. (clock + 1) - Zone[release] - t <= Keep[release][1]
        BY <1>3, <2>1 DEF Wanted, Age
      <3>2. Zone[release] \in Nat /\ Keep[release][1] \in Nat
        BY TimesAssumption DEF Timed, TypeOK
      <3> QED BY <2>1, <2>2, <3>1, <3>2 DEF Age
    <2>4. t # clock + 1 /\ Wanted(l, t)
      <3>1. CASE Due(l)
        <4>1. pc'[l] = "query" /\ fired'[l] = clock + 1
          BY <1>3, <2>1, <3>1 DEF Tick
        <4>2. pc[l] = "idle"
          BY <1>3, <2>1, <3>1, LastExpiryDue
        <4> QED BY <1>3, <2>3, <4>1, <4>2 DEF Wanted
      <3>2. CASE ~Due(l)
        <4>1. pc'[l] = pc[l] /\ fired'[l] = fired[l]
          BY <1>3, <2>1, <3>2 DEF Tick
        <4>2. (clock + 1) % Interval[l] # 0
          BY <1>1, <3>2, Zenon DEF Due
        <4> QED BY <1>3, <2>2, <2>3, <4>1, <4>2 DEF Wanted
      <3> QED BY <3>1, <3>2
    <2>5. t \in Ends(l)
      BY <2>1, <2>2, <2>4 DEF Ends
    <2> QED BY <1>2, <2>3, <2>4, <2>5
  <1>4. ASSUME NEW l \in 1 .. 2, NEW t \in Ends(l)', Wanted(l, t)', Quiet
        PROVE  t \in DOMAIN table'[l]
    <2>1. /\ t \in Ends(l) /\ l \in Level /\ fired'[l] = fired[l]
          /\ l = 1 => Age(t) <= Keep[release][1]
      BY <1>4 DEF Quiet, Ends, Wanted, Age, Level
    <2>2. Wanted(l, t) => t \in DOMAIN table'[l]
      BY <1>2, <2>1
    <2>3. CASE pc'[l] = pc[l] \/ pc'[l] = "record"
      BY <1>4, <2>1, <2>2, <2>3 DEF Wanted
    <2>4. CASE Record(l)
      <3>1. CASE t = fired[l]
        BY <2>4, <3>1, RowRecorded
      <3>2. CASE t # fired[l]
        BY <2>1, <2>2, <3>2 DEF Wanted
      <3> QED BY <3>1, <3>2
    <2> QED BY <1>4, <2>1, <2>3, <2>4 DEF Quiet
  <1> QED BY <1>1, <1>3, <1>4, StepKinds

LEMMA RowsThereAtInit == AnyInit => RowsThere
  <1> SUFFICES ASSUME NEW r \in Release, InitOf(r) PROVE RowsThere
    BY DEF AnyInit
  <1>1. up
    BY DEF InitOf
  <1>2. \A l \in 1 .. 2 : Ends(l) = {}
    BY Speeds DEF InitOf, Ends
  <1> QED BY <1>1, <1>2 DEF RowsThere

(***************************************************************************)
(* What a server can ask for is there, in every release and whatever the   *)
(* times it keeps rows for.                                                *)
(***************************************************************************)
THEOREM HistoryThere == Spec \/ FieldSpec => []HistoryKept
  <1>1. RowsThere => HistoryKept
    BY DEF RowsThere, HistoryKept, Wanted
  <1>2. [FieldNext]_vars => [Next]_vars
    BY NextIsAll
  <1> QED BY <1>1, <1>2, InitIsAny, TimedAtInit, TimedStep, RowsThereAtInit,
             RowsThereStep, PTL DEF Spec, FieldSpec

-----------------------------------------------------------------------------
(***************************************************************************)
(* The timers.  The multiple of an interval that comes next stays the same *)
(* until the second in which it is reached.                                *)
(***************************************************************************)
LEMMA ReachedMultiple ==
  ASSUME NEW n \in Nat \ {0}, NEW a \in Nat, (a + 1) % n = 0
  PROVE  /\ (a \div n + 1) * n = a + 1
         /\ ((a + 1) \div n + 1) * n = a + 1 + n
  <1> DEFINE q == a \div n
             r == (a + 1) \div n
  <1>1. q \in Nat /\ q * n \in Nat /\ q * n <= a /\ a < q * n + n
    BY DivMod
  <1>2. r \in Nat /\ r * n = a + 1
    BY DivMod, a + 1 \in Nat
  <1> HIDE DEF q, r
  <1>3. (q * n) % n = 0
    BY <1>1, MultipleMod
  <1>4. q * n + n <= a + 1
    BY <1>1, <1>3, NextMultiple, a + 1 \in Nat, q * n < a + 1
  <1>5. (q + 1) * n = q * n + n /\ (r + 1) * n = r * n + n
    BY <1>1, <1>2
  <1>6. (q + 1) * n = a + 1 /\ (r + 1) * n = a + 1 + n
    BY <1>1, <1>2, <1>4, <1>5
  <1> QED BY <1>6 DEF q, r

LEMMA UnreachedMultiple ==
  ASSUME NEW n \in Nat \ {0}, NEW a \in Nat, (a + 1) % n # 0
  PROVE  /\ (a \div n + 1) * n # a + 1
         /\ ((a + 1) \div n + 1) * n = (a \div n + 1) * n
  <1> DEFINE q == a \div n
             r == (a + 1) \div n
  <1>1. q \in Nat /\ q * n \in Nat /\ q * n <= a /\ a < q * n + n
    BY DivMod
  <1>2. r \in Nat
    BY DivMod, a + 1 \in Nat
  <1> HIDE DEF q
  <1>3. (q + 1) * n = q * n + n /\ ((q + 1) * n) % n = 0 /\ (q * n) % n = 0
    BY <1>1, MultipleMod
  <1>4. (q + 1) * n # a + 1
    BY <1>3
  <1>5. q * n <= a + 1 /\ a + 1 < q * n + n
    BY <1>1, <1>3, <1>4
  <1>6. r * n = q * n
    BY <1>1, <1>3, <1>5, CutTo, a + 1 \in Nat
  <1> HIDE DEF r
  <1>7. (r + 1) * n = (q + 1) * n
    BY <1>1, <1>2, <1>3, <1>6
  <1> QED BY <1>4, <1>7 DEF q, r

LEMMA IntervalsPositive == \A n \in Range(Interval) : n \in Nat \ {0}
  BY TimesAssumption DEF Range

LEMMA LevelInterval == \A l \in Level : Interval[l] \in Range(Interval)
  BY TimesAssumption DEF Range, Level

(***************************************************************************)
(* A timer of a level expires with the second in which it is due.          *)
(***************************************************************************)
LEMMA DueIsExpiry ==
  ASSUME Timed, NEW l \in Level
  PROVE  Due(l) <=> Timers!Expires(Interval[l])
  <1>1. /\ Interval[l] \in Range(Interval) /\ Interval[l] \in Nat \ {0}
        /\ clock \in Nat
    BY LevelInterval, IntervalsPositive, Speeds DEF Timed, TypeOK
  <1>2. Timers!Expires(Interval[l])
          <=> (IF up THEN (clock \div Interval[l] + 1) * Interval[l] ELSE 0)
                 = clock + 1
    BY <1>1 DEF Timers!Expires
  <1>3. CASE ~up
    BY <1>1, <1>2, <1>3 DEF Due
  <1>4. CASE up
    <2>1. (clock \div Interval[l] + 1) * Interval[l] = clock + 1
            <=> (clock + 1) % Interval[l] = 0
      BY <1>1, ReachedMultiple, UnreachedMultiple
    <2> QED BY <1>2, <1>4, <2>1 DEF Due
  <1> QED BY <1>3, <1>4

LEMMA TimersStart == AnyInit => Timers!Init
  <1> SUFFICES ASSUME NEW r \in Release, InitOf(r) PROVE Timers!Init
    BY DEF AnyInit
  <1>1. clock \in Nat /\ up
    BY Speeds DEF InitOf
  <1> QED BY <1>1 DEF Timers!Init, Timers!On

LEMMA TimersStep == Timed /\ [Next]_vars => [Timers!Next]_(Timers!vars)
  <1> SUFFICES ASSUME Timed, [Next]_vars PROVE [Timers!Next]_(Timers!vars)
    OBVIOUS
  <1>0. clock \in Nat
    BY Speeds DEF Timed, TypeOK
  <1>1. CASE Tick
    <2> DEFINE next == [n \in Range(Interval) |->
                          IF up THEN (clock \div n + 1) * n ELSE 0]
    <2>1. clock' = clock + 1 /\ up' = up
      BY <1>1 DEF Tick
    <2>2. ASSUME NEW n \in Range(Interval)
          PROVE  (IF up' THEN (clock' \div n + 1) * n ELSE 0)
                   = IF next[n] = clock + 1 THEN clock' + n ELSE next[n]
      <3>1. n \in Nat \ {0}
        BY IntervalsPositive
      <3>2. next[n] = IF up THEN (clock \div n + 1) * n ELSE 0
        OBVIOUS
      <3> HIDE DEF next
      <3>3. CASE ~up
        BY <1>0, <2>1, <3>2, <3>3
      <3>4. CASE up /\ (clock + 1) % n = 0
        BY <1>0, <2>1, <3>1, <3>2, <3>4, ReachedMultiple
      <3>5. CASE up /\ (clock + 1) % n # 0
        BY <1>0, <2>1, <3>1, <3>2, <3>5, UnreachedMultiple
      <3> QED BY <3>3, <3>4, <3>5
    <2>3. Timers!Second
      BY <2>1, <2>2 DEF Timers!Second, Timers!Expires
    <2> QED BY <2>3 DEF Timers!Next
  <1>2. CASE Reboot
    <2>1. clock' = clock /\ up' = FALSE
      BY <1>2 DEF Reboot
    <2>2. Timers!Stop
      BY <2>1 DEF Timers!Stop, Timers!Off
    <2> QED BY <2>2 DEF Timers!Next
  <1>3. CASE Start
    <2>1. clock' = clock /\ ~up /\ up'
      BY <1>3 DEF Start
    <2>2. Timers!Start
      BY <2>1 DEF Timers!Start, Timers!On, Timers!Off
    <2> QED BY <2>2 DEF Timers!Next
  <1>4. CASE clock' = clock /\ up' = up
    BY <1>4 DEF Timers!vars
  <1>5. Tick \/ Reboot \/ Start \/ (clock' = clock /\ up' = up)
    BY Zenon DEF Next, Collect, ReadValue, ReadNothing, Thread, Query, Record,
       DbFails, vars, timer_thread_min, timer_thread_hour, timer_thread_day
  <1> QED BY <1>1, <1>2, <1>3, <1>4, <1>5

(***************************************************************************)
(* In every release and for any intervals, the timers that start the       *)
(* threads are those that ClockSync promises, stopped and started with     *)
(* gather (gather.c 1607-1774, 2367-2415).                                 *)
(***************************************************************************)
THEOREM TimersKept == Spec \/ FieldSpec => KeepsPromise
  <1>1. [FieldNext]_vars => [Next]_vars
    BY NextIsAll
  <1> QED BY <1>1, InitIsAny, TimedAtInit, TimedStep, TimersStart, TimersStep,
             PTL DEF Spec, FieldSpec, KeepsPromise, Timers!Spec

LEMMA ExpiryStep ==
  Timed /\ [Next]_vars
    => [\A l \in Level : fired'[l] = IF Expiry(l) THEN clock' ELSE fired[l]]_vars
  <1> SUFFICES ASSUME Timed, [Next]_vars, NEW l \in Level
               PROVE  fired'[l] = IF Expiry(l) THEN clock' ELSE fired[l]
    BY Zenon
  <1>1. clock \in Nat
    BY Speeds DEF Timed, TypeOK
  <1>2. CASE Tick
    <2>1. clock' = clock + 1 /\ fired'[l] = IF Due(l) THEN clock' ELSE fired[l]
      BY <1>2 DEF Tick
    <2>2. Expiry(l) <=> Due(l)
      BY <1>1, <2>1, DueIsExpiry DEF Expiry
    <2> QED BY <2>1, <2>2, Zenon
  <1>3. CASE Quiet
    BY <1>3, Zenon DEF Quiet, Expiry
  <1> QED BY <1>2, <1>3, StepKinds

(***************************************************************************)
(* In every release a thread begins an aggregation with each expiry of its *)
(* timer, under the time of the expiry, and never otherwise (gather.c      *)
(* 1607-1774).                                                             *)
(***************************************************************************)
THEOREM TimersFire == Spec \/ FieldSpec => FiredOnExpiry
  <1>1. [FieldNext]_vars => [Next]_vars
    BY NextIsAll
  <1> QED BY <1>1, InitIsAny, TimedAtInit, TimedStep, ExpiryStep, PTL
          DEF Spec, FieldSpec, FiredOnExpiry

-----------------------------------------------------------------------------
(***************************************************************************)
(* The columns of a table have names of their own.                         *)
(***************************************************************************)
OwnNames(c) ==
  /\ Len(c) \in Nat
  /\ DOMAIN c = 1 .. Len(c)
  /\ \A j, k \in 1 .. Len(c) : c[j].name = c[k].name => j = k

LEMMA Tabular ==
  /\ TableName = {"siteconf", "server", "devices", "sitesbs", "pols",
                  "sitepols", "sbparam", "polsalarm", "ctlparam"}
  /\ Columns.siteconf = siteconf /\ Columns.server = server
  /\ Columns.devices = devices /\ Columns.sitesbs = sitesbs
  /\ Columns.pols = pols /\ Columns.sitepols = sitepols
  /\ Columns.sbparam = sbparam /\ Columns.polsalarm = polsalarm
  /\ Columns.ctlparam = ctlparam
  BY DEF TableName, Columns

LEMMA SmallTables ==
  OwnNames(server) /\ OwnNames(sitesbs) /\ OwnNames(pols)
  <1>1. OwnNames(server)
    BY DEF OwnNames, server, Text, Number
  <1>2. OwnNames(sitesbs)
    BY DEF OwnNames, sitesbs, Text, Number
  <1>3. OwnNames(pols)
    BY DEF OwnNames, pols, Text, Number
  <1> QED BY <1>1, <1>2, <1>3

LEMMA LargeTables ==
  OwnNames(devices) /\ OwnNames(ctlparam) /\ OwnNames(polsalarm)
  <1>1. OwnNames(devices)
    BY DEF OwnNames, devices, Text, Number
  <1>2. OwnNames(ctlparam)
    BY DEF OwnNames, ctlparam, Text, Number
  <1>3. OwnNames(polsalarm)
    BY DEF OwnNames, polsalarm, Text, Number
  <1> QED BY <1>1, <1>2, <1>3

LEMMA LargestTables ==
  OwnNames(siteconf) /\ OwnNames(sbparam) /\ OwnNames(sitepols)
  <1>1. OwnNames(siteconf)
    BY SMTT(30) DEF OwnNames, siteconf, Text, Number
  <1>2. OwnNames(sbparam)
    BY SMTT(30) DEF OwnNames, sbparam, Text, Number
  <1>3. OwnNames(sitepols)
    BY SMTT(30) DEF OwnNames, sitepols, Text, Number
  <1> QED BY <1>1, <1>2, <1>3

LEMMA ColumnNames == \A t \in TableName : OwnNames(Columns[t])
  BY Tabular, SmallTables, LargeTables, LargestTables

LEMMA Scanned == \A c, x : Scan(c, x) = Read(c, x)
  BY DEF Scan, Read, AsText, AsNumber

(***************************************************************************)
(* The place of a cell in the flat array.                                  *)
(***************************************************************************)
LEMMA Place ==
  ASSUME NEW w \in Nat, NEW i \in Nat, NEW k \in 0 .. w - 1
  PROVE  (i * w + k) \div w = i /\ (i * w + k) % w = k
  BY SMT

LEMMA InPlace ==
  ASSUME NEW w \in Nat, NEW n \in Nat, NEW i \in 1 .. n, NEW k \in 1 .. w - 1
  PROVE  i * w + k \in 0 .. (n + 1) * w - 1
  <1>1. i * w <= n * w
    BY SMT
  <1>2. (n + 1) * w = n * w + w /\ n * w \in Nat /\ i * w \in Nat
    BY SMT
  <1> QED BY <1>1, <1>2

LEMMA Cells ==
  ASSUME NEW c, OwnNames(c), NEW rows, Len(rows) \in Nat,
         NEW i \in 1 .. Len(rows), NEW k \in 1 .. Len(c)
  PROVE  GetTable(c, rows)[At(Len(c) + 1, i - 1, k)] = rows[i][c[k].name]
  <1> DEFINE w == Len(c) + 1
             n == Len(rows)
  <1>1. w \in Nat /\ n \in Nat /\ i \in 1 .. n /\ k \in 1 .. w - 1
    BY DEF OwnNames
  <1>2. At(w, i - 1, k) = i * w + k
    <2> HIDE DEF w, n
    <2> QED BY <1>1 DEF At
  <1>3. (i * w + k) \div w = i /\ (i * w + k) % w = k
    <2> HIDE DEF w, n
    <2>1. w \in Nat /\ i \in Nat /\ k \in 0 .. w - 1
      BY <1>1
    <2> QED BY <2>1, Place, Zenon
  <1>4. i * w + k \in 0 .. (n + 1) * w - 1
    <2> HIDE DEF w, n
    <2> QED BY <1>1, InPlace
  <1>5. i # 0 /\ k # 0
    BY <1>1
  <1> DEFINE Cell(a, b) == IF b = 0 THEN a
                           ELSE IF a = 0 THEN c[b].name
                           ELSE rows[a][c[b].name]
  <1>6. GetTable(c, rows) =
          [m \in 0 .. (n + 1) * w - 1 |-> Cell(m \div w, m % w)]
    BY DEF GetTable
  <1>7. GetTable(c, rows)[i * w + k] = Cell(i, k)
    <2> HIDE DEF w, n, Cell
    <2> QED BY <1>3, <1>4, <1>6
  <1> QED BY <1>2, <1>5, <1>7

LEMMA ColumnFound ==
  ASSUME NEW c, OwnNames(c), NEW k \in 1 .. Len(c)
  PROVE  /\ c[k].name \in Names(c)
         /\ (CHOOSE j \in 1 .. Len(c) : c[j].name = c[k].name) = k
  BY DEF OwnNames, Names

LEMMA RecordRead ==
  ASSUME NEW c, OwnNames(c), NEW rows, Len(rows) \in Nat
  PROVE  LET record == get_settings(c, GetTable(c, rows), Len(rows))
         IN  /\ Len(record) = Len(rows)
             /\ record = [i \in 1 .. Len(record) |-> record[i]]
             /\ \A i \in 1 .. Len(rows) : \A k \in 1 .. Len(c) :
                  record[i][c[k].name] = Read(c[k], rows[i][c[k].name])
  <1> DEFINE result == GetTable(c, rows)
             Field(i, f) ==
               LET k == CHOOSE k \in 1 .. Len(c) : c[k].name = f
               IN  Scan(c[k], result[At(Len(c) + 1, i - 1, k)])
             n == Len(rows)
             record == [i \in 1 .. n |-> [f \in Names(c) |-> Field(i, f)]]
  <1>1. get_settings(c, result, n) = record
    BY DEF get_settings
  <1>2. Len(record) = n
    <2> HIDE DEF n, Field
    <2>1. n \in Nat
      BY DEF n
    <2> QED BY <2>1
  <1>3. record = [i \in 1 .. n |-> record[i]]
    <2> HIDE DEF n, Field
    <2> QED OBVIOUS
  <1>4. ASSUME NEW i \in 1 .. n, NEW k \in 1 .. Len(c)
        PROVE  record[i][c[k].name] = Read(c[k], rows[i][c[k].name])
    <2>1. record[i][c[k].name] = Field(i, c[k].name)
      <3> HIDE DEF n, Field
      <3> QED BY ColumnFound
    <2>2. Field(i, c[k].name) = Scan(c[k], result[At(Len(c) + 1, i - 1, k)])
      BY ColumnFound
    <2>3. result[At(Len(c) + 1, i - 1, k)] = rows[i][c[k].name]
      BY Cells
    <2> HIDE DEF n, Field, record, result
    <2> QED BY <2>1, <2>2, <2>3, Scanned
  <1> HIDE DEF record
  <1> QED BY <1>1, <1>2, <1>3, <1>4

(***************************************************************************)
(* siteconfig: the second cell of each row after the heading is the value. *)
(***************************************************************************)
LEMMA ConfRead ==
  ASSUME NEW conf, NEW k \in 1 .. Len(siteconf)
  PROVE  get_siteconf_settings(GetConf(conf))[siteconf[k].name]
           = Read(siteconf[k], conf[siteconf[k].name])
  <1>0. OwnNames(siteconf)
    BY LargestTables
  <1> DEFINE result == GetConf(conf)
             n == Len(siteconf)
             Cell(a, b) == IF b = 0 THEN a
                           ELSE IF a = 0 THEN "heading"
                           ELSE IF b = 1 THEN siteconf[a].name
                           ELSE conf[siteconf[a].name]
             Field(f) ==
               LET r == CHOOSE r \in 1 .. n : siteconf[r].name = f
               IN  Scan(siteconf[r], result[At(3, r - 1, 2)])
  <1>1. n \in Nat /\ k \in 1 .. n
    BY <1>0 DEF OwnNames
  <1>2. At(3, k - 1, 2) = k * 3 + 2
    <2> HIDE DEF n
    <2> QED BY <1>1 DEF At
  <1>3. (k * 3 + 2) \div 3 = k /\ (k * 3 + 2) % 3 = 2
    <2> HIDE DEF n
    <2> QED BY <1>1, Place
  <1>4. k * 3 + 2 \in 0 .. (n + 1) * 3 - 1
    <2> HIDE DEF n
    <2> QED BY <1>1, InPlace
  <1>5. result = [m \in 0 .. (n + 1) * 3 - 1 |-> Cell(m \div 3, m % 3)]
    BY DEF GetConf
  <1>6. result[k * 3 + 2] = Cell(k, 2)
    <2> HIDE DEF n, Cell, result
    <2> QED BY <1>3, <1>4, <1>5
  <1>7. Cell(k, 2) = conf[siteconf[k].name]
    BY <1>1
  <1>8. Field(siteconf[k].name) = Scan(siteconf[k], result[At(3, k - 1, 2)])
    BY <1>0, ColumnFound
  <1>9. get_siteconf_settings(result)[siteconf[k].name]
          = Field(siteconf[k].name)
    <2>1. get_siteconf_settings(result)
            = [f \in Names(siteconf) |-> Field(f)]
      BY DEF get_siteconf_settings
    <2> HIDE DEF Field, n, result
    <2> QED BY <2>1, <1>0, ColumnFound
  <1> HIDE DEF Field, n, result, Cell
  <1> QED BY <1>2, <1>6, <1>7, <1>8, <1>9, Scanned DEF result

(***************************************************************************)
(* What a query answers is a sequence, as long as what the condition lets  *)
(* through.                                                                *)
(***************************************************************************)
Rowed(rows) == Len(rows) \in Nat /\ rows = [i \in 1 .. Len(rows) |-> rows[i]]

LEMMA Stored ==
  ASSUME NEW d \in Database, NEW t \in TableName \ {"siteconf"}
  PROVE  Rowed(d[t]) /\ DOMAIN d[t] = 1 .. Len(d[t])
  <1>1. Rowed(d[t])
    BY SettingsAssumption DEF Rowed
  <1> QED BY <1>1 DEF Rowed

LEMMA SelectedRowed ==
  ASSUME NEW t, NEW rows, Rowed(rows)
  PROVE  Rowed(Selected(t, rows))
  <1> DEFINE chosen == {i \in DOMAIN rows : Condition(t, rows[i])}
  <1>1. DOMAIN rows = 1 .. Len(rows) /\ Len(rows) \in Nat
    BY DEF Rowed
  <1>2. IsFiniteSet(1 .. Len(rows))
    BY <1>1, FS_Interval
  <1>3. Cardinality(chosen) \in Nat
    BY <1>1, <1>2, FS_Subset, FS_CardinalityType
  <1>4. CASE t \in {"server", "pols"}
    <2> DEFINE n == Cardinality(chosen)
    <2>1. Selected(t, rows) = [m \in 1 .. n |-> rows[Nth(chosen, m)]]
      BY <1>4 DEF Selected
    <2> HIDE DEF n, chosen
    <2>2. n \in Nat
      BY <1>3 DEF n
    <2> QED BY <2>1, <2>2 DEF Rowed
  <1>5. CASE t \notin {"server", "pols"}
    BY <1>5 DEF Selected
  <1> QED BY <1>4, <1>5

LEMMA TableLoaded ==
  ASSUME NEW d \in Database, NEW t \in TableName \ {"siteconf"}
  PROVE  LET rows == Selected(t, d[t])
             record == Load(t, d[t])
         IN  /\ Rowed(rows) /\ Rowed(record)
             /\ Len(record) = Len(rows)
             /\ \A i \in 1 .. Len(rows) : Agrees(t, record[i], rows[i])
  <1> DEFINE rows == Selected(t, d[t])
             c == Columns[t]
  <1>1. Rowed(rows)
    BY Stored, SelectedRowed
  <1>2. OwnNames(c)
    BY ColumnNames
  <1>3. Load(t, d[t]) = get_settings(c, GetTable(c, rows), Len(rows))
    BY Tabular DEF Load
  <1> HIDE DEF rows
  <1> DEFINE record == get_settings(c, GetTable(c, rows), Len(rows))
  <1>4. /\ Len(record) = Len(rows)
        /\ record = [i \in 1 .. Len(record) |-> record[i]]
        /\ \A i \in 1 .. Len(rows) : \A k \in 1 .. Len(c) :
             record[i][c[k].name] = Read(c[k], rows[i][c[k].name])
    BY <1>1, <1>2, RecordRead DEF Rowed
  <1> HIDE DEF record
  <1>5. \A i \in 1 .. Len(rows) : Agrees(t, record[i], rows[i])
    BY <1>2, <1>4 DEF Agrees, OwnNames
  <1> QED BY <1>1, <1>3, <1>4, <1>5 DEF rows, record, Rowed

LEMMA ConfLoaded ==
  ASSUME NEW d
  PROVE  Agrees("siteconf", Load("siteconf", d["siteconf"]), d["siteconf"])
  BY ConfRead, Tabular, LargestTables DEF Agrees, OwnNames, Load

-----------------------------------------------------------------------------
(***************************************************************************)
(* The tables that are there are those of the database, and the lines      *)
(* those of the devices in the table.  Nothing is loaded any more when the *)
(* first line is opened, and nothing is read before the last.              *)
(***************************************************************************)
SettingsTypeOK ==
  /\ stored \in Database
  /\ loaded = [t \in TableName |-> loaded[t]]
  /\ step \in Nat /\ step <= Dead
  /\ ctx = [i \in 1 .. MAXDEVS |-> ctx[i]]

Faithful ==
  \A t \in TableName : loaded[t] # Null => loaded[t] = Load(t, stored[t])

Lined ==
  \A i \in 1 .. MAXDEVS :
    ctx[i] # Null => /\ i <= devicesnum
                     /\ Serial(loaded.devices[i])
                     /\ ctx[i] = Line(loaded.devices[i])

InOrder ==
  /\ step <= Loads => \A i \in 1 .. MAXDEVS : ctx[i] = Null
  /\ step < Running => read = {} /\ seen = {}

SettingsInv == SettingsTypeOK /\ Faithful /\ Lined /\ InOrder

LEMMA Steps ==
  /\ MAXDEVS \in Nat /\ Loads = 9
  /\ Running = MAXDEVS + 10 /\ Dead = MAXDEVS + 11
  <1>1. MAXDEVS \in Nat
    BY SettingsAssumption
  <1>2. Loads = 9
    BY DEF Loads, Order
  <1> QED BY <1>1, <1>2 DEF Running, Dead

LEMMA InTurn == \A n \in 1 .. 9 : Order[n] \in TableName
  BY Tabular DEF Order

(***************************************************************************)
(* A device with a line, as the table and as the database have it.         *)
(***************************************************************************)
LEMMA TableHeld ==
  ASSUME SettingsTypeOK, Faithful, NEW t \in TableName \ {"siteconf"},
         loaded[t] # Null
  PROVE  LET rows == Selected(t, stored[t])
         IN  /\ Rowed(rows) /\ Rowed(loaded[t])
             /\ Len(loaded[t]) = Len(rows)
             /\ \A i \in 1 .. Len(rows) : Agrees(t, loaded[t][i], rows[i])
  BY TableLoaded DEF SettingsTypeOK, Faithful

LEMMA WholeTable ==
  ASSUME SettingsTypeOK, Faithful,
         NEW t \in TableName \ {"siteconf", "server", "pols"},
         loaded[t] # Null
  PROVE  /\ Len(stored[t]) \in Nat /\ Len(loaded[t]) = Len(stored[t])
         /\ DOMAIN stored[t] = 1 .. Len(stored[t])
         /\ \A i \in 1 .. Len(stored[t]) :
              Agrees(t, loaded[t][i], stored[t][i])
  <1>1. Selected(t, stored[t]) = stored[t]
    BY DEF Selected
  <1>2. DOMAIN stored[t] = 1 .. Len(stored[t]) /\ Rowed(stored[t])
    BY Stored DEF SettingsTypeOK
  <1> QED BY <1>1, <1>2, TableHeld DEF Rowed

LEMMA DeviceCount ==
  ASSUME SettingsTypeOK, Faithful
  PROVE  /\ devicesnum \in 0 .. MAXDEVS
         /\ devicesnum > 0 =>
              /\ loaded["devices"] # Null
              /\ devicesnum <= Len(stored["devices"])
  <1>1. MAXDEVS \in Nat
    BY Steps
  <1>2. CASE loaded["devices"] = Null
    BY <1>1, <1>2 DEF devicesnum
  <1>3. CASE loaded["devices"] # Null
    <2>1. /\ Len(loaded["devices"]) = Len(stored["devices"])
          /\ Len(stored["devices"]) \in Nat
      BY <1>3, WholeTable, Tabular
    <2> QED BY <1>1, <1>3, <2>1 DEF devicesnum
  <1> QED BY <1>2, <1>3

LEMMA DeviceFields ==
  ASSUME NEW d, NEW e, Agrees("devices", d, e)
  PROVE  /\ d.devname = AsText(e.devname) /\ d.devaddr = AsNumber(e.devaddr)
         /\ d.devtype = AsNumber(e.devtype) /\ d.comtype = AsNumber(e.comtype)
         /\ d.port = AsNumber(e.port)
  <1>1. \A k \in 1 .. 9 :
          d[devices[k].name] = Read(devices[k], e[devices[k].name])
    BY Tabular DEF Agrees, devices
  <1> QED BY <1>1 DEF devices, Text, Number, Read

LEMMA RowFields ==
  ASSUME NEW t \in {"sitepols", "sbparam", "polsalarm", "ctlparam"},
         NEW d, NEW e, Agrees(t, d, e)
  PROVE  /\ d.devname = AsText(e.devname) /\ d.devaddr = AsNumber(e.devaddr)
         /\ d[Id(t)] = AsText(e[Id(t)])
         /\ t = "ctlparam" => d.paramname = AsText(e.paramname)
  <1>1. CASE t = "sitepols"
    <2>1. \A k \in 1 .. 16 :
            d[sitepols[k].name] = Read(sitepols[k], e[sitepols[k].name])
      BY <1>1, Tabular DEF Agrees, sitepols
    <2> QED BY <1>1, <2>1 DEF sitepols, Text, Number, Read, Id
  <1>2. CASE t = "sbparam"
    <2>1. \A k \in 1 .. 15 :
            d[sbparam[k].name] = Read(sbparam[k], e[sbparam[k].name])
      BY <1>2, Tabular DEF Agrees, sbparam
    <2> QED BY <1>2, <2>1 DEF sbparam, Text, Number, Read, Id
  <1>3. CASE t = "polsalarm"
    <2>1. \A k \in 1 .. 10 :
            d[polsalarm[k].name] = Read(polsalarm[k], e[polsalarm[k].name])
      BY <1>3, Tabular DEF Agrees, polsalarm
    <2> QED BY <1>3, <2>1 DEF polsalarm, Text, Number, Read, Id
  <1>4. CASE t = "ctlparam"
    <2>1. \A k \in 1 .. 9 :
            d[ctlparam[k].name] = Read(ctlparam[k], e[ctlparam[k].name])
      BY <1>4, Tabular DEF Agrees, ctlparam
    <2> QED BY <1>4, <2>1 DEF ctlparam, Text, Number, Read, Id
  <1> QED BY <1>1, <1>2, <1>3, <1>4

LEMMA SubstanceFields ==
  ASSUME NEW d, NEW e, Agrees("sitesbs", d, e)
  PROVE  d.sbid = AsText(e.sbid) /\ d.sbtype = AsNumber(e.sbtype)
  <1>1. \A k \in 1 .. 4 :
          d[sitesbs[k].name] = Read(sitesbs[k], e[sitesbs[k].name])
    BY Tabular DEF Agrees, sitesbs
  <1> QED BY <1>1 DEF sitesbs, Text, Number, Read

LEMMA OpenDevice ==
  ASSUME SettingsTypeOK, Faithful, Lined,
         NEW i \in 1 .. MAXDEVS, ctx[i] # Null
  PROVE  LET e == stored["devices"][i]
             d == loaded["devices"][i]
         IN  /\ i \in 1 .. devicesnum
             /\ i \in DOMAIN stored["devices"]
             /\ e \in StoredRows("devices")
             /\ Agrees("devices", d, e)
             /\ OnRs485(e)
             /\ ctx[i] = [port |-> AsNumber(e.port),
                          slave |-> AsNumber(e.devaddr)]
  <1>0. MAXDEVS \in Nat
    BY Steps
  <1>1. /\ i <= devicesnum /\ Serial(loaded["devices"][i])
        /\ ctx[i] = Line(loaded["devices"][i])
    BY DEF Lined
  <1>2. devicesnum \in 0 .. MAXDEVS /\ i \in 1 .. devicesnum
    BY <1>0, <1>1, DeviceCount
  <1>3. loaded["devices"] # Null /\ i <= Len(stored["devices"])
    BY <1>2, DeviceCount
  <1>4. /\ DOMAIN stored["devices"] = 1 .. Len(stored["devices"])
        /\ Len(stored["devices"]) \in Nat
        /\ \A j \in 1 .. Len(stored["devices"]) :
             Agrees("devices", loaded["devices"][j], stored["devices"][j])
    BY <1>3, WholeTable, Tabular
  <1>5. i \in DOMAIN stored["devices"]
        /\ Agrees("devices", loaded["devices"][i], stored["devices"][i])
    BY <1>3, <1>4
  <1>6. stored["devices"][i] \in StoredRows("devices")
    BY <1>5 DEF StoredRows
  <1>7. OnRs485(stored["devices"][i])
    BY <1>1, <1>5, DeviceFields DEF Serial, OnRs485
  <1>8. ctx[i] = [port |-> AsNumber(stored["devices"][i].port),
                  slave |-> AsNumber(stored["devices"][i].devaddr)]
    BY <1>1, <1>5, DeviceFields DEF Line
  <1> QED BY <1>2, <1>5, <1>6, <1>7, <1>8

(***************************************************************************)
(* What a loop reads over the line of one device is what is to be read of  *)
(* it; J are the rows that the loop considers.                             *)
(***************************************************************************)
LEMMA ReadOver ==
  ASSUME SettingsTypeOK, Faithful, Lined,
         NEW t \in {"sitepols", "sbparam", "polsalarm"}, loaded[t] # Null,
         NEW J \in SUBSET (1 .. Len(stored[t])),
         \A j \in 1 .. Len(stored[t]) : j \in J <=> ToBeRead(t, stored[t][j]),
         NEW i \in 1 .. MAXDEVS, ctx[i] # Null
  PROVE  {<<t, r[Id(t)], ctx[i]>> :
            r \in {r \in {loaded[t][j] : j \in J} :
                     NamesDevice(r, loaded["devices"][i])}}
           = Readings(t, stored["devices"][i])
  <1> DEFINE e == stored["devices"][i]
             d == loaded["devices"][i]
             line == [port |-> AsNumber(e.port), slave |-> AsNumber(e.devaddr)]
             rs == {r \in {loaded[t][j] : j \in J} : NamesDevice(r, d)}
             ss == {r \in StoredRows(t) : ToBeRead(t, r) /\ Concerns(r, e)}
  <1>1. ctx[i] = line /\ Agrees("devices", d, e)
    BY OpenDevice
  <1>2. d.devname = AsText(e.devname) /\ d.devaddr = AsNumber(e.devaddr)
    BY <1>1, DeviceFields
  <1>3. /\ DOMAIN stored[t] = 1 .. Len(stored[t])
        /\ \A j \in 1 .. Len(stored[t]) :
             Agrees(t, loaded[t][j], stored[t][j])
    BY WholeTable, Tabular
  <1>4. ASSUME NEW j \in 1 .. Len(stored[t])
        PROVE  /\ loaded[t][j][Id(t)] = AsText(stored[t][j][Id(t)])
               /\ NamesDevice(loaded[t][j], d) <=> Concerns(stored[t][j], e)
    <2>1. Agrees(t, loaded[t][j], stored[t][j])
      BY <1>3
    <2> QED BY <1>2, <2>1, RowFields DEF NamesDevice, Concerns
  <1>5. ASSUME NEW x \in {<<t, r[Id(t)], ctx[i]>> : r \in rs}
        PROVE  x \in {<<t, AsText(r[Id(t)]), line>> : r \in ss}
    <2>1. PICK j \in J : NamesDevice(loaded[t][j], d)
                         /\ x = <<t, loaded[t][j][Id(t)], ctx[i]>>
      BY <1>5
    <2>2. stored[t][j] \in ss
      BY <1>3, <1>4, <2>1 DEF StoredRows
    <2> QED BY <1>1, <1>4, <2>1, <2>2
  <1>6. ASSUME NEW x \in {<<t, AsText(r[Id(t)]), line>> : r \in ss}
        PROVE  x \in {<<t, r[Id(t)], ctx[i]>> : r \in rs}
    <2>1. PICK r \in ss : x = <<t, AsText(r[Id(t)]), line>>
      BY <1>6
    <2>2. PICK j \in 1 .. Len(stored[t]) : r = stored[t][j]
      BY <1>3, <2>1 DEF StoredRows
    <2>3. j \in J /\ loaded[t][j] \in rs
      BY <1>4, <2>1, <2>2
    <2> QED BY <1>1, <1>4, <2>1, <2>2, <2>3
  <1> HIDE DEF rs, ss, line, e, d
  <1>7. {<<t, r[Id(t)], ctx[i]>> : r \in rs}
          = {<<t, AsText(r[Id(t)]), line>> : r \in ss}
    BY <1>5, <1>6
  <1> QED BY <1>7 DEF Readings, rs, ss, line, e, d

LEMMA ReadThrough ==
  ASSUME SettingsTypeOK, Faithful, Lined, ReadAsStored,
         NEW t \in {"sitepols", "sbparam", "polsalarm"}, loaded[t] # Null,
         NEW J \in SUBSET (1 .. Len(stored[t])),
         \A j \in 1 .. Len(stored[t]) : j \in J <=> ToBeRead(t, stored[t][j]),
         ReadAll(t, {loaded[t][j] : j \in J}, Id(t))
  PROVE  ReadAsStored'
  <1> DEFINE open == {i \in 1 .. devicesnum : ctx[i] # Null}
             Over(i) == {<<t, r[Id(t)], ctx[i]>> :
                           r \in {r \in {loaded[t][j] : j \in J} :
                                    NamesDevice(r, loaded["devices"][i])}}
  <1>1. /\ read' = read \cup UNION {Over(i) : i \in open}
        /\ seen' = seen \cup {t}
        /\ UNCHANGED <<stored, loaded, step, ctx, refused>>
    BY DEF ReadAll
  <1>2. open \subseteq 1 .. MAXDEVS
    BY DeviceCount, Steps
  <1>3. \A i \in open : Over(i) = Readings(t, stored["devices"][i])
    BY <1>2, ReadOver
  <1> HIDE DEF Over, open
  <1>4. ASSUME NEW x \in read'
        PROVE  \E d \in StoredRows("devices") :
                 OnRs485(d) /\ x \in Readings(x[1], d)
    <2>1. CASE x \in read
      BY <2>1 DEF ReadAsStored
    <2>2. CASE x \in UNION {Over(i) : i \in open}
      <3>1. PICK i \in open : x \in Readings(t, stored["devices"][i])
        BY <1>3, <2>2
      <3>2. x[1] = t
        BY <3>1 DEF Readings
      <3>3. /\ stored["devices"][i] \in StoredRows("devices")
            /\ OnRs485(stored["devices"][i])
        BY <1>2, OpenDevice DEF open
      <3> QED BY <3>1, <3>2, <3>3
    <2> QED BY <1>1, <2>1, <2>2
  <1>5. ASSUME NEW u \in seen' \ {"pols"},
               NEW i \in DOMAIN stored["devices"] \cap (1 .. MAXDEVS),
               ctx[i] # Null
        PROVE  Readings(u, stored["devices"][i]) \subseteq read'
    <2>1. CASE u \in seen
      BY <1>1, <1>5, <2>1 DEF ReadAsStored
    <2>2. CASE u = t
      <3>1. i \in open
        BY <1>5, OpenDevice DEF open
      <3> QED BY <1>1, <1>3, <2>2, <3>1
    <2> QED BY <1>1, <2>1, <2>2
  <1>6. stored' = stored /\ ctx' = ctx
    BY <1>1
  <1>7. /\ \A x \in read' : \E d \in StoredRows("devices")' :
             OnRs485(d)' /\ x \in Readings(x[1], d)'
        /\ \A u \in seen' \ {"pols"} :
             \A i \in DOMAIN stored'["devices"] \cap (1 .. MAXDEVS) :
               ctx'[i] # Null =>
                 Readings(u, stored["devices"][i])' \subseteq read'
    BY <1>4, <1>5, <1>6
       DEF StoredRows, Readings, ToBeRead, Concerns, OnRs485
  <1> QED BY <1>7 DEF ReadAsStored

LEMMA SetRead ==
  ASSUME SettingsTypeOK, Faithful, Lined, ReadAsStored,
         NEW sb \in Sbid, SetValue(sb)
  PROVE  ReadAsStored'
  <1> DEFINE t == "ctlparam"
             open == {i \in 1 .. devicesnum : /\ ctx[i] # Null
                        /\ loaded.devices[i].devtype = 1
                        /\ \E r \in Rows(t) :
                             /\ r.sbid = sb /\ r.paramname = "SP"
                             /\ NamesDevice(r, loaded.devices[i])}
             new == {<<t, sb, ctx[i]>> : i \in open}
  <1>1. /\ read' = read \cup new /\ seen' = seen
        /\ loaded[t] # Null
        /\ UNCHANGED <<stored, loaded, step, ctx, refused>>
    BY DEF SetValue
  <1>2. open \subseteq 1 .. MAXDEVS
    BY DeviceCount, Steps
  <1>3. ASSUME NEW x \in new
        PROVE  \E d \in StoredRows("devices") :
                 OnRs485(d) /\ x \in Readings(x[1], d)
    <2>1. PICK i \in open : x = <<t, sb, ctx[i]>>
      OBVIOUS
    <2> DEFINE e == stored["devices"][i]
               d == loaded["devices"][i]
    <2>2. i \in 1 .. MAXDEVS /\ ctx[i] # Null
      BY <1>2
    <2>3. /\ e \in StoredRows("devices") /\ OnRs485(e)
          /\ Agrees("devices", d, e)
          /\ ctx[i] = [port |-> AsNumber(e.port), slave |-> AsNumber(e.devaddr)]
      BY <2>2, OpenDevice
    <2>4. PICK j \in 1 .. Len(loaded[t]) :
            /\ loaded[t][j].sbid = sb /\ loaded[t][j].paramname = "SP"
            /\ NamesDevice(loaded[t][j], d)
      BY DEF Rows
    <2>5. /\ j \in DOMAIN stored[t]
          /\ Agrees(t, loaded[t][j], stored[t][j])
      BY <1>1, WholeTable, Tabular
    <2> DEFINE r == stored[t][j]
    <2>6. /\ d.devname = AsText(e.devname) /\ d.devaddr = AsNumber(e.devaddr)
      BY <2>3, DeviceFields
    <2>7. /\ loaded[t][j].devname = AsText(r.devname)
          /\ loaded[t][j].devaddr = AsNumber(r.devaddr)
          /\ loaded[t][j][Id(t)] = AsText(r[Id(t)])
          /\ loaded[t][j].paramname = AsText(r.paramname)
      BY <2>5, RowFields
    <2>8. Id(t) = "sbid"
      BY DEF Id
    <2>9. r \in StoredRows(t) /\ ToBeRead(t, r) /\ Concerns(r, e)
      <3>1. r \in StoredRows(t)
        BY <2>5 DEF StoredRows
      <3>2. ToBeRead(t, r)
        BY <2>4, <2>7 DEF ToBeRead
      <3>3. Concerns(r, e)
        BY <2>4, <2>6, <2>7 DEF NamesDevice, Concerns
      <3> QED BY <3>1, <3>2, <3>3
    <2>10. AsText(r[Id(t)]) = sb
      BY <2>4, <2>7, <2>8
    <2>11. x \in Readings(t, e)
      <3> HIDE DEF r, e, d, open
      <3> QED BY <2>1, <2>3, <2>9, <2>10 DEF Readings
    <2>12. x[1] = t
      BY <2>1
    <2> QED BY <2>3, <2>11, <2>12
  <1> HIDE DEF new, open
  <1>4. /\ \A x \in read' : \E d \in StoredRows("devices")' :
             OnRs485(d)' /\ x \in Readings(x[1], d)'
        /\ \A u \in seen' \ {"pols"} :
             \A i \in DOMAIN stored'["devices"] \cap (1 .. MAXDEVS) :
               ctx'[i] # Null =>
                 Readings(u, stored["devices"][i])' \subseteq read'
    <2>1. /\ \A x \in read : \E d \in StoredRows("devices") :
             OnRs485(d) /\ x \in Readings(x[1], d)
          /\ \A u \in seen \ {"pols"} :
             \A i \in DOMAIN stored["devices"] \cap (1 .. MAXDEVS) :
               ctx[i] # Null => Readings(u, stored["devices"][i]) \subseteq read
      BY DEF ReadAsStored
    <2>2. stored' = stored /\ ctx' = ctx
      BY <1>1
    <2> QED BY <1>1, <1>3, <2>1, <2>2
            DEF StoredRows, Readings, ToBeRead, Concerns, OnRs485
  <1> QED BY <1>4 DEF ReadAsStored

-----------------------------------------------------------------------------
(***************************************************************************)
(* The three threads that go through a whole table.                        *)
(***************************************************************************)
LEMMA SitepolsRead ==
  ASSUME SettingsInv, ReadAsStored, gather_sitepols
  PROVE  ReadAsStored'
  <1> DEFINE t == "sitepols"
             J == 1 .. Len(stored[t])
  <1>1. SettingsTypeOK /\ Faithful /\ Lined /\ loaded[t] # Null
    BY DEF SettingsInv, gather_sitepols, Present
  <1>2. Rows(t) = {loaded[t][j] : j \in J}
    BY <1>1, WholeTable, Tabular DEF Rows
  <1>3. \A j \in J : j \in J <=> ToBeRead(t, stored[t][j])
    BY DEF ToBeRead
  <1>4. ReadAll(t, {loaded[t][j] : j \in J}, Id(t))
    BY <1>2 DEF gather_sitepols, Id
  <1> QED BY <1>1, <1>3, <1>4, ReadThrough

LEMMA AlarmsRead ==
  ASSUME SettingsInv, ReadAsStored, recvalarm_routine
  PROVE  ReadAsStored'
  <1> DEFINE t == "polsalarm"
             J == 1 .. Len(stored[t])
  <1>1. SettingsTypeOK /\ Faithful /\ Lined /\ loaded[t] # Null
    BY DEF SettingsInv, recvalarm_routine, Present
  <1>2. Rows(t) = {loaded[t][j] : j \in J}
    BY <1>1, WholeTable, Tabular DEF Rows
  <1>3. \A j \in J : j \in J <=> ToBeRead(t, stored[t][j])
    BY DEF ToBeRead
  <1>4. ReadAll(t, {loaded[t][j] : j \in J}, Id(t))
    BY <1>2 DEF recvalarm_routine, Id
  <1> QED BY <1>1, <1>3, <1>4, ReadThrough

(***************************************************************************)
(* Of the parameters those whose substance is in sitesbs, with a type.     *)
(***************************************************************************)
LEMMA SbparamRead ==
  ASSUME SettingsInv, ReadAsStored, gather_sbparam
  PROVE  ReadAsStored'
  <1> DEFINE t == "sbparam"
             u == "sitesbs"
             Typed(r) ==
               \E s \in Rows(u) : s.sbtype \in 0 .. 2 /\ s.sbid = r.sbid
             J == {j \in 1 .. Len(stored[t]) : Typed(loaded[t][j])}
  <1>1. /\ SettingsTypeOK /\ Faithful /\ Lined
        /\ loaded[t] # Null /\ loaded[u] # Null
    BY DEF SettingsInv, gather_sbparam, Present
  <1>2. /\ Len(loaded[t]) = Len(stored[t])
        /\ \A j \in 1 .. Len(stored[t]) : Agrees(t, loaded[t][j], stored[t][j])
    BY <1>1, WholeTable, Tabular
  <1>3. /\ Len(loaded[u]) = Len(stored[u])
        /\ DOMAIN stored[u] = 1 .. Len(stored[u])
        /\ \A j \in 1 .. Len(stored[u]) : Agrees(u, loaded[u][j], stored[u][j])
    BY <1>1, WholeTable, Tabular
  <1>4. {r \in Rows(t) : Typed(r)} = {loaded[t][j] : j \in J}
    <2> HIDE DEF Typed
    <2> QED BY <1>2 DEF Rows
  <1>5. ASSUME NEW j \in 1 .. Len(stored[t])
        PROVE  j \in J <=> ToBeRead(t, stored[t][j])
    <2>1. loaded[t][j].sbid = AsText(stored[t][j].sbid)
      BY <1>2, RowFields DEF Id
    <2>2. \A n \in 1 .. Len(stored[u]) :
             /\ loaded[u][n].sbid = AsText(stored[u][n].sbid)
             /\ loaded[u][n].sbtype = AsNumber(stored[u][n].sbtype)
      BY <1>3, SubstanceFields
    <2>3. Typed(loaded[t][j]) <=>
            \E n \in 1 .. Len(stored[u]) :
              /\ loaded[u][n].sbtype \in 0 .. 2
              /\ loaded[u][n].sbid = loaded[t][j].sbid
      BY <1>3 DEF Rows
    <2>4. ToBeRead(t, stored[t][j]) <=>
            \E n \in 1 .. Len(stored[u]) :
              /\ AsNumber(stored[u][n].sbtype) \in 0 .. 2
              /\ AsText(stored[u][n].sbid) = AsText(stored[t][j].sbid)
      BY <1>3 DEF ToBeRead, StoredRows
    <2> HIDE DEF Typed
    <2> QED BY <2>1, <2>2, <2>3, <2>4
  <1>6. ReadAll(t, {loaded[t][j] : j \in J}, Id(t))
    BY <1>4 DEF gather_sbparam, Id
  <1>7. J \in SUBSET (1 .. Len(stored[t]))
    OBVIOUS
  <1> HIDE DEF J, Typed
  <1> QED BY <1>1, <1>5, <1>6, <1>7, ReadThrough

-----------------------------------------------------------------------------
(***************************************************************************)
(* A step that leaves the tables and the lines alone.                      *)
(***************************************************************************)
LEMMA Untouched ==
  ASSUME SettingsInv, UNCHANGED <<stored, loaded, ctx>>,
         step' \in {step, Running, Dead},
         step < Running => read' = read /\ seen' = seen
  PROVE  SettingsInv'
  <1>1. /\ stored' = stored /\ loaded' = loaded /\ ctx' = ctx
        /\ SettingsTypeOK /\ Faithful /\ Lined /\ InOrder
    BY DEF SettingsInv
  <1>2. SettingsTypeOK'
    BY <1>1, Steps DEF SettingsTypeOK
  <1>3. Faithful'
    BY <1>1 DEF Faithful
  <1>4. Lined'
    BY <1>1 DEF Lined, devicesnum
  <1>5. InOrder'
    <2>1. CASE step' = step
      BY <1>1, <2>1 DEF InOrder
    <2>2. CASE step' \in {Running, Dead}
      <3>1. step' > Loads /\ step' >= Running /\ step' \in Nat
            /\ Loads \in Nat /\ Running \in Nat
        BY <2>2, Steps
      <3> QED BY <3>1 DEF InOrder
    <2> QED BY <2>1, <2>2
  <1> QED BY <1>2, <1>3, <1>4, <1>5 DEF SettingsInv

LEMMA NothingReadYet ==
  ASSUME SettingsInv, read' = {}, seen' = {}
  PROVE  ReadAsStored'
  BY DEF ReadAsStored

LEMMA SettingsStart ==
  ASSUME SettingsInit
  PROVE  SettingsInv /\ ReadAsStored
  <1>1. SettingsTypeOK
    BY Steps DEF SettingsInit, SettingsTypeOK
  <1>2. Faithful
    BY DEF SettingsInit, Faithful
  <1>3. Lined /\ InOrder
    BY DEF SettingsInit, Lined, InOrder
  <1>4. ReadAsStored
    BY DEF SettingsInit, ReadAsStored
  <1> QED BY <1>1, <1>2, <1>3, <1>4 DEF SettingsInv

LEMMA TableLoad ==
  ASSUME SettingsInv, LoadNext
  PROVE  SettingsInv' /\ ReadAsStored'
  <1> DEFINE t == Order[step + 1]
  <1>1. /\ SettingsTypeOK /\ Faithful /\ Lined /\ InOrder
        /\ stored' = stored /\ ctx' = ctx /\ step' = step + 1
        /\ read' = read /\ seen' = seen
        /\ step \in Nat /\ step < Loads
    BY DEF SettingsInv, SettingsTypeOK, LoadNext
  <1>2. t \in TableName
    BY <1>1, Steps, InTurn
  <1>3. \/ loaded' = [loaded EXCEPT ![t] = Load(t, stored[t])]
        \/ loaded' = loaded
    BY DEF LoadNext
  <1> HIDE DEF t
  <1>4. step' <= Loads /\ step' < Running /\ step' <= Dead
    BY <1>1, Steps
  <1>5. \A i \in 1 .. MAXDEVS : ctx[i] = Null
    BY <1>1, Steps DEF InOrder
  <1>6. read = {} /\ seen = {}
    BY <1>1, <1>4, Steps DEF InOrder
  <1>7. SettingsTypeOK'
    BY <1>1, <1>2, <1>3, <1>4 DEF SettingsTypeOK
  <1>8. Faithful'
    BY <1>1, <1>2, <1>3 DEF SettingsTypeOK, Faithful
  <1>9. Lined'
    BY <1>1, <1>5 DEF Lined
  <1>10. InOrder'
    BY <1>1, <1>5, <1>6 DEF InOrder
  <1> QED BY <1>1, <1>6, <1>7, <1>8, <1>9, <1>10, NothingReadYet
          DEF SettingsInv

LEMMA LineOpened ==
  ASSUME SettingsInv, OpenLine
  PROVE  SettingsInv' /\ ReadAsStored'
  <1> DEFINE i == step - Loads + 1
  <1>1. /\ SettingsTypeOK /\ Faithful /\ Lined /\ InOrder
        /\ stored' = stored /\ loaded' = loaded /\ step' = step + 1
        /\ read' = read /\ seen' = seen
        /\ step \in Nat /\ step >= Loads /\ i <= devicesnum
    BY DEF SettingsInv, SettingsTypeOK, OpenLine
  <1>2. i \in 1 .. MAXDEVS /\ step' < Running /\ step < Running /\ step' > Loads
    BY <1>1, DeviceCount, Steps
  <1>3. \/ /\ Serial(loaded["devices"][i])
           /\ ctx' = [ctx EXCEPT ![i] = Line(loaded["devices"][i])]
        \/ ctx' = ctx
    BY DEF OpenLine, Slot
  <1> HIDE DEF i
  <1>4. read = {} /\ seen = {}
    BY <1>1, <1>2 DEF InOrder
  <1>5. devicesnum' = devicesnum
    BY <1>1 DEF devicesnum
  <1>6. SettingsTypeOK'
    BY <1>1, <1>2, <1>3, Steps DEF SettingsTypeOK
  <1>7. Faithful'
    BY <1>1 DEF Faithful
  <1>8. Lined'
    <2>1. ASSUME NEW n \in 1 .. MAXDEVS, ctx'[n] # Null
          PROVE  /\ n <= devicesnum /\ Serial(loaded["devices"][n])
                 /\ ctx'[n] = Line(loaded["devices"][n])
      <3>1. CASE n = i /\ ctx' # ctx
        <4>1. ctx'[n] = Line(loaded["devices"][n])
          BY <1>1, <1>2, <1>3, <3>1 DEF SettingsTypeOK
        <4> QED BY <1>1, <1>3, <3>1, <4>1
      <3>2. CASE n # i \/ ctx' = ctx
        <4>1. ctx'[n] = ctx[n]
          BY <1>1, <1>3, <3>2 DEF SettingsTypeOK
        <4> QED BY <1>1, <2>1, <4>1 DEF Lined
      <3> QED BY <3>1, <3>2
    <2> QED BY <1>1, <1>5, <2>1 DEF Lined, Serial, Line
  <1>9. InOrder'
    BY <1>1, <1>2, <1>4, Steps DEF InOrder
  <1> QED BY <1>1, <1>4, <1>6, <1>7, <1>8, <1>9, NothingReadYet
          DEF SettingsInv

(***************************************************************************)
(* A step that reads nothing.                                              *)
(***************************************************************************)
LEMMA NothingRead ==
  ASSUME ReadAsStored, stored' = stored, ctx' = ctx, read' = read,
         seen' = seen \/ seen' = seen \cup {"pols"}
  PROVE  ReadAsStored'
  <1>1. /\ \A x \in read : \E d \in StoredRows("devices") :
             OnRs485(d) /\ x \in Readings(x[1], d)
        /\ \A t \in seen \ {"pols"} :
             \A i \in DOMAIN stored["devices"] \cap (1 .. MAXDEVS) :
               ctx[i] # Null => Readings(t, stored["devices"][i]) \subseteq read
    BY DEF ReadAsStored
  <1>2. seen' \ {"pols"} = seen \ {"pols"}
    OBVIOUS
  <1>3. /\ \A x \in read' : \E d \in StoredRows("devices")' :
             OnRs485(d)' /\ x \in Readings(x[1], d)'
        /\ \A t \in seen' \ {"pols"} :
             \A i \in DOMAIN stored'["devices"] \cap (1 .. MAXDEVS) :
               ctx'[i] # Null =>
                 Readings(t, stored["devices"][i])' \subseteq read'
    BY <1>1, <1>2 DEF StoredRows, Readings, ToBeRead, Concerns, OnRs485
  <1> QED BY <1>3 DEF ReadAsStored

LEMMA GatherRestart ==
  ASSUME SettingsInv, Restart
  PROVE  SettingsInv' /\ ReadAsStored'
  <1>1. /\ stored' = stored /\ step' = 0 /\ read' = {} /\ seen' = {}
        /\ loaded' = [t \in TableName |-> Null]
        /\ ctx' = [i \in 1 .. MAXDEVS |-> Null]
    BY DEF Restart
  <1>2. SettingsTypeOK'
    BY <1>1, Steps DEF SettingsInv, SettingsTypeOK
  <1>3. Faithful'
    BY <1>1 DEF Faithful
  <1>4. Lined' /\ InOrder'
    BY <1>1 DEF Lined, InOrder
  <1> QED BY <1>1, <1>2, <1>3, <1>4, NothingReadYet DEF SettingsInv

LEMMA SettingsStep ==
  ASSUME SettingsInv, ReadAsStored, [SettingsNext]_settingsVars
  PROVE  SettingsInv' /\ ReadAsStored'
  <1>1. CASE LoadNext
    BY <1>1, TableLoad
  <1>2. CASE Spill
    <2>1. UNCHANGED <<stored, loaded, ctx>> /\ step' = Dead
          /\ read' = read /\ seen' = seen
      BY <1>2 DEF Spill
    <2> QED BY <2>1, Untouched, NothingRead
  <1>3. CASE OpenLine
    BY <1>3, LineOpened
  <1>4. CASE StartThreads
    <2>1. UNCHANGED <<stored, loaded, ctx>> /\ step' = Running
          /\ read' = read /\ seen' = seen
      BY <1>4 DEF StartThreads
    <2> QED BY <2>1, Untouched, NothingRead
  <1>5. CASE gather_sitepols
    <2>1. UNCHANGED <<stored, loaded, ctx>> /\ step' = step /\ step = Running
      BY <1>5 DEF gather_sitepols, ReadAll
    <2>2. ~(step < Running)
      BY <2>1, Steps
    <2> QED BY <1>5, <2>1, <2>2, Untouched, SitepolsRead
  <1>6. CASE gather_sbparam
    <2>1. UNCHANGED <<stored, loaded, ctx>> /\ step' = step /\ step = Running
      BY <1>6 DEF gather_sbparam, ReadAll
    <2>2. ~(step < Running)
      BY <2>1, Steps
    <2> QED BY <1>6, <2>1, <2>2, Untouched, SbparamRead
  <1>7. CASE recvalarm_routine
    <2>1. UNCHANGED <<stored, loaded, ctx>> /\ step' = step /\ step = Running
      BY <1>7 DEF recvalarm_routine, ReadAll
    <2>2. ~(step < Running)
      BY <2>1, Steps
    <2> QED BY <1>7, <2>1, <2>2, Untouched, AlarmsRead
  <1>8. CASE Aggregate
    <2>1. UNCHANGED <<stored, loaded, ctx>> /\ step' = step /\ step = Running
          /\ read' = read /\ seen' = seen \cup {"pols"}
      BY <1>8 DEF Aggregate
    <2>2. ~(step < Running)
      BY <2>1, Steps
    <2> QED BY <2>1, <2>2, Untouched, NothingRead
  <1>9. CASE AggregateDies
    <2>1. UNCHANGED <<stored, loaded, ctx>> /\ step' = Dead
          /\ read' = read /\ seen' = seen
      BY <1>9 DEF AggregateDies
    <2> QED BY <2>1, Untouched, NothingRead
  <1>10. ASSUME NEW sb \in Sbid, SetValue(sb)
         PROVE  SettingsInv' /\ ReadAsStored'
    <2>1. UNCHANGED <<stored, loaded, ctx>> /\ step' = step /\ step = Running
      BY <1>10 DEF SetValue
    <2>2. ~(step < Running)
      BY <2>1, Steps
    <2>3. ReadAsStored'
      BY <1>10, SetRead DEF SettingsInv
    <2> QED BY <2>1, <2>2, <2>3, Untouched
  <1>11. ASSUME NEW sb \in Sbid, SetDies(sb)
         PROVE  SettingsInv' /\ ReadAsStored'
    <2>1. UNCHANGED <<stored, loaded, ctx>> /\ step' = Dead
          /\ read' = read /\ seen' = seen
      BY <1>11 DEF SetDies
    <2> QED BY <2>1, Untouched, NothingRead
  <1>12. CASE Restart
    BY <1>12, GatherRestart
  <1>13. CASE UNCHANGED settingsVars
    <2>1. UNCHANGED <<stored, loaded, ctx>> /\ step' = step
          /\ read' = read /\ seen' = seen
      BY <1>13 DEF settingsVars
    <2> QED BY <2>1, Untouched, NothingRead
  <1> QED BY <1>1, <1>2, <1>3, <1>4, <1>5, <1>6, <1>7, <1>8, <1>9, <1>10,
             <1>11, <1>12, <1>13 DEF SettingsNext

(***************************************************************************)
(* The settings: no step loads a table late, opens a line late or reads    *)
(* early.                                                                  *)
(***************************************************************************)
THEOREM SettingsCorrect == SettingsSpec => [](SettingsInv /\ ReadAsStored)
  <1>1. SettingsInit => SettingsInv /\ ReadAsStored
    BY SettingsStart
  <1>2. SettingsInv /\ ReadAsStored /\ [SettingsNext]_settingsVars
          => (SettingsInv /\ ReadAsStored)'
    BY SettingsStep
  <1> QED BY <1>1, <1>2, PTL DEF SettingsSpec

(***************************************************************************)
(* Each table is in the program as it is in the database, for any tables   *)
(* that the database may hold.                                             *)
(***************************************************************************)
THEOREM LoadedRight == SettingsSpec => []LoadedAsStored
  <1>1. SettingsInv => LoadedAsStored
    <2> SUFFICES ASSUME SettingsInv, NEW t \in TableName, loaded[t] # Null
                 PROVE  IF t = "siteconf" THEN Agrees(t, loaded[t], stored[t])
                        ELSE LET rows == Selected(t, stored[t])
                             IN  /\ Len(loaded[t]) = Len(rows)
                                 /\ \A i \in DOMAIN rows :
                                      Agrees(t, loaded[t][i], rows[i])
      BY DEF LoadedAsStored
    <2>1. CASE t = "siteconf"
      BY <2>1, ConfLoaded DEF SettingsInv, Faithful
    <2>2. CASE t # "siteconf"
      <3> DEFINE rows == Selected(t, stored[t])
      <3>1. /\ Rowed(rows) /\ Len(loaded[t]) = Len(rows)
            /\ \A i \in 1 .. Len(rows) : Agrees(t, loaded[t][i], rows[i])
        BY <2>2, TableHeld DEF SettingsInv
      <3>2. DOMAIN rows = 1 .. Len(rows)
        BY <3>1 DEF Rowed
      <3> QED BY <2>2, <3>1, <3>2
    <2> QED BY <2>1, <2>2
  <1> QED BY <1>1, SettingsCorrect, PTL

(***************************************************************************)
(* What a row names is read over the line of a device that the row names,  *)
(* and nothing is left out, for any number of devices and lines and any    *)
(* tables.                                                                 *)
(***************************************************************************)
THEOREM ReadRight == SettingsSpec => []ReadAsStored
  BY SettingsCorrect, PTL
=============================================================================

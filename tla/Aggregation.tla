----------------------------- MODULE Aggregation -----------------------------
(***************************************************************************)
(* How gather aggregates what it collects: ten-second readings into        *)
(* rtdata, five-minute rows into minutedata, hourly rows into hourlydata,  *)
(* daily rows into dailydata, for one measured quantity.                   *)
(*                                                                         *)
(* Each aggregating thread is started by its timer, sleeps (7, 37 or 57    *)
(* seconds, so that the thread below it is done), queries the rows of the  *)
(* table below that are at most one interval old, inserts a row of its own *)
(* and deletes what is old below.  Nothing marks a row as aggregated: that *)
(* each row is counted once follows from the times alone.                  *)
(*                                                                         *)
(* The timers are those of TimerPromise, which ClockSync implements; the   *)
(* clock is not set meanwhile.                                             *)
(*                                                                         *)
(* The releases of the program differ in little: in how long rows are      *)
(* kept, in whether a thread takes the time before its sleep or after it,  *)
(* and in the clock the queries ask: the first of them compares rows under *)
(* local time with universal time.  `release' says which one runs.         *)
(***************************************************************************)
EXTENDS Integers, Functions

CONSTANTS
  Interval,     \* of the timers: 0 collection, 1 minute, 2 hour, 3 day
  Sleep,        \* before an aggregation: 7, 37, 57 seconds
  Unit,         \* to what the time of a row is cut: minute, hour, day
  Keep,         \* how long a release lets rtdata and minutedata keep a row
  Zone,         \* by how much the clock a release's queries ask is behind
  Early,        \* the releases whose threads take the time before they sleep
  ERROR_TIMES,  \* failed readings after which the system reboots
  Slow,         \* bound: the longest that a reading takes, more than the
                \* sleep if registers are left unanswered; they may overlap
  Late,         \* bound: the longest that an aggregation takes
  First,        \* the time at which gather starts for the first time
  MaxClock,     \* bounds
  MaxBoot,
  MaxFail       \* for failed readings and database calls together

Level == 1 .. 3
Table == 0 .. 2         \* rtdata, minutedata, hourlydata
Release == {"present", "v4.3", "v3.7"}

ASSUME TimesAssumption ==
  /\ Interval \in [0 .. 3 -> Nat \ {0}]
  /\ Sleep \in [Level -> Nat] /\ Unit \in [Level -> Nat \ {0}]
  /\ Keep \in [Release -> [0 .. 1 -> Nat]] /\ Zone \in [Release -> Nat]
  /\ Early \subseteq Release
  /\ \A l \in Level :
       /\ Interval[l] % Interval[l - 1] = 0 /\ Interval[l] % Unit[l] = 0
       /\ Sleep[l] < Unit[l]
ASSUME SpeedAssumption ==
  /\ {ERROR_TIMES, Slow, Late, First, MaxClock, MaxBoot, MaxFail}
       \subseteq Nat
  /\ First <= MaxClock
  /\ 0 < Sleep[1] /\ Sleep[1] + Late < Interval[0]
  /\ \A l \in 2 .. 3 : Sleep[l - 1] + Late < Sleep[l]
  /\ Sleep[3] + Late < Interval[1]

VARIABLES
  release,              \* never changes
  clock,
  up,                   \* does gather run?
  reading,              \* times of the readings in progress
  modbus_retry_times,
  pc,                   \* what the thread of a level does
  fired,                \* when its timer expired
  table,                \* the rows, by time: how often each was aggregated
  tardy,                \* history: times of readings in rtdata that took as
                        \* long as the thread above sleeps, and were stored
                        \* after it had looked
  boots, fails,         \* counted for the bounds
  troubled              \* history: a reboot, or a failure of the database

threads == <<reading, pc, fired>>
bounds  == <<boots, fails, troubled>>
vars == <<release, clock, up, threads, modbus_retry_times, table, tardy,
          bounds>>

Empty == [t \in {} |-> 0]

(***************************************************************************)
(* Type correctness.                                                       *)
(***************************************************************************)
TypeOK ==
  /\ release \in Release
  /\ clock \in First .. MaxClock
  /\ up \in BOOLEAN
  /\ reading \in SUBSET (0 .. MaxClock)
  /\ modbus_retry_times \in 0 .. 2 * fails
  /\ pc \in [Level -> {"idle", "query", "record"}]
  /\ fired \in [Level -> 0 .. MaxClock]
  /\ DOMAIN table = Table
  /\ \A k \in Table : /\ DOMAIN table[k] \subseteq 0 .. MaxClock
                      /\ Range(table[k]) \subseteq Nat
  /\ tardy \subseteq 0 .. MaxClock
  /\ boots \in 0 .. MaxBoot /\ fails \in 0 .. MaxFail
  /\ troubled \in BOOLEAN

InitOf(r) ==
  /\ release = r
  /\ clock = First
  /\ up = TRUE
  /\ reading = {}
  /\ modbus_retry_times = 0
  /\ pc = [l \in Level |-> "idle"]
  /\ fired = [l \in Level |-> 0]
  /\ table = [k \in Table |-> Empty] /\ tardy = {}
  /\ boots = 0 /\ fails = 0 /\ troubled = FALSE

Init == InitOf("present")

-----------------------------------------------------------------------------
(***************************************************************************)
(* A second passes, and the timers that are due start their threads.       *)
(***************************************************************************)
Due(k) == up /\ (clock + 1) % Interval[k] = 0

TooManyErrors == modbus_retry_times > ERROR_TIMES

Tick ==
  /\ clock < MaxClock
  /\ \A t \in reading : clock < t + Slow
  /\ \A l \in Level : pc[l] # "idle" => clock < fired[l] + Sleep[l] + Late
  /\ ~(Due(0) /\ TooManyErrors)
  /\ clock' = clock + 1
  /\ reading' = IF Due(0) THEN reading \cup {clock'} ELSE reading
  /\ pc' = [l \in Level |-> IF Due(l) THEN "query" ELSE pc[l]]
  /\ fired' = [l \in Level |-> IF Due(l) THEN clock' ELSE fired[l]]
  /\ UNCHANGED <<release, up, modbus_retry_times, table, tardy, bounds>>

-----------------------------------------------------------------------------
(***************************************************************************)
(* timer_thread_sec: the time is taken first, then the register is read,   *)
(* after those before it, and the value is stored under that time; then    *)
(* the state of the pumps is read.  Each request may be left unanswered    *)
(* and is then made a second time, which takes four seconds together.      *)
(***************************************************************************)
WithRow(rows, t) ==     \* not counted yet
  [x \in DOMAIN rows \cup {t} |-> IF x \in DOMAIN rows THEN rows[x] ELSE 0]

Insert(k, t) == table' = [table EXCEPT ![k] = WithRow(@, t)]

Unanswered(n) == modbus_retry_times' = modbus_retry_times + n

Overdue(t) ==
  /\ clock >= t + Sleep[1]
  /\ t <= fired[1] - (IF pc[1] = "query" THEN Interval[1] ELSE 0)

ReadValue(t) ==
  /\ t \in reading
  /\ reading' = reading \ {t}
  /\ Insert(0, t)
  /\ tardy' = IF Overdue(t) THEN tardy \cup {t} ELSE tardy
  /\ \/ Unanswered(0) /\ UNCHANGED fails
     \/ \E n \in 1 .. 2 : Unanswered(n) /\ fails < MaxFail /\ fails' = fails + 1
  /\ UNCHANGED <<release, clock, up, pc, fired, boots, troubled>>

(***************************************************************************)
(* Neither does a value that is not a number, or a row that the database   *)
(* does not take, store anything.                                          *)
(***************************************************************************)
ReadNothing(t) ==
  /\ t \in reading
  /\ reading' = reading \ {t}
  /\ \E n \in 0 .. 2 : Unanswered(n)
  /\ fails < MaxFail /\ fails' = fails + 1
  /\ UNCHANGED <<release, clock, up, pc, fired, table, tardy, boots, troubled>>

-----------------------------------------------------------------------------
(***************************************************************************)
(* timer_thread_min, _hour, _day.                                          *)
(***************************************************************************)
Goto(l, p) == pc' = [pc EXCEPT ![l] = p]

Age(t) == clock - Zone[release] - t     \* as the database finds it

InWindow_bug(l, t) == Age(t) <= 2 * Interval[l]

InWindow(l, t) == Age(t) <= Interval[l]

Awake_bug(l) == clock >= fired[l]       \* without the sleep

Awake(l) == clock >= fired[l] + Sleep[l]

Query(l) ==
  /\ pc[l] = "query" /\ Awake(l)
  /\ table' = [table EXCEPT ![l - 1] =
                 [t \in DOMAIN @ |->
                    IF InWindow(l, t) THEN @[t] + 1 ELSE @[t]]]
  /\ Goto(l, "record")
  /\ UNCHANGED <<release, clock, up, reading, fired, modbus_retry_times, tardy,
                 bounds>>

RowTime(l) ==
  LET taken == fired[l] + (IF release \in Early THEN 0 ELSE Sleep[l])
  IN  (taken \div Unit[l]) * Unit[l]

Expired_bug(l, t) == Age(t) > Interval[l - 1]

Expired(l, t) == Age(t) > Keep[release][l - 1]

Kept(l) == Restrict(table[l - 1],
                    {t \in DOMAIN table[l - 1] : l = 3 \/ ~Expired(l, t)})

(***************************************************************************)
(* The row is inserted, even for an interval without readings (as zeros),  *)
(* and then what is old is deleted from the table below, except from       *)
(* hourlydata.  Nothing reads dailydata but the servers.                   *)
(***************************************************************************)
Record(l) ==
  /\ pc[l] = "record"
  /\ table' = [k \in Table |-> CASE k = l - 1 -> Kept(l)
                                 [] k = l     -> WithRow(table[k], RowTime(l))
                                 [] OTHER     -> table[k]]
  /\ tardy' = tardy \cap DOMAIN table'[0]
  /\ Goto(l, "idle")
  /\ UNCHANGED <<release, clock, up, reading, fired, modbus_retry_times, bounds>>

DbFails(l) ==       \* the query or the insertion: the thread gives up
  /\ pc[l] \in {"query", "record"} /\ Awake(l)
  /\ fails < MaxFail
  /\ fails' = fails + 1 /\ troubled' = TRUE
  /\ Goto(l, "idle")
  /\ UNCHANGED <<release, clock, up, reading, fired, modbus_retry_times, table,
                 tardy, boots>>

-----------------------------------------------------------------------------
(***************************************************************************)
(* The terminal reboots for the failed readings, or for another reason.    *)
(***************************************************************************)
Reboot ==
  /\ up
  /\ \/ Due(0) /\ TooManyErrors /\ UNCHANGED boots
     \/ boots < MaxBoot /\ boots' = boots + 1
  /\ up' = FALSE /\ troubled' = TRUE
  /\ reading' = {}
  /\ pc' = [l \in Level |-> "idle"]
  /\ UNCHANGED <<release, clock, modbus_retry_times, fired, table, tardy, fails>>

Start ==
  /\ ~up
  /\ up' = TRUE
  /\ modbus_retry_times' = 0
  /\ UNCHANGED <<release, clock, threads, table, tardy, bounds>>

-----------------------------------------------------------------------------
Collect(t) == ReadValue(t) \/ ReadNothing(t)

Thread(l) == Query(l) \/ Record(l) \/ DbFails(l)

timer_thread_min  == Thread(1)
timer_thread_hour == Thread(2)
timer_thread_day  == Thread(3)

Next ==
  \/ Tick
  \/ \E t \in reading : Collect(t)
  \/ timer_thread_min \/ timer_thread_hour \/ timer_thread_day
  \/ Reboot \/ Start

Spec == Init /\ [][Next]_vars

-----------------------------------------------------------------------------
(***************************************************************************)
(* No reading and no row is counted in two rows of the table above, though *)
(* each query takes whatever is at most an interval old when it runs, and  *)
(* whatever the reboots and failures between.  A query that asks a clock   *)
(* which is behind takes what the ones before it took, but no further back *)
(* than that clock.                                                        *)
(***************************************************************************)
Again(l) == (Zone[release] + Interval[l] - 1) \div Interval[l]

CountedOnce ==
  \A k \in Table : \A t \in DOMAIN table[k] : table[k][t] <= 1 + Again(k + 1)

(***************************************************************************)
(* Without a reboot or a failure of the database, each reading that was    *)
(* stored and each row is counted: once the thread above has run, no row   *)
(* up to its timer's expiry was too late for its query or too old.  Except *)
(* for readings that took as long as the thread above sleeps, and were not *)
(* stored when it looked (gather.c 1232): the present queries reach back   *)
(* one interval only, and miss them.                                       *)
(***************************************************************************)
LastExpiry(l) == (clock \div Interval[l]) * Interval[l]

NothingMissed ==
  ~troubled => \A l \in Level : pc[l] # "query" =>
    \A t \in DOMAIN table[l - 1] :
      t <= LastExpiry(l) /\ (l = 1 => t \notin tardy) => table[l - 1][t] >= 1

(***************************************************************************)
(* What a server can ask for is there: the table has a row, under the time *)
(* of its timer's expiry, for every interval that gather has seen the end  *)
(* of, as far back as the thread above keeps rows (gather.c 1306, 1443).   *)
(***************************************************************************)
Ends(l) == {t \in First + 1 .. clock : t % Interval[l] = 0}

HistoryKept ==
  ~troubled => \A l \in 1 .. 2 : pc[l] = "idle" =>
    \A t \in Ends(l) :
      (l = 1 => Age(t) <= Keep[release][1]) => t \in DOMAIN table[l]

-----------------------------------------------------------------------------
(***************************************************************************)
(* The timers here are those that ClockSync promises: they are started     *)
(* with gather, stop with it, and expire at every multiple of their        *)
(* intervals in between; and a thread begins an aggregation with each      *)
(* expiry of its timer and at no other time (gather.c 1607-1774).          *)
(***************************************************************************)
Timers == INSTANCE TimerPromise
  WITH Interval <- Range(Interval),
       next <- [n \in Range(Interval) |-> IF up THEN (clock \div n + 1) * n ELSE 0]

KeepsPromise == Timers!Spec

Expiry(l) == clock' # clock /\ Timers!Expires(Interval[l])

FiredOnExpiry ==
  [][\A l \in Level : fired'[l] = IF Expiry(l) THEN clock' ELSE fired[l]]_vars
=============================================================================

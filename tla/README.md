# A verification project for the RTU programs

This directory holds TLA+ modules about the remote terminal unit (RTU) software
in `src/`: what the programs do, checked on small instances with TLC, and proved
for all values of the constants with TLAPS where that is in reach.

`PROJECT.json` relates every definition to the lines it was translated from, and
lists the runs, the theorems, the findings and the hazards.

## 1. The system

The terminal stands at a monitoring site. It reads instruments over Modbus,
aggregates the readings, and reports to up to six servers over TCP. Three
programs, all C with POSIX threads, make it up.

| program | processes | role |
|---|---|---|
| `main` (`main.c`) | one | supervisor: starts the others, watches their "hello" messages, restarts or reboots |
| `gather` (`gather.c`) | one | reads instruments, fills `site.db`, raises alarms, queues packets for the clients, executes server commands |
| `client` (`client.c`) | one per server | connects, logs in, sends what gather queues, resends history data, forwards what the server sends |

They talk through POSIX message queues of ten messages each and through two
queued real-time signals:

    instruments --Modbus--> gather --/mq_dataN--> client N --TCP--> server N
                            gather <--/mqtestN--- client N <--TCP--
                            gather <--SIGRTMIN+1 (stop), SIGRTMIN+2 (start)-- client N
                   main <--watchdog queues ("hello")-- gather, client 1..6

All other files are libraries of these three: packet framing (`packet.c`),
Modbus retries (`modbus.c`), SQLite calls (`database.c`), the loaders of nine
settings tables (`table/*.c`), logging (`log.c`). `local.c`, `ntpclient.c`,
`phaselock.c` are not part of what the three programs do. `stable/` holds two
earlier releases, v3.7 and v4.3, which are in the field.

### Components: state, operations, what makes them correct

**Client, link control** (`client.c` 947-1136). State: the position in the main
loop, `a_flag`, `b_flag`, `reboot_flag`, `error`, `sockfd`. It connects, logs in,
watches `error`, tears the session down; it tells gather with signals when to
stop and to resume queueing, and reboots the terminal after 200 failures in a
row. Correct when gather's flag follows the state of the link. Hard: gather takes
the signals late, and not in the order they were sent.

**Client, resending of history data** (`client.c` 183-485, 555-634). State: the
saved packet, its time, a trigger, a count, a timer; three copies, for minute,
hour and day data. Sender, arming thread, receiver and the timer's callbacks, each in a
thread of its own, share it without a lock. Correct when an answer
stops the resending, a failure is reported only of an unanswered packet, and the
resending ends.

**Client, heartbeat** (`client.c` 168-181, 487-553, 882-923). State:
`heartbeat_time`, `retry_count_heartbeat`, `senddog`, two timers. Correct when a
healthy session is kept, a dead one is ended although threads may hang, and the
client comes back to a lasting session once the server answers.

**Client, sender and receiver** (`client.c` 268-383). They move packets between
the queues and the socket; both block, on a queue or in `recv`, across a
reconnection, so that what the receiver reads may come from the socket of an earlier session.
Correct when the handlers see only packets the server has sent, each once and in order.

**Supervisor** (`main.c`). State: the queues, the process ids, `flag`. It creates the
watchdog's queues, starts gather and, a second later, the clients, which open the
queues gather creates. A thread looks for one hello per process every 120 s; the
main loop restarts a silent client and reboots for a silent gather. Correct when no
living process is restarted, a dead one is missed in bounded time, and no client
serves a queue that gather has abandoned.

**Gather, fan-out** (`gather.c` 941-949, 1167-1175, 1333-1341, and the hour and
day copies). Timer threads send one packet to each server whose `gather_stop` is
clear, holding `mutex`, with a blocking `mq_send`.

**Gather, alarms** (`gather.c` 174-189, 2022-2301). One thread turns register
bits into rows of the `alarm` table (raise and cancel), another sends the rows a
server has not confirmed, the receiver marks them confirmed.

**Gather, clock** (`gather.c` 251-270, 2367-2501). A server command stores a time
and sets a flag; a spinning thread stops the timers, sets the clock, restarts
the timers.

**Gather, commands and history queries** (`gather.c` 191-766, 1916-2020). One
receiver thread executes what all servers send: history queries, the setting of
analog values, the clock, and the clients' reports of undelivered packets. It shares
the database with the aggregating threads (`mutex_db`) and the Modbus lines with the
collecting ones (`mutex_ctx`). Correct when an answer holds every row of the
interval, the locks keep the threads apart, and every command ends.

**Gather, collection and aggregation** (`gather.c` 768-1605). Ten-second
readings into `rtdata`, five-minute values into `minutedata`, hourly into
`hourlydata`, daily into `dailydata`, with deletion of what is old. A reading takes four seconds more for each request that is
left unanswered, so that the next one may begin before it ends. Correct when each
reading is counted once and no row is missing that the level above needs.

**Settings** (`table/*.c`, `modbus.c` 215-295, `gather.c` 75-104 and the loops over
devices). Nine tables are loaded at the start; devices, lines and rows lie in arrays
matched by number. Correct when a row is read over the line of its own device.

**Packets** (`packet.c`, and the readers in `client.c` and `gather.c`). A frame with
length and checksum; fields found at fixed offsets. Correct when what a reader takes
is what the writer meant, and a damaged frame is refused.

**Modbus, database, logging**: retry loops and calls that succeed or fail.

## 2. What is hard

- *Threads without locks.* Three threads of a client and any number of timer callbacks share
  the saved packet, its time, a trigger, a count and a timer. `main` and six other threads share
  `error` and `sockfd`. In gather, the receiver and `timer_routine` share
  `check_time`.
- *Locks that do not match.* A failing database call unlocks `mutex_db` twice; history queries
  enter the database without it; an analog value is written to a line under another lock than
  that of the reads.
- *Signals.* gather takes the clients' signals in whatever timer thread runs
  next, late, and not in the order in which they were sent.
- *Sends that wait.* Every queue holds ten messages, and `mq_send` waits for
  room: with `mutex` held (fan-out), in the thread that serves all servers
  (alarms), in the thread that polls all servers (replies).
- *Bytes.* One `recv` is taken for one packet; fields stand at fixed offsets although
  two of them grow with the configuration.
- *Sessions that end.* Packets and answers are lost with a connection, threads
  remain caught in `recv`, `send` or `mq_receive`, timers remain armed, and both
  come back in a later session.
- *Restarts.* main restarts a client or reboots; the database survives, flags,
  queues and counts do not; the queues survive the program, not the terminal.
- *Time.* Hellos against looks, timers against the clock that is set, windows of
  queries against the sleeps before them, local against universal time: what is
  right follows from numbers in `config.h` and from the text of queries.

`PROJECT.json` lists each hazard at its line with the properties that would catch
it, or with a note on why there is none.

## 3. The modules

| module | component | code |
|---|---|---|
| `LinkControl` | client's main loop, the signals, gather's flag | `client.c` 947-1136, `gather.c` 124-172 |
| `Packet` | layouts of the packets, frame, checksum, readers at offsets (operators only) | `packet.c`, `client.c` 215-266, `gather.c` 1938-1965 |
| `Checksum` | the checksum, bit by bit | `packet.c` 115-137 |
| `Receive` | login and receiver: from bytes to handlers and gather | `client.c` 338-383, 804-881 |
| `ResendPromise` | what the resending of one kind of history data promises (abstract) | -- |
| `HistoryResend` | resending of one kind of history data | `client.c` 183-196, 268-417, 555-580 |
| `TimeText`, `HistoryQuery` | history queries and times as texts | `gather.c` 412-766 |
| `GatherLocks` | database and lines between gather's threads; reports, analog values | `gather.c` 191-410, `modbus.c` 20-200 |
| `Heartbeat` | how a dead session is noticed | `client.c` 168-181, 338-383, 487-553, 882-894, 1036-1118 |
| `FieldHeartbeat` | the same in v4.3 | `stable/v4.3/src/client.c` |
| `FanoutPromise` | what the fan-out of collected packets promises (abstract) | -- |
| `GatherFanout` | queues between gather and the clients | `gather.c` 941-949 and its copies, 1978-2020 |
| `AlarmPromise` | what the alarm part promises (abstract) | -- |
| `AlarmDelivery` | alarms, from register to confirmation | `gather.c` 174-189, 2022-2301 |
| `Supervisor` | hello messages, watchdog thread, restarts | `main.c` 62-90, 227-285 |
| `Startup` (extends `Supervisor`) | creation of queues and processes, then supervision | `main.c` 170-285, `gather.c` 2540-2620, `client.c` 970-1010 |
| `FieldStart` (extends `Startup`) | the same in v3.7 and v4.3 | `stable/v4.3/src/{main,gather,client}.c` |
| `TimerPromise` | what the timers promise to the threads they start (abstract) | -- |
| `ClockSync` | setting the clock, the collection timers | `gather.c` 251-270, 2367-2501 |
| `Aggregation` | readings to minute, hour and day rows | `gather.c` 1183-1605 |
| `FieldAggregation` (extends `Aggregation`) | the same in v3.7 and v4.3 | `stable/{v3.7,v4.3}/src/gather.c` |
| `Tables` | the nine loaders | `table/*.c` |
| `Settings` (extends `Tables`) | when they run, the lines, what threads read by them | `gather.c` 75-104, 2300-2330, `modbus.c` 203-295 |

`<Module>_proofs` holds the theorems about a module; `Link_proofs` those about `LinkControl`
and `Receive` (with `Packet`), `Supervisor_proofs` those about
`Startup` and `FieldStart` as well, `Aggregation_proofs` those about `FieldAggregation` and `Settings`,
`History_proofs` those about the three modules of `MCHistory`. `MC...` and its `.cfg` files make
TLC instances; `MCLink` (LinkControl, Receive), `MCHistory` (HistoryResend, HistoryQuery,
GatherLocks) and `MCAggregation` (aggregation of any release, Settings) put together
modules of one component that have no variable in common: each part is explored by
itself while the others rest in an initial state, since the parts do not act on each
other. `MCSupervisor` and `MCHeartbeat` explore the present and the releases in the
field. Names of actions and variables are those of the code where it has one; the
`map` in `PROJECT.json` gives the lines of every definition.

**LinkControl.** `pc` is where `main` stands, from `connect` through `settle` (the
ten seconds after the start signal) to `spin` (watching `error`), `linger` and
`quiet` (the two sleeps of the teardown). A signal is a member of `pending`; gather
handles a pending one in an action of its own (`Handle`), stop and start in either
order. `Slept` is the one fact about time: main's sleep of ten seconds covers an
expiry of gather's ten-second timer, if the collection timers run. They do not while
`timer_routine` sets the clock, so that the flag `stalled` remembers it, and the
properties that rest on the sleep are stated for `~stalled`.

**Packet and Receive.** The data of a packet is a sequence of fields with widths; a reader
finds a field by counting characters, or by a `sscanf` that stops at a blank. A frame is a
sequence of numbers with length and checksum. The checksum is a constant operator of `Packet`,
of which `Receive` assumes only that it tells a packet from one in which a single character
is another (`ChecksumAssumption`); TLC gives it `CRC16` of `Checksum`, computed as in
`packet.c`, and so finds the assumption true of it for the packets of the instance. That it is
true of any packet follows from the table of remainders: their upper halves, which are all that
the next character meets, differ from each other, so that a difference in one byte never
disappears. The network delivers bytes in order but in pieces: `recv` returns a part of a
packet or several. The login checks that the answer carries the connection's own `qn`. `close`
does not wake a receiver that waits in `recv` (`StaysBehind`): the old socket's bytes (`left`),
to which the server may add (`SendsOnOld`), stay within its reach, and what that one `recv`
returns goes to the handlers like any other packet, be it in a later session (`OldRecv`, `stray`);
only then does the receiver turn to the socket of the day.

**HistoryResend.** The sender's statements (`Take`, `Copy`, `Stamp`, `Send`), the arming
thread's (`Arm`, `ClearTrigger`), the callbacks' (`Enter`, `Resend`, `GiveUp`, `TryLater`,
`Report`) and the answer's handler interleave freely over the shared variables. Each expiry
starts a callback in a thread of its own (`SIGEV_THREAD`), whatever the earlier ones do: those
that have counted may wait side by side, for `mutex_send`, for the connection, or for room in
gather's queue, and each has a copy of the packet's time (`buf`). A callback beside which another
has begun is `slow`. A number stands for a packet and its time. `ResendPromise` knows no thread, trigger or timer:
packets are saved in their order, tries of the one saved last begin only while it is not answered,
each sends one copy at most, and a packet is answered or declared failed, never both unless by a
try that has waited beside another. `HistoryResend` implements it with `history`,
`resends`, the callbacks' places, `slow`, `settled` and `reported`. Its limit is what the code
does: `RETRY_COUNT + 2` resends if callbacks never meet, and with K of them side by side
`K * (RETRY_COUNT + K + 1)`, since each of the K may give up and set the shared count back.

**TimeText, HistoryQuery, GatherLocks.** A time is a moment, or the text the code makes of
it: a row's to the second, a report's with milliseconds. A query counts the times,
fills an array of `Slots`, and reads the rows of each while an aggregating thread inserts
and deletes. In `GatherLocks` each thread asks for a lock, calls, may fail, and unlocks --
once too often where the code does. The receiver's history queries (`Select`, `Selected`) enter the
database call after call without asking (`"bare"`). The serial line has its own lock, which the
writer does not take.

**Heartbeat.** A socket is `"cur"` or `"old"`; `Close` turns one into the other for a
thread that waits on it, and a timer that nobody will disarm becomes `"stale"`: it may
expire at any moment of the next session. What the receiver has read it hands to gather
(`"forward"`), whose queue may be full: it is then `"held"` (`Wait`) and reads nothing, for as long as
gather pleases. Times are replaced by their order: with a
server that answers at once, a heartbeat is sent and its answer read before its timer expires,
unless the server was away meanwhile or the receiver on an old socket or held (`late`, `InTime`),
and the watchdog timer expires at most twice between two heartbeats. With a
silent server nothing is assumed. `FieldHeartbeat` replaces the counting (`SendOk`) and
the timer's test (`Expire`), and shares the rest.

**GatherFanout.** A collector (`Lock`, `Look`, `Put`, `Unlock`) offers its packet to the
servers in turn; `Put` waits for room. The receiver polls, replies with a send that
waits, and writes registers under `mutex`. A sender that has found no error and sits in
`mq_receive` takes one packet more after the session is lost. `FanoutPromise` has rounds
instead of threads, queues and `mutex`: a packet is offered once to each server that is not
stopped, and a stopped one may be offered one more. The round is that of the
collector that holds `mutex`; the servers still due are those from `at` on.

**AlarmDelivery and AlarmPromise.** The table `alarm` is a function of row numbers, which
stand for `alarmtime`; `centre[i]` is the set of rows marked for server `i`. A raise sets
its flag before the insert, a cancellation after it. `AlarmPromise` has three steps --
record, receive, confirm -- and `AlarmDelivery` implements it with `alarm`, `received`
and `centre`.

**Supervisor, Startup, FieldStart.** Time advances in units (`Tick`) when nothing is to be
done at once. Each process has a countdown to its next hello, the watchdog thread one to
its next look. A fork may be refused, at the start or later. `Startup` gives each queue
an identity (`"old"`, left by a former run, or `"new"`) behind its name, so that a process can hold
one that is no longer named. In the field nothing is removed, and a client whose
fork is refused at the start is skipped.

**ClockSync.** One action per statement of `set_localtime` and `timer_routine` on the shared
variables; `left[n]` is the time to the next expiry of the timer of interval `n`. `TimerPromise` is
what of this matters to a thread that a timer starts: when the timers expire, that they are
started and stopped together, and that the clock jumps only in between.

**Aggregation, FieldAggregation.** Four levels of one scheme (collection, minute, hour, day),
each with its timer, its sleep, its query window and its deletion. The value of a row in
the model is how often it has been counted above. A reading is stored under the time at which it
began, any time up to `Slow` later; readings overlap, as the threads of a timer do. Those that take as
long as the minute thread sleeps, and are stored after its query, are noted (`tardy`). The timers are those of `TimerPromise`,
which `ClockSync` implements. Releases differ in how long rows are
kept (`Keep`), in when a thread reads the clock (`Early`), and in the clock the queries
use (`Zone`).

**Tables, Settings.** A table is a sequence of rows; `sqlite3_get_table` gives one flat
array, and a loader copies cells by position. A table or a line may fail; the
pointer is then `Null`, and threads that do not look die. Devices may share a port: a line
is a port and the slave that `modbus.c` sets on it, so that what counts is the number under
which `ctx` keeps it.

How they meet: `LinkControl` shows when `gather_stop` follows the link; `GatherFanout` and
`AlarmDelivery` therefore let `Stop` and `Start` come at any time after the link was lost or
regained. `HistoryResend` and `Heartbeat` take from `LinkControl` that a session ends by
`error`, and that `Login` clears it. `Receive` shows which packets the handlers of those two
and the commands of `HistoryQuery`, `GatherLocks` and `ClockSync` come from. `Supervisor`
covers what `AlarmDelivery` and `Aggregation` have as `Reboot`. `Startup` composes the
programs' start with `Supervisor`, action by action.

## 4. The runs

| run | instance | shows |
|---|---|---|
| `link` | one client, a reboot at the third failure in a row; frames of up to nine numbers, two logins, three packets, one damaged, a receiver left on the first socket | `OfflineStopped`, `LaterSessionFlows`, `DropAnnounced`; `OnlyWhole`, `NothingLost`, `SessionAccepted` |
| `link_start` | the same client | finding, see 6 |
| `history` | two packets, one drop, a count of 2, two callbacks side by side; four times, two pollutants, an array of two; three threads, two messages, queries of two calls, two failed calls | `AnswerStopsResending`, `ResendBound`, `NoFalseFailure`, `KeepsPromise`, `TimerStops`; `QueryAnswered`; `LocksKeep`, `ReportsMarkNothing`, `CommandEnds` |
| `history_failure` | the same packets, a count of 3 as in `config.h`, one callback at a time | finding |
| `heartbeat` | the limits of the code, 3 and 5; present and v4.3 | `HealthyKept`, `SilenceNoticed`, `Recovers` |
| `fanout` | two collectors, two servers, queues of one | `SameOrder`, `StopTakesEffect`, `Progress`, `KeepsPromise` |
| `alarm_two` | two servers that lose a session, two rows | `ConfirmedWasReceived`, `KeepsPromise` |
| `alarm_one` | one server, one lost session, one failed call, one reboot | `NoDoubleRaise`, `CancelRecorded`, `AllDelivered` |
| `alarm_cancel` | the same | finding |
| `supervisor` | gather and two clients from the start on, a period of five units, two deaths, forks refused for two units of time, long enough to lose a report; present and in the field | `NoFalseAlarm`, `DeathNoticed`, `QueuesFound`, `EarlyExitSeen` |
| `clock` | two timers (2 and 6 s), clock values up to 7 | `Aligned`, `LastCommandWins`, `TimersResume`, `KeepsPromise` |
| `aggregate` | intervals 4, 8, 16, 32, a zone of 16, the ends of two days, readings that take up to five with a sleep of two, a reboot, a failure, three releases; databases of up to three devices, two lines | `CountedOnce`, `NothingMissed`, `HistoryKept`; `LoadedAsStored`, `ReadAsStored` |

Some properties are conjunctions of named parts: `Progress` of `RoundEnds` and
`CommandsTaken`, `DeathNoticed` of `DetectedInTime` and `BacklogHasCause`, `QueuesFound` of
`BothQueues` and `OrphanHasCause`, `QueryAnswered` of `QueryComplete` and `NoOverrun`,
`LocksKeep` of `DbShared` and `ReadersAlone`. Each module also defines its type
invariant, in which the counters and queues have their bounds; most are proved (section 5).
`KeepsPromise` of a module says that it implements its abstract specification, step by step.

### Bounds, and why they are enough

- *Clients, servers.* One is enough for `LinkControl`, whose clients share nothing but
  gather's timers and a reboot of the terminal, and whose invariants are proved for
  any number. Two suffice elsewhere for what one can do to another through `mutex` and the
  order of gather's loops (`GatherFanout`, `AlarmDelivery`). In `Supervisor` three processes (gather among
  them) make two misses in one round, which is what delays a look by most of a period.
- *Queues of one message* instead of ten: a full queue is the case of interest, and a
  smaller one is full sooner.
- *Packets, rows.* Two packets are a packet and its successor, which is all that
  the shared variables of the resending relate. Two rows are a raise and its
  cancellation, or an alarm of the run before and one of this run.
- *Callbacks.* Two side by side (`MaxCallback`) are one that is under way when another begins, which
  is what every property about them turns on; a count of two lets one of them give up between the
  steps of the other. The theorems hold for any number of them, and their bound grows with it.
- *Calls of a query.* Two (`MaxAsked`): the first and one for a time it has found.
- *The old socket.* The connection left and that of the day have four packets together if none is
  damaged, else three: enough for an old packet and one of the day to be handled in one session.
- *Drops, failures, deaths, refusals, reboots* are bounded by `MaxDrop`, `MaxFail`, `MaxDeath`,
  `MaxRefused`, `MaxRefusal`, `MaxBoot`; each property that mentions one is broken, if at all, by one of
  them (the mutants show this), and the theorems below do not depend on the bounds.
- *`CONNECT_TIMES`* is 2 instead of 200: what counts is whether the next
  failure reboots.
- *Frames* of three numbers instead of 1024 characters, a queue that takes eight of the
  nine numbers a frame may have: the border cases of the code, 1024 of 1036.
- *History queries.* Four times and an array of two instead of 32: an interval that fits,
  one that just fits and one that does not.
- *Aggregation* shrinks 10 s, 300 s, 3600 s, 86400 s to 4, 8, 16, 32, and the zone of eight
  hours to one interval of the hour thread. It keeps that each interval is
  a multiple of the one below, and that sleeps grow by level and are shorter than the
  intervals of the threads they wait for (`SpeedAssumption`). Nothing is assumed of how long a reading takes: the instance's
  `Slow`, 5, is more than the first sleep, 2, and than the interval of the readings, 4, as in the
  code when requests go unanswered. The clock runs from the last second before a day's end to
  seven after the next one's.
- *Settings.* Five arrangements of devices: none; two that share a port, with different names or
  with one name; one without a line before others; more devices than lines. The theorems do not depend on them.
- *Supervisor* shrinks 120 s to five units and the sleep after a miss, 5 s, to two, which
  makes the delays relatively worse than they are. The releases in the field meet one death
  less and find the clients' queues alike.
- *Heartbeat* needs no bound but the caps on its two counts, above which they make no
  difference.

`CHECK_DEADLOCK FALSE` stands where a bound stops the model: `HistoryResend`,
`Receive` and `GatherFanout` when all packets are through, `Aggregation` at `MaxClock`,
`Supervisor` when the terminal has been rebooted.

### Fairness, and why the code justifies it

Weak fairness of a thread's own steps: threads loop for ever and nothing but the
calls named below makes them wait. Beyond that:

- *LinkControl*: main's sleeps end, `select` in `connect_to_server` has a timeout of five
  seconds, and gather's watchdog timer never stops, so that a pending signal is
  handled. Nothing makes a server answer a login.
- *HistoryResend*: an armed timer expires; no send and no full queue holds a callback for ever;
  main logs in again after a (bounded) drop. No answer is ever promised.
- *GatherLocks*: a Modbus request and a database call return (both have timeouts), a history
  query goes from call to call, and a receiver that asks for `mutex_db` time and again gets it in the end (strong fairness:
  the other threads hold it for single calls between sleeps).
- *Heartbeat, FieldHeartbeat*: timers expire; a send returns when the server takes data; a
  login succeeds, and an old connection is given up or closed, sooner or later. Nothing makes
  room in gather's queue: that a receiver held there is let go is not assumed. `Recovers` is about
  a server that answers for good and a queue that has room for good. It
  leaves out executions in which a connection of an earlier session ends, time and
  again, in the very moment a heartbeat is being sent, or so shortly before its timer expires
  that the answer is not read in time, or a stale timer expires between
  login and first heartbeat (`Coincidence`): nothing in the code excludes such a series, but
  each single one is a matter of milliseconds.
- *GatherFanout*: a lost session is regained in the end. This is an assumption about
  servers; without it a collector may wait for ever, with `mutex` held.
- *AlarmDelivery*: the same, and an answer that is not lost is handled. Lost
  sessions and failed calls are bounded.
- *ClockSync*: `set_localtime` and `timer_routine` go on; no command need ever come.

`Supervisor`, `Startup`, `Aggregation`, `Settings`, `Receive` and `HistoryQuery` have safety
properties only; bounded detection is a safety property because time is a variable.

## 5. What is proved

The theorems hold for every value of the constants that satisfies the modules'
`ASSUME`s. tlapm checks every proof to its leaves.

**LinkControl** (`TypeCorrect`, `Stopped`, `Flows`), for any set of clients. The property does
not carry itself: that gather has the stop when main connects again depends on
nothing older being pending. `InStep(c)` says so for every place of `main`: from the end
of the first session on, at most the signal sent last is pending, and once it is
handled the flag says what main said last. `a_flag` is part of it, since it keeps failed
attempts silent. A step of another client leaves `InStep(c)` alone (`OtherStep`); a step of
the client or of gather keeps it (`OwnStep`).

**HistoryResend** (`ResendTypeCorrect`, `AnswerStops`, `FailureIsTrue`, `ResendingEnds`, `ResendImplements`), for any count and
number of packets, of drops and of callbacks side by side. The invariant has four parts: a packet being saved is newer
than everything others know (`SavingIsNew`); when the saved packet is settled, nothing is
left that could arm the timer for it, and only callbacks that were under way then may still send it
(`SettledIsQuiet`); at most one callback is about to count, and those that are further on have become `slow`
(`OneEnters`); a callback that is not slow and has a settled packet's time has not counted too far, and does
not report it (`SettledNotReported`). `ResendingEnds` needs to know how a packet's resends relate to the
count it shares with its predecessor and among callbacks (`SentOK`): callbacks at work are counted by their places
(`Count`, `CountMoves`), and each that is at work when the packet is saved, or gives up later, may set the
count back once. `ResendImplements` adds to these what none of them says
(`ReportedIsOver`): the time of a packet whose failure was reported is cleared and never stored
again, so that a late answer to it is not taken for an answer in time.

**Receive, Packet** (`ReceiveTypeCorrect`, `Admitted`, `AllTaken`, `HandedWhole`), for any checksum that
satisfies `ChecksumAssumption`, any sizes and any number of logins, packets and damages. That each reader finds
its field in a packet of the standard width is calculated from the layouts (`Known`, `CommandsRead`). `Admitted`
needs to know that what a waiting client has not yet received begins with the frame sent first, damaged or
not (`Waiting`), and what that frame was before it was damaged if it now is an acceptance
(`AcceptedWasSent`): length and mark of its kind fit no other packet, and a single other character
in the data would not pass the checksum. For `AllTaken` a packet's number is its place (`Numbered`,
`Placed`), so that what is handed on comes in order. `HandedWhole` is `OnlyWhole` as long as nothing
is damaged: the invariant says where each frame lies in what is still to be received and that what was handed on
lay before it (`Undamaged`, `Lies`, `Behind`); two marks next to each other are always the
beginning of a frame (`TwoMarks`), so that `verify_packet` accepts nothing but a whole frame at the front
(`FrontOnly`). The same holds of an old socket while the receiver is left there (`OldUndamaged`); and a
receiver that is left there has handed on nothing of the new session, and hands on at most one packet
when its `recv` returns (`OneStray`).

**AlarmDelivery** (`TypeCorrect`, `Received`, `RaisedOnce`, `Implements`), for any number of servers,
quantities, drops, failures and reboots. A mark comes from an answer, an answer from
a packet the server received: the invariant therefore speaks of answers on their way
as well. `RaisedOnce` rests on the flags (`RaisedIsFlagged`): a raised row of this run is followed by its
cancellation, or the quantity's flag is still set, and stays set when the cancellation could
not be inserted. `Implements` is the step simulation: each action records, delivers or confirms in
the sense of `AlarmPromise`, or leaves its variables alone.

**ClockSync** (`TypeCorrect`, `ClockAligned`, `CommandExecuted`, `ClockImplements`, `PromisedExpiries`), for any set of intervals. The clock
jumps only while the timers are stopped (`Stopped`); seconds, expiries and starts keep
the next expiry at a multiple of the interval, by arithmetic on `\div` and `%`
(`FirstDelayFits`, `NextMultiple`). `CommandExecuted` rests on `Serial`: if commands never overlapped,
the two threads are in one of three joint states -- receiving, quiet, executing -- in each
of which it is known where the time asked for is. `ClockImplements` is the step simulation of
`TimerPromise`: the delay that `APPROACH` computes leads to the first multiple the clock has not reached
(`FirstDelayIsNext`), and the timers are off where they are started and where the clock is set
(`Stopped`). `PromisedExpiries` is about `TimerPromise` alone: when a timer expires follows from the clock,
so that whoever relies on the promise needs no state of the timers.

**HistoryQuery** (`Answered`), for tables, arrays and numbers of pollutants of any size. A whole
time that gather has not sent yet is among those it has noted (`Remaining`), since it finds
every time of the interval that has a row (`FoundIsAsked`, from the comparison of texts) and
notes all it finds (`AllInOrder`: a list without repetition that is as long as the set has
all of it). Nor does it find more than the interval has times (`FoundFits`).

**GatherLocks** (`LocksTypeCorrect`, `ReadersApart`, `NothingMarked`, `DatabaseShared`, `Kept`), for any number of
attempts, messages and refused calls. That readers are alone follows from the lock's
holder (`CtxHeld`). The database's lock does not have one holder, because of the second
unlockings: the invariant counts instead (`DbCounted`) -- the threads that came in with the lock are at
most as many as the second unlockings so far, and one more while it is taken -- and each step changes
the set of those by at most one thread. The receiver's query, which asks for no lock, is one more. That reports mark nothing rests
on one fact about texts: one with milliseconds equals none without (`TextsDiffer`).

**GatherFanout** (`TypeCorrect`, `StopsInTime`, `Ordered`, `Implements`), for any number of servers, collectors
and packets and any capacity of the queues. A collector in its loop holds `mutex`, and has looked
at no flag but that of the server it is at (`Exclusive`). A stop takes effect because the one packet
that may still follow it is the first since the stop (`FirstSinceStop`). For the order it is enough
that the packet of the round under way is the last of every queue the collector has passed
and nowhere else (`CurrentIsLast`), which holds because packets put before are of
rounds begun before (`RoundsBegun`). `Implements` puts these together (`RoundPromise`, `SignalPromise`):
`RoundsBegun` makes a round's packet a new one, `Exclusive` makes `at` the server the round has come to, and
`FirstSinceStop` is what lets a packet that waits for room be offered after the stop.

**Heartbeat** (`TypeCorrect`, `Kept`, `KeptInField`), for any limits of the counts, of the present and of
the release in the field. What keeps a healthy session, as long as the receiver has not had to wait for
gather's queue, is that a heartbeat whose timer is armed is
being sent, or its answer is on its way (`AnswerOnItsWay`), so that the timer never expires; and that the
watchdog's count never exceeds its expiries since the last heartbeat (`DogFed`).

**Supervisor, Startup, FieldStart** (`LivingLeftAlone`, `LivingLeftAloneFromStart`, `LivingLeftAloneInField`,
`SilenceFound`, `NoticedFromStart`, `NoticedInField`, `EarlySeenFromStart`, `EarlySeenInField`,
`FoundFromStart`, `FoundInField`), for any number of clients, any times with `Delay < Ahead` and
`Ahead + Grace <= Period` (1, 2, 5 and 120 seconds in the code), any number of deaths and refused forks. That no live process is taken for silent is a matter of a sum:
each hello in the queue serves one look, and the next one comes before the look that would find none
(`Timely`). `UntilLook` is the least time until the thread takes the next message of a process; a miss
makes it longer, never shorter. A process just reported is looked at again after a whole period, less
the time for which forks were refused (`Reported`), so that a restart finds its place in the same sum. The same sum from above shows
that a backlog has a cause (`Backlog`): a live process is ahead of the watchdog thread by `Ahead` and the
misses that delayed it. That a death is noticed rests on a deadline (`Deadline`) that counts
the queues the thread still looks at first (`Looks`), each a possible miss, and a round for each hello
that is left: no step but a lost report moves it further from the time of death (`BoundedStep`). A report is
lost only when main was refused a fork during the whole sleep after a miss, so that the time of
refusal pays for it (`Credit`, `CreditStep`). The same bound with other numbers serves a client that
exited while starting (`Hiding`). For the queues, what counts is in
which order names change: `NameInOrder` for gather, `HeldInOrder` for a client. A client that
is started again finds gather's queues because a gather that never served is missed first
(`MissedFirst`).

**Aggregation, FieldAggregation** (`TypeCorrect`, `Once`, `AllCounted`, `HistoryThere`, `TimersKept`, `TimersFire`), for any intervals,
sleeps, windows and zones that satisfy the modules' assumptions, of the present release and of those in
the field. What the times allow comes first (`Timing`,
`RowTimes`): the time of a row is an expiry of its level's timer, and a thread is through before the timer
of the level below expires again. A reading may take any time. `Once` rests on a sum (`Spaced`): each counting of a row takes another
expiry of the timer above, an interval after the one before, so that a row that has been counted
often is old, and leaves the window. `AllCounted` rests on what has been counted when a thread is at work and when it
is not (`CountedSoFar`): the window reaches back to the expiry before (`WindowReaches`), and a row
comes before the thread above looks for it (`FreshInTime`), since sleeps grow by level; a reading
comes before, or took as long as the sleep and is noted (`NewReading`, `TooLate`). For
`HistoryThere` it is shown that each interval that has ended has its row while no thread is still to
insert it (`RowsThere`), and that only the thread above deletes, and only what is too old (`RowsStay`).
`TimersKept` is the joint with `ClockSync`: both implement `TimerPromise`, here with timers that run while
gather does, and with nothing but the clock to say when they expire, which `PromisedExpiries` allows;
`TimersFire` says that a thread's aggregations begin with just those expiries. (The first without
`Set`, since `Aggregation` leaves the setting of the clock out.) The two are not in the `aggregate` run, whose
state space is the largest; they were found true on it before they were proved.

**Settings** (`LoadedRight`, `ReadRight`), for any tables a database may hold, any number of devices and
of lines, and any failures. A cell is found at its place in the flat array since row and column follow from the position
(`Place`, by `\div` and `%`), and a field of the record is that of one column because no table names two columns
alike (`OwnNames`, table by table). From there a loop over `ctx` and one over the table of devices agree: a line is
kept under the number of a serial device, with its port and slave, and no table changes once
lines are open (`Lined`, `InOrder`). What a thread reads over a line is then, row by row, what the database asks for
(`ReadOver`).

**Only model-checked**: liveness (`DropAnnounced`, `TimerStops`, `Progress`, `CommandEnds`,
`CancelRecorded`, `AllDelivered`, `SilenceNoticed`, `Recovers`, `TimersResume`), which is out of the
prover's reach; and `OnlyWhole` for packets that are damaged. What the client takes for a packet
there may be bytes of two packets that were sent one after the other, so that the property rests on which values the
checksum of `packet.c` really has, and for enough packets and damages it is a question of chance.

## 6. Where the code does not do what is said of it

Each has a run with one property that TLC finds violated.

- `StartHeeded` (`client.c:1067`, "be sure gather process receive the signal"): in the first
  session after a failed attempt the start signal may be handled before the older
  stop. The session then runs with nothing queued for it. `LaterSessionFlows` shows that
  later sessions are not affected.
- `FailureAfterRetries` (`config.h:29`, "history data resend count" 3): a packet that arrives while its predecessor is being
  resent inherits its count, and is given up after fewer.
- `CancelStands` (`modify.log:73`, "when the system starts, firstly send cancel alarm info
  command"): an unconfirmed alarm of the run before is sent after the cancellations,
  and if its bit is clear by then, no cancellation follows.

Noted while modelling, with no run: the login waits in `recv` for ever if the server
accepts the connection and stays silent, whatever `client.c:857` logs of a timeout
(`client.c:755` makes the socket blocking again); an unanswered packet is resent four
times, because the count is compared with `>` after the resend (`client.c:399`); the count
of unanswered heartbeats outlives the session, so that one unanswered heartbeat can
end a new one (`Recovers` shows that the client nevertheless comes to a session that
lasts); modbus failures are counted and never forgotten
(`gather.c:1194`); an
interval without readings is stored as zeros; commands that overlap, or carry no
time, can leave the collection timers stopped (`gather.c` 2430-2433, 2450-2455), and are
answered as executed.

Noted with a run that shows the extent: callbacks of the resend timer that wait side by side in a send
(`client.c` 108, 395) each send their copy after the answer has come, and one of them, reading a
count that the others have raised, may report a packet that was answered (`client.c` 391, 399) --
`AnswerStopsResending`, `NoFalseFailure` and `ResendBound` say what is left; a receiver that waits for
room in gather's queue (`client.c:374`) reads no answers, so that the session of a server that answers
is ended once the count has passed its limit -- `HealthyKept` speaks of sessions without such a wait,
`Recovers` of the time after; a receiver left in `recv` on an old socket hands one old packet
on in a later session (`client.c` 349, 1118) -- `OnlyWhole`; a reading that takes as long as the minute
thread sleeps, which two unanswered requests are enough for, is never counted if it is stored after the
query (`gather.c:1232`) -- `NothingMissed` says that no other is missed; reports of undelivered packets never mark a row,
since a minute report's time has milliseconds and a row's has none (`gather.c:200`), an hour
report names a table that does not exist (`gather.c:220`), and a day report is met by no test
(`gather.c:2002` repeats the one for hours) -- `ReportsMarkNothing`; a failed database call unlocks
`mutex_db` twice (`gather.c:245`, `2251`), history queries do not lock it at all (`gather.c` 451,
571, 689), and an analog value is written without `mutex_ctx`
(`gather.c:384`) -- `LocksKeep` says what is left of the exclusion; a client may listen to a
queue that gather has removed when gather is slower than main's second -- `QueuesFound`; several
packets in one `recv` are one packet to the client, with what follows the first unverified
(`client.c:349`), so that `NothingLost` speaks of single packets; and a history query of more
than 32 times writes behind its array (`gather.c:446`), so that `QueryAnswered` speaks of
shorter ones.

In the field: the queries of v3.7 compare rows under local time with universal time
(`stable/v3.7/src/gather.c:847`), so that a row is counted in each report for as long as the zone
(`CountedOnce` bounds this by `1 + Again`, which is 1 for the other releases), and deleted a zone
later. In v4.3 a single unanswered heartbeat ends the session, and a session that ended for
another reason leaves a timer that can end the next one (`stable/v4.3/src/client.c:485`, `Recovers`). Its main
removes no queue, so that hellos of a former run delay the detection of a client's early
exit by a look each (`EarlyExitSeen`).

## 7. What is not modelled

- The content of packets beyond the fields that are read, averages, and the database below
  the level of a call that succeeds or fails, except for the rows a query selects.
- The writers of packets no program calls (sampling frequency, time and level requests,
  changes of SBS, the answer to a login): dead code in `packet.c`.
- `log.c` and `error.c` (output; the exit at level 4 is a death of the process in `Supervisor`),
  the shell scripts, and `local.c`, `ntpclient.c`, `phaselock.c`, which no program of the three
  calls.
- Of `stable/`, what equals the present but for prints and layout: the tables, the packets,
  `database.c`, the history resend, the link control of v3.7 and v4.3. The unchecked
  creation of timers in the client of v4.3 is left out as well. `main.c` is the same in v3.7 and
  v4.3, and `client.c` differs in prints only; both are mapped to v4.3.
- A clock set back, which makes timers expire at the same times again (`Aggregation`
  assumes that the clock is not set).
- `retry_count_min++` of two callbacks at the same moment: it is one step in `HistoryResend`, where no
  two begin within the few instructions before it.
- The check in the timers' threads and the store of `error` are one step in `Heartbeat`,
  and the clock's reading and the setting of the timers one step in `ClockSync`.
- What `MCLink`, `MCHistory` and `MCAggregation` put together is explored part by part. The parts
  act on each other in the program only through what each takes as free: the link of
  `Receive` comes and goes, packets of `HistoryResend` come at any time.

## 8. The plan

The order was: what decides whether data flows at all (`LinkControl`); what decides whether
it arrives (`HistoryResend`, `GatherFanout`, `AlarmDelivery`); what keeps the system running
(`Supervisor`, `Startup`, `Heartbeat`); what makes the data right (`ClockSync`, `Aggregation`,
`Settings`, `HistoryQuery`, `Packet`); how the releases in the field differ. The abstract specifications
(`AlarmPromise`, `ResendPromise`, `FanoutPromise`, `TimerPromise`) came last, with their refinements. What would come
next: the setting of the clock within `Aggregation`, for which its properties would have to say
what a row counts when the same times come again.

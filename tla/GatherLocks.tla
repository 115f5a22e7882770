---------------------------- MODULE GatherLocks ----------------------------
(***************************************************************************)
(* What gather's threads share beside the queues: the database, written    *)
(* with mutex_db held, and the devices on the serial line, read with       *)
(* mutex_ctx held.  The receiver thread, the collecting and aggregating    *)
(* threads ("timer") and the alarm thread use them.                        *)
(*                                                                         *)
(* The receiver notes which packets could not be delivered (a report of a  *)
(* client), and, as a server commands, sets values of devices and answers  *)
(* queries.  It queries the database with no lock at all, and writes to a  *)
(* device with another lock held, that of the queues: waiting for it, like *)
(* waiting for room for a reply, is the matter of GatherFanout.            *)
(***************************************************************************)
EXTENDS TimeText, FiniteSets

CONSTANTS
  ReportTime,      \* bound: the times that have a row, and that reports name
  RETRY_TIMES,  \* of config.h
  MaxMessage,   \* bound: messages
  MaxAsked,     \* bound: calls of one query, the first and one for each time
  MaxRefused    \* bound: calls that the database refuses

ASSUME LocksAssumption ==
  /\ ReportTime \subseteq Nat
  /\ {RETRY_TIMES, MaxMessage, MaxAsked, MaxRefused} \subseteq Nat

Thread == {"receiver", "timer", "alarm"}
Reader == {"timer", "alarm"}

(***************************************************************************)
(* The tables that the reports name.  That of the hour does not exist; the *)
(* report of a day packet is met by no test.                               *)
(***************************************************************************)
ReportTable == [minute |-> "minutedata", hour |-> "houlyrdata", day |-> "none"]

Tables == {"minutedata", "hourlydata", "dailydata"}

VARIABLES
  lacking,      \* are the tables empty that set_analog_value reads?
  rpc,          \* what the receiver does
  report,       \* the kind and the time of the packet that was reported
  sb,           \* the devices still to be set, by what will become of them
  asked,        \* the calls a query is still to make
  mutex_db,     \* is mutex_db locked?
  at,           \* "out", "in", "bare": in without the lock,
                \* or "again": unlocked, to be unlocked once more
  mutex_ctx,    \* who holds it, or "none"
  line,         \* "idle", "ask", or "sleep" after a failed attempt
  index,        \* failed attempts of this request
  marked,       \* rows of minute data that reports have marked
  messages, refused,
  doubled       \* history: how often mutex_db was unlocked twice

receiver == <<lacking, rpc, report, sb, asked>>
dblock   == <<mutex_db, at, refused, doubled>>
devices  == <<mutex_ctx, line, index>>
lockVars == <<receiver, dblock, devices, marked, messages>>

NoReport == [kind |-> "none", t |-> 0]

LocksTypeOK ==
  /\ lacking \in BOOLEAN /\ rpc \in {"poll", "mark", "item", "query", "dead"}
  /\ report \in [kind : {"none"}, t : {0}]
                  \cup [kind : {"minute", "hour"}, t : ReportTime]
  /\ sb \in Seq({"known", "unknown"})
  /\ asked \in 0 .. MaxAsked
  /\ mutex_db \in BOOLEAN /\ at \in [Thread -> {"out", "in", "bare", "again"}]
  /\ mutex_ctx \in Reader \cup {"none"}
  /\ line \in [Thread -> {"idle", "ask", "sleep"}]
  /\ index \in [Thread -> 0 .. RETRY_TIMES]
  /\ marked \subseteq ReportTime
  /\ messages \in 0 .. MaxMessage /\ refused \in 0 .. MaxRefused
  /\ doubled \in Nat

LocksInit ==
  /\ lacking \in BOOLEAN /\ rpc = "poll"
  /\ report = NoReport /\ sb = <<>> /\ asked = 0
  /\ mutex_db = FALSE /\ at = [x \in Thread |-> "out"]
  /\ mutex_ctx = "none"
  /\ line = [x \in Thread |-> "idle"] /\ index = [x \in Thread |-> 0]
  /\ marked = {} /\ messages = 0 /\ refused = 0 /\ doubled = 0

-----------------------------------------------------------------------------
(***************************************************************************)
(* The receiver takes a message: a report, a command to set values, or a   *)
(* history query.                                                          *)
(***************************************************************************)
TakeMessage ==
  /\ rpc = "poll" /\ messages < MaxMessage
  /\ messages' = messages + 1

TakeReport(k, t) ==
  /\ TakeMessage
  /\ IF ReportTable[k] = "none"
       THEN UNCHANGED <<rpc, report>>
       ELSE rpc' = "mark" /\ report' = [kind |-> k, t |-> t]
  /\ UNCHANGED <<lacking, sb, asked, dblock, devices, marked>>

TakeSet(items) ==   \* a table that was not loaded is a null pointer
  /\ TakeMessage
  /\ rpc' = IF lacking THEN "dead" ELSE "item"
  /\ sb' = items
  /\ UNCHANGED <<lacking, report, asked, dblock, devices, marked>>

TakeQuery(n) ==
  /\ TakeMessage
  /\ rpc' = "query" /\ asked' = n
  /\ UNCHANGED <<lacking, report, sb, dblock, devices, marked>>

(***************************************************************************)
(* set_analog_value goes through the devices of the command.               *)
(***************************************************************************)
SkipItem ==
  /\ rpc = "item" /\ sb # <<>> /\ Head(sb) = "unknown"
  /\ sb' = Tail(sb)
  /\ UNCHANGED <<lacking, rpc, report, asked, dblock, devices, marked, messages>>

SetItem ==
  /\ rpc = "item" /\ sb # <<>> /\ Head(sb) = "known"
  /\ line["receiver"] = "idle"
  /\ line' = [line EXCEPT !["receiver"] = "ask"]
  /\ UNCHANGED <<receiver, dblock, mutex_ctx, index, marked, messages>>

AllSet ==
  /\ rpc = "item" /\ sb = <<>>
  /\ rpc' = "poll"
  /\ UNCHANGED <<lacking, report, sb, asked, dblock, devices, marked, messages>>

-----------------------------------------------------------------------------
(***************************************************************************)
(* Requests to a device: a reader holds mutex_ctx from before the first    *)
(* attempt until after the last.                                           *)
(***************************************************************************)
LockDevices_bug(x) == mutex_ctx # "timer" /\ mutex_ctx' = x

LockDevices(x) == mutex_ctx = "none" /\ mutex_ctx' = x

Read(x) ==
  /\ line[x] = "idle"
  /\ LockDevices(x)
  /\ line' = [line EXCEPT ![x] = "ask"]
  /\ UNCHANGED <<receiver, dblock, index, marked, messages>>

AskFails(x) ==
  /\ line[x] = "ask"
  /\ line' = [line EXCEPT ![x] = "sleep"]
  /\ UNCHANGED <<receiver, dblock, mutex_ctx, index, marked, messages>>

Finish(x) ==        \* with a value or without
  /\ line' = [line EXCEPT ![x] = "idle"]
  /\ index' = [index EXCEPT ![x] = 0]
  /\ IF x = "receiver"
       THEN sb' = Tail(sb) /\ UNCHANGED mutex_ctx
       ELSE mutex_ctx' = "none" /\ UNCHANGED sb
  /\ UNCHANGED <<lacking, rpc, report, asked, dblock, marked, messages>>

AskSucceeds(x) == line[x] = "ask" /\ Finish(x)

(***************************************************************************)
(* modbus_..._retry: after the sleep the failure is counted, and the       *)
(* request repeated unless the count has passed RETRY_TIMES.               *)
(***************************************************************************)
Counted_bug(x) == 0                 \* the failures are not counted

Counted(x) == index[x] + 1

MayRepeat(x) == Counted(x) <= RETRY_TIMES

Repeat(x) ==
  /\ line[x] = "sleep" /\ MayRepeat(x)
  /\ line' = [line EXCEPT ![x] = "ask"]
  /\ index' = [index EXCEPT ![x] = Counted(x)]
  /\ UNCHANGED <<receiver, dblock, mutex_ctx, marked, messages>>

LastFailure(x) == line[x] = "sleep" /\ ~MayRepeat(x) /\ Finish(x)

-----------------------------------------------------------------------------
(***************************************************************************)
(* mutex_db.  When the call fails, the receiver and the alarm thread       *)
(* unlock it and go on to unlock it again.                                 *)
(***************************************************************************)
DbFree == ~mutex_db

DbLock(x) ==
  /\ at[x] = "out" /\ DbFree
  /\ x = "receiver" => rpc = "mark"
  /\ mutex_db' = TRUE
  /\ at' = [at EXCEPT ![x] = "in"]
  /\ UNCHANGED <<receiver, devices, marked, messages, refused, doubled>>

DbUnlock(x) ==
  /\ mutex_db' = FALSE
  /\ at' = [at EXCEPT ![x] = "out"]
  /\ rpc' = IF x = "receiver" THEN "poll" ELSE rpc
  /\ report' = IF x = "receiver" THEN NoReport ELSE report
  /\ UNCHANGED <<lacking, sb, asked, devices, messages, refused>>

Named == {t \in ReportTime : RowText(t) = reverse_time(report.t)}

Mark ==
  /\ at["receiver"] = "in" /\ ReportTable[report.kind] \in Tables
  /\ marked' = marked \cup Named
  /\ DbUnlock("receiver")
  /\ UNCHANGED doubled

Store(x) ==         \* a reading, an aggregate, an alarm
  /\ x # "receiver" /\ at[x] = "in"
  /\ DbUnlock(x)
  /\ UNCHANGED <<marked, doubled>>

Refused(x) ==       \* a statement on a table that does not exist always is
  IF x = "receiver" /\ ReportTable[report.kind] \notin Tables
    THEN UNCHANGED refused
    ELSE refused < MaxRefused /\ refused' = refused + 1

AfterRefusal(x) == IF x = "timer" THEN "out" ELSE "again"

DbRefuses(x) ==
  /\ at[x] = "in"
  /\ Refused(x)
  /\ mutex_db' = FALSE
  /\ at' = [at EXCEPT ![x] = AfterRefusal(x)]
  /\ UNCHANGED <<receiver, devices, marked, messages, doubled>>

UnlockAgain(x) ==
  /\ at[x] = "again"
  /\ DbUnlock(x)
  /\ doubled' = doubled + 1
  /\ UNCHANGED marked

-----------------------------------------------------------------------------
(***************************************************************************)
(* get_minute_data, get_hour_data, get_day_data: call after call, none of  *)
(* them with mutex_db; a first one that fails or finds nothing is the last.*)
(***************************************************************************)
Select ==
  /\ rpc = "query" /\ asked > 0 /\ at["receiver"] = "out"
  /\ at' = [at EXCEPT !["receiver"] = "bare"]
  /\ UNCHANGED <<receiver, mutex_db, refused, doubled, devices, marked, messages>>

Selected ==
  /\ at["receiver"] = "bare"
  /\ at' = [at EXCEPT !["receiver"] = "out"]
  /\ asked' \in {asked - 1, 0}
  /\ UNCHANGED <<lacking, rpc, report, sb, mutex_db, refused, doubled, devices,
                 marked, messages>>

Reply ==
  /\ rpc = "query" /\ asked = 0
  /\ rpc' = "poll"
  /\ UNCHANGED <<lacking, report, sb, asked, dblock, devices, marked, messages>>

-----------------------------------------------------------------------------
Message ==
  \/ \E k \in DOMAIN ReportTable, t \in ReportTime : TakeReport(k, t)
  \/ \E items \in {<<"known">>, <<"unknown", "known">>} : TakeSet(items)
  \/ \E n \in 1 .. MaxAsked : TakeQuery(n)

Query == Select \/ Selected \/ Reply

Items == SkipItem \/ SetItem \/ AllSet

Request(x) == AskFails(x) \/ AskSucceeds(x) \/ Repeat(x) \/ LastFailure(x)

Call(x) ==
  (x = "receiver" /\ Mark) \/ Store(x) \/ DbRefuses(x) \/ UnlockAgain(x)

LocksNext ==
  \/ Message \/ Items \/ Query
  \/ \E x \in Reader : Read(x)
  \/ \E x \in Thread : Request(x) \/ DbLock(x) \/ Call(x)

LocksFairness ==
  /\ WF_lockVars(Items) /\ WF_lockVars(Query)
  /\ \A x \in Thread : WF_lockVars(Request(x)) /\ WF_lockVars(Call(x))
  /\ SF_lockVars(DbLock("receiver"))

LocksSpec == LocksInit /\ [][LocksNext]_lockVars /\ LocksFairness

-----------------------------------------------------------------------------
(***************************************************************************)
(* Two threads are in the database together only while the receiver's      *)
(* query makes one of its calls, or after a failed call has been followed  *)
(* by a second unlocking: the query is one more inside, and so is at most  *)
(* one for each such unlocking (gather.c 182-248, 451, 477, 2248-2254).    *)
(***************************************************************************)
Inside == {x \in Thread : at[x] \in {"in", "bare"}}

Querying == IF rpc = "query" THEN 1 ELSE 0

DbShared == Cardinality(Inside) <= 1 + doubled + Querying

(***************************************************************************)
(* The reports of undelivered packets leave no trace: that of a minute     *)
(* packet finds no row, for its time has milliseconds and the row's has    *)
(* none, and the others fail before (gather.c 191-249, 1990-2005).         *)
(***************************************************************************)
ReportsMarkNothing == marked = {}

(***************************************************************************)
(* Readings never meet on the line to the devices, not even between two    *)
(* attempts: only a value that a server sets can meet one (gather.c 384,   *)
(* 844, 1015, 2193).                                                       *)
(***************************************************************************)
ReadersAlone ==
  \A x, y \in Reader : (line[x] # "idle" /\ line[y] # "idle") => x = y

LocksKeep == DbShared /\ ReadersAlone

(***************************************************************************)
(* The receiver is done with each message in the end, whatever the devices *)
(* answer and the database refuses, or gather has crashed.                 *)
(***************************************************************************)
CommandEnds == (rpc \in {"mark", "item", "query"}) ~> (rpc \in {"poll", "dead"})
=============================================================================

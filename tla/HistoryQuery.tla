---------------------------- MODULE HistoryQuery ----------------------------
(***************************************************************************)
(* A server asks for the history data of an interval: gather's receiver    *)
(* thread looks the times up, and then for each time the rows, and sends   *)
(* them.  It reads the tables without mutex_db, while an aggregating       *)
(* thread inserts row after row, one for each pollutant of a time, and     *)
(* deletes old ones.  The three kinds of history data have a function of   *)
(* the same form each.  Whether a packet waits for room in its queue is    *)
(* the matter of GatherFanout; here it goes at once.                       *)
(***************************************************************************)
EXTENDS TimeText, FiniteSets, SequencesExt

CONSTANTS
  MaxTime,      \* bound: the times for which there may be rows, from 1
  Pols,         \* pollutants that have a row for each time
  Slots,        \* times that timedata can hold
  MaxChange,    \* bound: changes of the table
  MaxRefusal    \* bound: calls that the database refuses

ASSUME QueryAssumption ==
  /\ {MaxTime, Pols, Slots, MaxChange, MaxRefusal} \subseteq Nat
  /\ Pols > 0 /\ Slots > 0

Time == 1 .. MaxTime
Kind == {"minute", "hour", "day"}

VARIABLES
  kind,         \* what is asked for
  begt, endt,   \* the interval
  rows,         \* rows of each time in the table of that kind
  qpc,          \* where the query stands
  timedata,     \* the times still to be sent
  changes,      \* changes of the table so far
  refusals,     \* refused calls so far
  whole,        \* history: times asked for that have had all their rows
  sent          \* history: rows sent for each time

query    == <<kind, begt, endt>>
queryVars == <<query, rows, qpc, timedata, changes, refusals, whole, sent>>

QueryTypeOK ==
  /\ kind \in Kind /\ begt \in Time /\ endt \in Time
  /\ rows \in [Time -> 0 .. Pols]
  /\ qpc \in {"begin", "times", "rows", "executed", "ended", "dead"}
  /\ timedata \in Seq(Time)
  /\ changes \in 0 .. MaxChange /\ refusals \in 0 .. MaxRefusal
  /\ whole \subseteq Time /\ sent \in [Time -> 0 .. Pols]

QueryInit ==
  /\ kind \in Kind /\ begt \in Time /\ endt \in Time
  /\ rows \in [Time -> {0, Pols}]
  /\ qpc = "begin" /\ timedata = <<>>
  /\ changes = 0 /\ refusals = 0
  /\ whole = {} /\ sent = [t \in Time |-> 0]

-----------------------------------------------------------------------------
Asked == {t \in Time : begt < t /\ t <= endt}

Respond ==
  /\ qpc = "begin"
  /\ qpc' = "times"
  /\ whole' = {t \in Asked : rows[t] = Pols}
  /\ UNCHANGED <<query, rows, timedata, changes, refusals, sent>>

(***************************************************************************)
(* The distinct times, in any order: more of them than there is room for   *)
(* overwrite what follows on the stack.                                    *)
(***************************************************************************)
Found ==
  {t \in Time : /\ rows[t] > 0
                /\ TextLeq(reverse_time(begt), RowText(t))
                /\ TextLeq(RowText(t), reverse_time(endt))}

Times_bug(f) == {Tail(s) : s \in SetToSeqs(f)}      \* the first is skipped

Times(f) == SetToSeqs(f)

Refuse ==
  /\ refusals < MaxRefusal
  /\ refusals' = refusals + 1

SelectTimes ==
  /\ qpc = "times" /\ Found # {}
  /\ timedata' \in Times(Found)
  /\ \/ qpc' = "rows"
     \/ Cardinality(Found) > Slots /\ qpc' = "dead"
  /\ UNCHANGED <<query, rows, changes, refusals, whole, sent>>

NoTimes ==          \* the server gets no further word
  /\ qpc = "times"
  /\ qpc' = "ended"
  /\ (Found = {} /\ UNCHANGED refusals) \/ Refuse
  /\ UNCHANGED <<query, rows, timedata, changes, whole, sent>>

SendRows ==
  /\ qpc = "rows" /\ timedata # <<>>
  /\ timedata' = Tail(timedata)
  /\ sent' = [sent EXCEPT ![Head(timedata)] = rows[Head(timedata)]]
  /\ UNCHANGED <<query, rows, qpc, changes, refusals, whole>>

SkipRows ==
  /\ qpc = "rows" /\ timedata # <<>>
  /\ timedata' = Tail(timedata)
  /\ Refuse
  /\ UNCHANGED <<query, rows, qpc, changes, whole, sent>>

Execute ==
  /\ qpc = "rows" /\ timedata = <<>>
  /\ qpc' = "executed"
  /\ UNCHANGED <<query, rows, timedata, changes, refusals, whole, sent>>

Steps ==
  Respond \/ SelectTimes \/ NoTimes \/ SendRows \/ SkipRows \/ Execute

get_minute_data == kind = "minute" /\ Steps
get_hour_data   == kind = "hour" /\ Steps
get_day_data    == kind = "day" /\ Steps

-----------------------------------------------------------------------------
(***************************************************************************)
(* The aggregating thread of that kind inserts, the one above deletes.     *)
(***************************************************************************)
Lacks(t) == rows[t] < Pols

InsertRow(t) ==
  /\ changes < MaxChange /\ Lacks(t)
  /\ rows' = [rows EXCEPT ![t] = @ + 1]
  /\ changes' = changes + 1
  /\ UNCHANGED <<query, qpc, timedata, refusals, whole, sent>>

DeleteRow(t) ==     \* only minute data is deleted, after a day
  /\ kind = "minute"
  /\ changes < MaxChange /\ rows[t] > 0
  /\ rows' = [rows EXCEPT ![t] = @ - 1]
  /\ changes' = changes + 1
  /\ whole' = whole \ {t}
  /\ UNCHANGED <<query, qpc, timedata, refusals, sent>>

QueryNext ==
  \/ get_minute_data \/ get_hour_data \/ get_day_data
  \/ \E t \in Time : InsertRow(t) \/ DeleteRow(t)

QuerySpec == QueryInit /\ [][QueryNext]_queryVars

-----------------------------------------------------------------------------
(***************************************************************************)
(* When a query is reported as executed, the server has got every time for *)
(* which all rows were there from the beginning to the end of the query,   *)
(* with all of them, as long as the database refused no call; a time at    *)
(* the beginning of the interval is not among them (gather.c 412-530 and   *)
(* its two copies).                                                        *)
(***************************************************************************)
QueryComplete ==
  (qpc = "executed" /\ refusals = 0) => \A t \in whole : sent[t] = Pols

(***************************************************************************)
(* A query over at most as many intervals as timedata has room for does    *)
(* not overrun it, although the times are copied without a look at their   *)
(* number (gather.c 446, 462): the time at the beginning is not found.     *)
(***************************************************************************)
NoOverrun == qpc = "dead" => endt - begt > Slots

QueryAnswered == QueryComplete /\ NoOverrun
=============================================================================

-------------------------- MODULE FieldAggregation --------------------------
(***************************************************************************)
(* The aggregation as the releases in the field do it, those that are kept *)
(* under src/stable.                                                       *)
(*                                                                         *)
(* v4.3 differs from the present in how long it keeps rows only.  v3.7     *)
(* takes the time before its sleeps, and its queries do not ask for        *)
(* 'localtime': they compare rows under local time with universal time, so *)
(* that each finds the rows of a whole zone besides those of its interval, *)
(* and deletes rows a zone later.  It knows no command that sets the       *)
(* clock: its timers are set once, when gather starts.                     *)
(***************************************************************************)
EXTENDS Aggregation

(***************************************************************************)
(* v4.3.                                                                   *)
(***************************************************************************)
sitepols_v43(t) == Collect(t)

thread_min_v43  == Thread(1)
thread_hour_v43 == Thread(2)
thread_day_v43  == Thread(3)

start_v43 == Start      \* three seconds late

V43 ==
  /\ release = "v4.3"
  /\ \/ Tick \/ Reboot \/ start_v43
     \/ \E t \in reading : sitepols_v43(t)
     \/ thread_min_v43 \/ thread_hour_v43 \/ thread_day_v43

-----------------------------------------------------------------------------
(***************************************************************************)
(* v3.7.                                                                   *)
(***************************************************************************)
sitepols_v37(t) == Collect(t)

thread_min_v37  == Thread(1)
thread_hour_v37 == Thread(2)
thread_day_v37  == Thread(3)

start_v37 == Start      \* five seconds late, with timers that are aligned

V37 ==
  /\ release = "v3.7"
  /\ \/ Tick \/ Reboot \/ start_v37
     \/ \E t \in reading : sitepols_v37(t)
     \/ thread_min_v37 \/ thread_hour_v37 \/ thread_day_v37

-----------------------------------------------------------------------------
FieldInit == InitOf("v4.3") \/ InitOf("v3.7")

FieldNext == V43 \/ V37

FieldSpec == FieldInit /\ [][FieldNext]_vars
=============================================================================

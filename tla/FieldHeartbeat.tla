--------------------------- MODULE FieldHeartbeat ---------------------------
(***************************************************************************)
(* The client's session as the release v4.3 in the field keeps it          *)
(* (src/stable/v4.3).  It does not count its heartbeats: the first that is *)
(* not answered in time ends the session, and so does a timer that was     *)
(* still armed when the session before it ended for another reason.        *)
(***************************************************************************)
EXTENDS Heartbeat

heartbeat_v43 == field /\ Sent(0) /\ senddog' = 0

timeout_v43 == field /\ Fire(1)

(***************************************************************************)
(* The threads of v4.3: what they share with the present is as there.      *)
(***************************************************************************)
heartbeat_routine_v43 == Begin \/ heartbeat_v43 \/ SendFails \/ Wake

respond_heartbeat_v43 == Receive

receiver_routine_v43 ==
  \/ Listen \/ respond_heartbeat_v43 \/ ReceiveOther \/ Wait \/ Forward
  \/ ReceiveFails \/ ReceiveEnd

main_v43 == Login \/ ClearDog \/ SeeError \/ Close

watchdog_v43 == WatchdogExpire

V43 ==
  /\ field
  /\ \/ main_v43 \/ heartbeat_routine_v43 \/ timeout_v43
     \/ receiver_routine_v43 \/ watchdog_v43 \/ SigPipe
     \/ ServerAnswers \/ \E s \in {"good", "silent"} : ServerTurns(s)

FieldFairness ==
  WF_vars(timeout_v43) /\ WF_vars(server = "good" /\ heartbeat_v43)

(***************************************************************************)
(* Any release.                                                            *)
(***************************************************************************)
AnySpec ==
  /\ Init \/ InitOf(TRUE)
  /\ [][(~field /\ Next) \/ V43]_vars
  /\ Fairness /\ FieldFairness
=============================================================================

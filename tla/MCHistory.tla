----------------------------- MODULE MCHistory -----------------------------
(***************************************************************************)
(* What becomes of history data, for TLC: how a client resends it (two     *)
(* packets, one drop of the link, two callbacks side by side), how gather  *)
(* answers a server that asks for it, and how gather's threads, among them *)
(* the one that takes the reports of undelivered packets and the queries,  *)
(* share the database and the devices.  The three have no variable in      *)
(* common: each is explored by itself, while the other two rest in an      *)
(* initial state.                                                          *)
(***************************************************************************)
EXTENDS HistoryResend, HistoryQuery, GatherLocks

MCTime == 1 .. 2

VARIABLE part       \* the one that is explored; never changes

allVars == <<part, vars, queryVars, lockVars>>

QueryRests ==       \* one of its initial states is enough
  kind = "minute" /\ begt = 1 /\ endt = 1 /\ rows = [t \in Time |-> 0]

LocksRest == ~lacking

HistoryInit ==
  /\ Init /\ QueryInit /\ LocksInit
  /\ part \in {"resend", "query", "locks"}
  /\ part # "query" => QueryRests
  /\ part # "locks" => LocksRest

HistoryNext ==
  /\ UNCHANGED part
  /\ \/ part = "resend" /\ Next /\ UNCHANGED <<queryVars, lockVars>>
     \/ part = "query" /\ QueryNext /\ UNCHANGED <<vars, lockVars>>
     \/ part = "locks" /\ LocksNext /\ UNCHANGED <<vars, queryVars>>

(***************************************************************************)
(* The fairness of HistoryResend and of GatherLocks, where they are        *)
(* explored.                                                               *)
(***************************************************************************)
HistoryFairness ==
  /\ WF_vars(part = "resend" /\ Login)
  /\ WF_vars(part = "resend" /\ Sender)
  /\ WF_vars(part = "resend" /\ Routine)
  /\ WF_vars(part = "resend" /\ \E c \in Callback : Expire(c))
  /\ \A c \in Callback : WF_vars(part = "resend" /\ Run(c))
  /\ WF_lockVars(part = "locks" /\ Items)
  /\ WF_lockVars(part = "locks" /\ Query)
  /\ \A x \in Thread : WF_lockVars(part = "locks" /\ Request(x))
  /\ \A x \in Thread : WF_lockVars(part = "locks" /\ Call(x))
  /\ SF_lockVars(part = "locks" /\ DbLock("receiver"))

HistorySpec == HistoryInit /\ [][HistoryNext]_allVars /\ HistoryFairness
=============================================================================

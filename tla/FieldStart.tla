----------------------------- MODULE FieldStart -----------------------------
(***************************************************************************)
(* The start as the releases in the field do it, those that are kept under *)
(* src/stable; v3.7 and v4.3 have the same main.c.                         *)
(*                                                                         *)
(* main opens the queues of the watchdog as they are, with what a former   *)
(* run left in them, and gather opens those of the clients as they are: it *)
(* creates only what does not exist.  A client that cannot be forked is    *)
(* skipped, and left to the watchdog thread.                               *)
(***************************************************************************)
EXTENDS Startup

open_v43 == OpenWatchdog

gather_v43 == ForkGather

client_v43(i) ==
  \/ ForkClient(i)
  \/ /\ mpc = "clients" /\ cpc[i] = "off"
     /\ \A j \in 1 .. i - 1 : cpc[j] # "off"
     /\ deaths < MaxDeath /\ deaths' = deaths + 1
     /\ cpc' = [cpc EXCEPT ![i] = "gone"]
     /\ UNCHANGED <<processes, watchdog, main, history, mpc, kept, gstep, name,
                    held, leftover, early, again>>

watchdog_v43 ==
  /\ mpc = "run"
  /\ Receive \/ Miss \/ Report
  /\ UNCHANGED start

main_v43 ==
  \/ StartAgain \/ ForkInVain \/ RebootAll
  \/ mpc = "run" /\ Reset /\ UNCHANGED start

-----------------------------------------------------------------------------
(***************************************************************************)
(* gather blocks the signals, opens or creates the queues and starts its   *)
(* threads; nothing is removed.                                            *)
(***************************************************************************)
create_v43 ==
  /\ \/ Block /\ gstep' = 2 * N + 1
     \/ Serve /\ gstep' = gstep + 1
     \/ (\E i \in Client, k \in Kind : Create(i, k)) /\ gstep' = gstep + 1
  /\ UNCHANGED <<vars, mpc, kept, cpc, held, leftover, early, again>>

queues_v43(i) == OpenData(i) \/ OpenBack(i) \/ ClientExits(i)

hello_v43(i) ==
  /\ mpc = "run"
  /\ Hello(i)
  /\ UNCHANGED start

-----------------------------------------------------------------------------
FieldStep ==
  \/ open_v43 \/ gather_v43 \/ MainExits
  \/ create_v43 \/ GatherExits \/ EarlySignal
  \/ \E i \in Client : client_v43(i) \/ queues_v43(i)
  \/ Watch
  \/ watchdog_v43 \/ main_v43
  \/ \E i \in Proc : hello_v43(i)
  \/ mpc = "run" /\ (Tick \/ \E i \in Proc : Die(i)) /\ UNCHANGED start

FieldStartInit == StartInitOf(TRUE)

FieldStartNext == field /\ FieldStep /\ UNCHANGED field

FieldStartSpec == FieldStartInit /\ [][FieldStartNext]_svars
=============================================================================

------------------------------- MODULE MCLink -------------------------------
(***************************************************************************)
(* A client and its link, for TLC: the client's main loop and the signals  *)
(* to gather (LinkControl, one client), and the bytes that it receives     *)
(* (Receive).  They have no variable in common: each is explored by        *)
(* itself, while the other rests in an initial state.                      *)
(***************************************************************************)
EXTENDS LinkControl, Receive, Checksum

linkVars == <<vars, receiveVars>>

ReceiveRests == ReceiveInit /\ conf = Standard

LinkInit == Init /\ ReceiveInit

(***************************************************************************)
(* The receiver stays behind where the values have the standard width.     *)
(* Then there are three packets in the connection it is left in and in     *)
(* that of the day together, and four if none is damaged.                  *)
(***************************************************************************)
OldBound ==
  before' # <<>> => /\ conf = Standard
                    /\ Len(before' \o sent') <= IF damages' = 0 THEN 4 ELSE 3

LinkNext ==
  \/ ReceiveRests /\ Next /\ UNCHANGED receiveVars
  \/ Init /\ ReceiveNext /\ OldBound /\ UNCHANGED vars

(***************************************************************************)
(* The fairness of LinkControl, where it is explored.                      *)
(***************************************************************************)
LinkFairness ==
  \A c \in Client :
    /\ WF_vars(ReceiveRests /\ (ConnectOk(c) \/ ConnectFail(c)))
    /\ WF_vars(ReceiveRests /\ Settled(c))
    /\ WF_vars(ReceiveRests /\ CreateThreads(c))
    /\ WF_vars(ReceiveRests /\ SeeError(c))
    /\ WF_vars(ReceiveRests /\ CloseLink(c))
    /\ WF_vars(ReceiveRests /\ Reconnect(c))
    /\ WF_vars(ReceiveRests /\ Reboot(c))
    /\ \A s \in Signal : WF_vars(ReceiveRests /\ Handle(c, s))

LinkSpec == LinkInit /\ [][LinkNext]_linkVars /\ LinkFairness
=============================================================================

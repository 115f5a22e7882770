------------------------------ MODULE Startup ------------------------------
(***************************************************************************)
(* How the processes start and find each other's queues, and the           *)
(* supervision that follows.                                               *)
(*                                                                         *)
(* main removes and creates the queues of the watchdog, starts gather,     *)
(* sleeps a second and starts the clients.  gather removes the queues a    *)
(* former run left and creates new ones, first all that carry data, then   *)
(* all that lead back; a client opens both without creating them and exits *)
(* when one does not exist.  Nothing makes a client wait for gather but    *)
(* main's second, so that the two interleave freely here.  Queues survive  *)
(* the program but not the terminal: a former run has left some only when  *)
(* the program was started again.                                          *)
(*                                                                         *)
(* When all have arrived, the actions of Supervisor follow.                *)
(*                                                                         *)
(* The releases in the field remove nothing (FieldStart); `field' says     *)
(* whether one of them runs.                                               *)
(***************************************************************************)
EXTENDS Supervisor, FiniteSets

Client == 1 .. N
Kind   == {"data", "back"}      \* to the client, and from it

VARIABLES
  field,        \* never changes
  mpc,          \* main: "remove", "open", "gather", "clients", "run", "halt"
  kept,         \* hellos a former run left in the queues of the watchdog
  gstep,        \* what gather has done; Gone when it has exited
  name,         \* the queue that a name leads to: none, an old or a new one
  cpc,          \* a client: "off", "data", "back", "run", "gone"
  held,         \* the queue it has opened under a name
  leftover,     \* history: a former run's queues were there
  early,        \* history: the clients that exited while starting
  again         \* history: the clients that main has started again

Gone == -1
start == <<mpc, kept, gstep, name, cpc, held, leftover, early, again>>
svars == <<vars, start, field>>

(***************************************************************************)
(* gather's start is one sequence: signals are blocked, two names removed  *)
(* for each client, the data queues and then the back queues created, the  *)
(* threads started.                                                        *)
(***************************************************************************)
Slot_bug(op, i, k) ==   \* queue by queue
  (IF k = "data" THEN 0 ELSE 2 * N) + 2 * i - (IF op = "remove" THEN 1 ELSE 0)

Slot(op, i, k) ==
  IF op = "remove"
    THEN 2 * i - (IF k = "data" THEN 1 ELSE 0)
    ELSE (IF k = "data" THEN 2 * N ELSE 3 * N) + i

Serving == 4 * N + 2

StartTypeOK ==
  /\ TypeOK
  /\ field \in BOOLEAN
  /\ mpc \in {"remove", "open", "gather", "clients", "run", "halt"}
  /\ kept \in [Proc -> 0 .. Cap]
  /\ gstep \in Gone .. Serving
  /\ name \in [Client -> [Kind -> {"none", "old", "new"}]]
  /\ cpc \in [Client -> {"off", "data", "back", "run", "gone"}]
  /\ held \in [Client -> [Kind -> {"none", "old", "new"}]]
  /\ leftover \in BOOLEAN
  /\ early \subseteq Client /\ again \subseteq Client

-----------------------------------------------------------------------------
(***************************************************************************)
(* The program starts, after another run of it or after a reboot.          *)
(***************************************************************************)
Nothing == [i \in Client |-> [k \in Kind |-> "none"]]

Begin == IF field THEN "open" ELSE "remove"

StartInitOf(f) ==
  /\ Init
  /\ field = f
  /\ mpc = Begin /\ gstep = 0
  /\ cpc = [i \in Client |-> "off"]
  /\ held = Nothing
  /\ early = {} /\ again = {}
  /\ name \in [Client -> [Kind -> {"none", "old"}]]
  /\ leftover = (name # Nothing)
  /\ kept \in IF leftover THEN [Proc -> {0, Cap}] ELSE {[i \in Proc |-> 0]}

StartInit == StartInitOf(FALSE)

-----------------------------------------------------------------------------
(***************************************************************************)
(* main until it watches.  It exits when the database or a queue cannot be *)
(* opened or a fork is refused, and nothing starts it again.               *)
(***************************************************************************)
RemoveWatchdog_bug ==
  /\ mpc = "remove" /\ mpc' = "open"
  /\ UNCHANGED <<vars, kept, gstep, name, cpc, held, leftover, early, again>>

RemoveWatchdog ==
  /\ mpc = "remove" /\ mpc' = "open"
  /\ kept' = [i \in Proc |-> 0]
  /\ UNCHANGED <<vars, gstep, name, cpc, held, leftover, early, again>>

OpenWatchdog ==     \* O_CREAT: what is in a queue stays there
  /\ mpc = "open" /\ mpc' = "gather"
  /\ hellos' = kept
  /\ UNCHANGED <<up, due, watchdog, main, deaths, history, kept, gstep, name,
                 cpc, held, leftover, early, again>>

ForkGather ==
  /\ mpc = "gather" /\ mpc' = "clients"
  /\ UNCHANGED <<vars, kept, gstep, name, cpc, held, leftover, early, again>>

ForkClient(i) ==
  /\ mpc = "clients" /\ cpc[i] = "off"
  /\ \A j \in 1 .. i - 1 : cpc[j] # "off"
  /\ cpc' = [cpc EXCEPT ![i] = "data"]
  /\ UNCHANGED <<vars, mpc, kept, gstep, name, held, leftover, early, again>>

MainExits ==
  /\ mpc \in {"remove", "open", "gather", "clients"}
  /\ deaths < MaxDeath /\ deaths' = deaths + 1
  /\ mpc' = "halt"
  /\ UNCHANGED <<processes, watchdog, main, history, kept, gstep, name, cpc,
                 held, leftover, early, again>>

-----------------------------------------------------------------------------
(***************************************************************************)
(* gather.                                                                 *)
(***************************************************************************)
GatherRuns == mpc \in {"clients", "halt"} /\ gstep # Gone /\ gstep < Serving

Block ==
  /\ GatherRuns /\ gstep = 0
  /\ name' = name

Remove(i, k) ==
  /\ GatherRuns /\ gstep = Slot("remove", i, k)
  /\ name' = [name EXCEPT ![i][k] = "none"]

Create(i, k) ==     \* O_CREAT: a queue that exists is opened
  /\ GatherRuns /\ gstep = Slot("create", i, k)
  /\ name' = [name EXCEPT ![i][k] = IF @ = "none" THEN "new" ELSE @]

Serve ==
  /\ GatherRuns /\ gstep = Serving - 1
  /\ name' = name

GatherStep ==
  /\ \/ Block \/ Serve
     \/ \E i \in Client, k \in Kind : Remove(i, k) \/ Create(i, k)
  /\ gstep' = gstep + 1
  /\ UNCHANGED <<vars, mpc, kept, cpc, held, leftover, early, again>>

GatherExits ==
  /\ GatherRuns
  /\ deaths < MaxDeath /\ deaths' = deaths + 1
  /\ gstep' = Gone
  /\ UNCHANGED <<processes, watchdog, main, history, mpc, kept, name, cpc, held,
                 leftover, early, again>>

(***************************************************************************)
(* A client that was quicker has announced to gather that its link is      *)
(* down, and gather has not blocked signals yet: the signal ends it.       *)
(***************************************************************************)
EarlySignal ==
  /\ GatherRuns /\ gstep = 0
  /\ \E i \in Client : cpc[i] = "run"
  /\ gstep' = Gone
  /\ UNCHANGED <<vars, mpc, kept, name, cpc, held, leftover, early, again>>

-----------------------------------------------------------------------------
(***************************************************************************)
(* A client.                                                               *)
(***************************************************************************)
Opened(q, p) == IF q = "none" THEN "gone" ELSE p

OpenData(i) ==
  /\ cpc[i] = "data"
  /\ held' = [held EXCEPT ![i].data = name[i].data]
  /\ cpc' = [cpc EXCEPT ![i] = Opened(name[i].data, "back")]
  /\ UNCHANGED <<vars, mpc, kept, gstep, name, leftover, early, again>>

OpenBack(i) ==
  /\ cpc[i] = "back"
  /\ held' = [held EXCEPT ![i].back = name[i].back]
  /\ cpc' = [cpc EXCEPT ![i] = Opened(name[i].back, "run")]
  /\ UNCHANGED <<vars, mpc, kept, gstep, name, leftover, early, again>>

ClientExits(i) ==       \* database, settings, a timer or a thread
  /\ cpc[i] \in {"data", "back"}
  /\ deaths < MaxDeath /\ deaths' = deaths + 1
  /\ cpc' = [cpc EXCEPT ![i] = "gone"]
  /\ UNCHANGED <<processes, watchdog, main, history, mpc, kept, gstep, name,
                 held, leftover, early, again>>

(***************************************************************************)
(* All have arrived.                                                       *)
(***************************************************************************)
Arrived ==
  /\ mpc = "clients"
  /\ gstep \in {Gone, Serving}
  /\ \A i \in Client : cpc[i] \in {"run", "gone"}

Watch ==
  /\ Arrived
  /\ mpc' = "run"
  /\ up' = [i \in Proc |-> IF i = 0 THEN gstep = Serving ELSE cpc[i] = "run"]
  /\ early' = {i \in Client : cpc[i] = "gone"}
  /\ UNCHANGED <<due, hellos, watchdog, main, deaths, history, kept, gstep,
                 name, cpc, held, leftover, again>>

-----------------------------------------------------------------------------
(***************************************************************************)
(* Supervision.  A client that main starts again opens what the names lead *)
(* to by then, and exits at once if gather has never come to create them.  *)
(***************************************************************************)
Supervise ==
  /\ mpc = "run"
  /\ \/ Receive \/ Miss \/ Report \/ Reset \/ Tick
     \/ \E i \in Proc : Hello(i) \/ Die(i)
  /\ UNCHANGED start

Created(i) == \A k \in Kind : name[i][k] # "none"

ForkInVain ==
  /\ mpc = "run"
  /\ flag > 0 /\ ~forked /\ ~Created(flag)
  /\ forked' = TRUE
  /\ gone' = [gone EXCEPT ![flag] = 0]
  /\ early' = early \ {flag}
  /\ UNCHANGED <<processes, watchdog, flag, refused, deaths, misses,
                 mpc, kept, gstep, name, cpc, held, leftover, again>>

StartAgain ==
  /\ mpc = "run"
  /\ flag > 0 => Created(flag)
  /\ Fork
  /\ held' = [held EXCEPT ![flag] = name[flag]]
  /\ early' = early \ {flag} /\ again' = again \cup {flag}
  /\ UNCHANGED <<mpc, kept, gstep, name, cpc, leftover>>

RebootAll ==
  /\ mpc = "run"
  /\ Reboot
  /\ mpc' = Begin /\ gstep' = 0
  /\ cpc' = [i \in Client |-> "off"]
  /\ held' = Nothing
  /\ name' = Nothing /\ leftover' = FALSE
  /\ early' = {} /\ again' = {}
  /\ kept' = [i \in Proc |-> 0]

StartStep ==
  \/ RemoveWatchdog \/ OpenWatchdog \/ ForkGather \/ MainExits
  \/ GatherStep \/ GatherExits \/ EarlySignal
  \/ \E i \in Client :
       ForkClient(i) \/ OpenData(i) \/ OpenBack(i) \/ ClientExits(i)
  \/ Watch
  \/ Supervise \/ StartAgain \/ ForkInVain \/ RebootAll

StartNext == ~field /\ StartStep /\ UNCHANGED field

StartSpec == StartInit /\ [][StartNext]_svars

-----------------------------------------------------------------------------
(***************************************************************************)
(* A client has both queues or serves nothing: when it reads gather's data *)
(* queue, its answers and commands reach the same gather, however the      *)
(* opening, removing and creating interleave (client.c 976-986, gather.c   *)
(* 2557-2594).                                                             *)
(***************************************************************************)
BothQueues ==
  \A i \in Client :
    (cpc[i] = "run" /\ held[i].data = name[i].data)
      => held[i].back = name[i].back

(***************************************************************************)
(* A running client listens to a queue nobody writes to only when a former *)
(* run had left one, gather removed it and was slower than main's second;  *)
(* and a client that is started again has gather's queues, for a gather    *)
(* that exited before it had created them is missed first (main.c 77, 228) *)
(* unless hellos were left for it.                                         *)
(***************************************************************************)
OrphanHasCause ==
  /\ \A i \in Client :
       (cpc[i] = "run" /\ gstep = Serving /\ held[i].data # name[i].data)
         => leftover /\ ~field
  /\ \A i \in again :
       \/ \A k \in Kind : held[i][k] = name[i][k] /\ gstep = Serving
       \/ kept[0] > 0

QueuesFound == BothQueues /\ OrphanHasCause

(***************************************************************************)
(* Hellos a former run left and main did not remove.                       *)
(***************************************************************************)
Left(i) == IF field THEN kept[i] ELSE 0

(***************************************************************************)
(* A client that exited while starting is missed at the first look, or one *)
(* look later for each hello that a former run left and main did not       *)
(* remove (main.c 185).                                                    *)
(***************************************************************************)
EarlyExitSeen ==
  (refused = 0) => \A i \in early : gone[i] <= Round * (1 + Left(i))

(***************************************************************************)
(* A backlog of hellos, which would hide a death, has a cause: beyond the  *)
(* two that the order of hello and look explains, and those that were left *)
(* by a former run, each further one takes misses that delayed the         *)
(* watchdog thread by a Period.                                            *)
(***************************************************************************)
BacklogHasCause ==
  (refused + Delay < Ahead) =>
    \A i \in Proc : Period * (hellos[i] - 2 - Left(i)) <= Grace * misses

DeathNoticed == DetectedInTime /\ BacklogHasCause
=============================================================================

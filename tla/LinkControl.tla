---------------------------- MODULE LinkControl ----------------------------
(***************************************************************************)
(* The link control of the client processes and the flag by which gather   *)
(* decides whether to queue data for a server.                             *)
(*                                                                         *)
(* Each client (client.c, main) repeats for ever: connect, log in, run the *)
(* session until a thread sets `error', tear the session down.  It tells   *)
(* gather what it is doing with two queued real-time signals: SIGRTMIN+1   *)
(* ("stop") and SIGRTMIN+2 ("start"), whose handlers in gather.c set and   *)
(* clear gather_stop[i].  gather blocks every signal in its own threads;   *)
(* only the short-lived threads of its timers take them, so a signal stays *)
(* pending until a timer expires (every ten seconds while the collection   *)
(* timers run), and stop and start found pending together are handled in   *)
(* either order: the two handlers do not mask each other, and the one      *)
(* whose frame is pushed last runs first.                                  *)
(***************************************************************************)
EXTENDS Naturals

CONSTANTS
  Client,         \* the client processes, one per server
  CONNECT_TIMES   \* failed attempts in a row after which the system reboots

ASSUME ConnectTimesAssumption == CONNECT_TIMES \in Nat

VARIABLES
  pc,           \* where main stands in its loop
  a_flag,       \* the flags of main that limit the stop signals
  b_flag,
  reboot_flag,  \* failed attempts since the last login
  error,        \* 0, or why the session must end: 1, 2 or 3
  once,         \* have the session threads been created?
  pending,      \* kinds of signal sent to gather and not handled yet
  gather_stop,  \* gather's flag: do not queue data for this client
  timers,       \* gather's four collection timers
  sessions,     \* history: logins so far, counted 0, 1, 2 (or more)
  stalled       \* history: have the collection timers ever been stopped?

vars == <<pc, a_flag, b_flag, reboot_flag, error, once, pending, gather_stop,
          timers, sessions, stalled>>

flags   == <<a_flag, b_flag>>
gather  == <<gather_stop, timers, stalled>>
Control == {"connect", "login", "settle", "spin", "linger", "quiet"}
Signal  == {"stop", "start"}

(***************************************************************************)
(* Type correctness.  A signal of a kind already pending adds nothing:     *)
(* handling a kind twice has the effect of handling it at its last place.  *)
(***************************************************************************)
TypeOK ==
  /\ pc \in [Client -> Control]
  /\ a_flag \in [Client -> BOOLEAN]
  /\ b_flag \in [Client -> BOOLEAN]
  /\ reboot_flag \in [Client -> 0 .. CONNECT_TIMES + 1]
  /\ error \in [Client -> 0 .. 3]
  /\ once \in [Client -> BOOLEAN]
  /\ pending \in [Client -> SUBSET Signal]
  /\ gather_stop \in [Client -> BOOLEAN]
  /\ timers \in {"running", "stopped", "armed"}
  /\ sessions \in [Client -> 0 .. 2]
  /\ stalled \in BOOLEAN

Init ==
  /\ pc = [c \in Client |-> "connect"]
  /\ a_flag = [c \in Client |-> FALSE]
  /\ b_flag = [c \in Client |-> FALSE]
  /\ reboot_flag = [c \in Client |-> 0]
  /\ error = [c \in Client |-> 0]
  /\ once = [c \in Client |-> FALSE]
  /\ pending = [c \in Client |-> {}]
  /\ gather_stop = [c \in Client |-> FALSE]
  /\ timers = "running"
  /\ sessions = [c \in Client |-> 0]
  /\ stalled = FALSE

-----------------------------------------------------------------------------
(***************************************************************************)
(* The client's main loop.                                                 *)
(***************************************************************************)

Goto(c, l)    == pc' = [pc EXCEPT ![c] = l]
sigqueue(c, s) == pending' = [pending EXCEPT ![c] = @ \cup {s}]

(***************************************************************************)
(* A failed attempt is counted and retried five seconds later.  The reboot *)
(* thread looks at the count every five seconds, so that no attempt is     *)
(* made past the limit: the guard is that bound.                           *)
(***************************************************************************)
CountFailure(c) ==
  /\ reboot_flag[c] <= CONNECT_TIMES
  /\ reboot_flag' = [reboot_flag EXCEPT ![c] = @ + 1]
  /\ Goto(c, "connect")

ConnectFail(c) ==   \* refused, unreachable, or five seconds in select
  /\ pc[c] = "connect"
  /\ IF a_flag[c] THEN UNCHANGED pending ELSE sigqueue(c, "stop")
  /\ a_flag' = [a_flag EXCEPT ![c] = TRUE]
  /\ CountFailure(c)
  /\ UNCHANGED <<b_flag, error, once, gather, sessions>>

ConnectOk(c) ==     \* main then waits in login for the server's answer
  /\ pc[c] = "connect"
  /\ Goto(c, "login")
  /\ UNCHANGED <<flags, reboot_flag, error, once, pending, gather, sessions>>

LoginFail(c) ==     \* a wrong answer, or the server closes the connection
  /\ pc[c] = "login"
  /\ IF a_flag[c] \/ b_flag[c]
       THEN UNCHANGED <<pending, b_flag>>
       ELSE sigqueue(c, "stop") /\ b_flag' = [b_flag EXCEPT ![c] = TRUE]
  /\ CountFailure(c)
  /\ UNCHANGED <<a_flag, error, once, gather, sessions>>

LoginOk_bug(c) ==           \* a_flag and b_flag are not set on success
  /\ pc[c] = "login"
  /\ reboot_flag' = [reboot_flag EXCEPT ![c] = 0]
  /\ error' = [error EXCEPT ![c] = 0]
  /\ sigqueue(c, "start")
  /\ sessions' = [sessions EXCEPT ![c] = IF @ = 0 THEN 1 ELSE 2]
  /\ Goto(c, "settle")
  /\ UNCHANGED <<flags, once, gather>>

LoginOk(c) ==
  /\ pc[c] = "login"
  /\ reboot_flag' = [reboot_flag EXCEPT ![c] = 0]
  /\ a_flag' = [a_flag EXCEPT ![c] = TRUE]
  /\ b_flag' = [b_flag EXCEPT ![c] = TRUE]
  /\ error' = [error EXCEPT ![c] = 0]
  /\ sigqueue(c, "start")
  /\ sessions' = [sessions EXCEPT ![c] = IF @ = 0 THEN 1 ELSE 2]
  /\ Goto(c, "settle")
  /\ UNCHANGED <<once, gather>>

(***************************************************************************)
(* main sleeps ten seconds after a signal.  While the collection timers    *)
(* run one of them expires within those ten seconds and gather handles     *)
(* what is pending; once timer_routine has stopped them, nothing says so   *)
(* until the first of them has expired again.                              *)
(***************************************************************************)
Slept(c) == timers = "running" => pending[c] = {}

Settled(c) ==
  /\ pc[c] = "settle"
  /\ Slept(c)
  /\ Goto(c, "spin")
  /\ UNCHANGED <<flags, reboot_flag, error, once, pending, gather, sessions>>

CreateThreads(c) == \* in the first session only
  /\ pc[c] = "spin"
  /\ error[c] = 0
  /\ ~once[c]
  /\ once' = [once EXCEPT ![c] = TRUE]
  /\ UNCHANGED <<pc, flags, reboot_flag, error, pending, gather, sessions>>

SeeError(c) ==
  /\ pc[c] = "spin"
  /\ error[c] # 0
  /\ Goto(c, "linger")
  /\ UNCHANGED <<flags, reboot_flag, error, once, pending, gather, sessions>>

CloseLink_bug(c) ==         \* the stop signal is forgotten
  /\ pc[c] = "linger"
  /\ Slept(c)
  /\ Goto(c, "quiet")
  /\ UNCHANGED <<flags, reboot_flag, error, once, pending, gather, sessions>>

CloseLink(c) ==     \* ten seconds after the error: close, tell gather
  /\ pc[c] = "linger"
  /\ Slept(c)
  /\ sigqueue(c, "stop")
  /\ Goto(c, "quiet")
  /\ UNCHANGED <<flags, reboot_flag, error, once, gather, sessions>>

Reconnect_bug(c) ==         \* without the second sleep
  /\ pc[c] = "quiet"
  /\ Goto(c, "connect")
  /\ UNCHANGED <<flags, reboot_flag, error, once, pending, gather, sessions>>

Reconnect(c) ==     \* ten more seconds
  /\ pc[c] = "quiet"
  /\ Slept(c)
  /\ Goto(c, "connect")
  /\ UNCHANGED <<flags, reboot_flag, error, once, pending, gather, sessions>>

(***************************************************************************)
(* What happens around main: the watchdog timer (1) and SIGPIPE (2) set    *)
(* `error' at any time, the receiver (3) once it exists.                   *)
(***************************************************************************)
RaiseError(c, e) ==
  /\ e = 3 => once[c]
  /\ error' = [error EXCEPT ![c] = e]
  /\ UNCHANGED <<pc, flags, reboot_flag, once, pending, gather, sessions>>

Reboot(c) ==        \* the whole terminal starts again
  /\ reboot_flag[c] > CONNECT_TIMES
  /\ pc' = [d \in Client |-> "connect"]
  /\ a_flag' = [d \in Client |-> FALSE]
  /\ b_flag' = [d \in Client |-> FALSE]
  /\ reboot_flag' = [d \in Client |-> 0]
  /\ error' = [d \in Client |-> 0]
  /\ once' = [d \in Client |-> FALSE]
  /\ pending' = [d \in Client |-> {}]
  /\ gather_stop' = [d \in Client |-> FALSE]
  /\ timers' = "running"
  /\ sessions' = [d \in Client |-> 0]
  /\ stalled' = FALSE

-----------------------------------------------------------------------------
(***************************************************************************)
(* gather.  A timer thread handles a pending signal (its watchdog timer    *)
(* does so even while the collection timers are stopped).                  *)
(***************************************************************************)
Handle(c, s) ==
  /\ s \in pending[c]
  /\ pending' = [pending EXCEPT ![c] = @ \ {s}]
  /\ gather_stop' = [gather_stop EXCEPT ![c] = (s = "stop")]
  /\ UNCHANGED <<pc, flags, reboot_flag, error, once, timers, sessions,
                 stalled>>

client == <<pc, flags, reboot_flag, error, once, pending, sessions>>

StopTimers ==       \* a server set the clock
  /\ timers # "stopped"
  /\ timers' = "stopped"
  /\ stalled' = TRUE
  /\ UNCHANGED <<client, gather_stop>>

StartTimers ==
  /\ timers = "stopped"
  /\ timers' = "armed"
  /\ UNCHANGED <<client, gather_stop, stalled>>

FirstExpiry ==      \* up to ten seconds after they are started
  /\ timers = "armed"
  /\ timers' = "running"
  /\ UNCHANGED <<client, gather_stop, stalled>>

-----------------------------------------------------------------------------
Main(c) ==
  \/ ConnectFail(c) \/ ConnectOk(c) \/ LoginFail(c) \/ LoginOk(c)
  \/ Settled(c) \/ CreateThreads(c) \/ SeeError(c) \/ CloseLink(c)
  \/ Reconnect(c)

Next ==
  \/ \E c \in Client :
       \/ Main(c)
       \/ \E e \in 1 .. 3 : RaiseError(c, e)
       \/ Reboot(c)
       \/ \E s \in Signal : Handle(c, s)
  \/ StopTimers \/ StartTimers \/ FirstExpiry

(***************************************************************************)
(* main's own steps end: its sleeps, and connect_to_server, whose select   *)
(* has a timeout.  gather's watchdog timer never stops, so that a pending  *)
(* signal is handled.  Nothing makes the server answer a login.            *)
(***************************************************************************)
Fairness ==
  /\ \A c \in Client :
       /\ WF_vars(ConnectOk(c) \/ ConnectFail(c))
       /\ WF_vars(Settled(c))
       /\ WF_vars(CreateThreads(c))
       /\ WF_vars(SeeError(c))
       /\ WF_vars(CloseLink(c))
       /\ WF_vars(Reconnect(c))
       /\ WF_vars(Reboot(c))
       /\ \A s \in Signal : WF_vars(Handle(c, s))

Spec == Init /\ [][Next]_vars /\ Fairness

-----------------------------------------------------------------------------
(***************************************************************************)
(* Between sessions nothing is queued for the server: when a client tries  *)
(* to connect again after a session, gather has handled its stop, and no   *)
(* signal is left that could undo it (client.c 1120-1125: stop, then ten   *)
(* seconds).                                                               *)
(***************************************************************************)
OfflineStopped ==
  \A c \in Client :
    (~stalled /\ sessions[c] > 0 /\ pc[c] \in {"connect", "login"})
      => (pending[c] = {} /\ gather_stop[c])

(***************************************************************************)
(* From the second login on, the start signal is never overtaken by an     *)
(* older stop: while a later session runs gather queues its data.  Each    *)
(* earlier signal was handled before the next was sent, and a_flag and     *)
(* b_flag keep failed attempts silent (client.c 1056-1058).                *)
(***************************************************************************)
LaterSessionFlows ==
  \A c \in Client :
    (~stalled /\ sessions[c] = 2 /\ pc[c] \in {"spin", "linger"})
      => ~gather_stop[c]

(***************************************************************************)
(* A session in which a thread has reported an error ends, and gather is   *)
(* told so, unless the terminal reboots first.                             *)
(***************************************************************************)
DropAnnounced ==
  \A c \in Client :
    (pc[c] = "spin" /\ error[c] # 0) ~> (gather_stop[c] \/ sessions[c] = 0)

(***************************************************************************)
(* What client.c:1067 says of the sleep after the start signal, "be sure   *)
(* gather process receive the signal": the session runs with the data      *)
(* flowing.  Not so in the first session after a failed attempt.           *)
(***************************************************************************)
StartHeeded ==
  \A c \in Client :
    (~stalled /\ pc[c] = "spin" /\ error[c] = 0) => ~gather_stop[c]
=============================================================================

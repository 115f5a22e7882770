------------------------------ MODULE Heartbeat ------------------------------
(***************************************************************************)
(* How a client notices that its session is dead.                          *)
(*                                                                         *)
(* heartbeat_routine arms a timer, sends a heartbeat, counts it and sleeps *)
(* a second longer than the timer; the receiver resets the count when the  *)
(* answer to the latest heartbeat comes; the timer's thread ends the       *)
(* session when the count is too high.  In case the heartbeat thread       *)
(* itself hangs in send, the watchdog timer counts its own expiries in     *)
(* senddog, which each heartbeat sent clears, and ends the session too.    *)
(*                                                                         *)
(* The threads outlive a session: close does not wake a thread that waits  *)
(* in recv or send, so that the receiver may sit on the socket of an old   *)
(* session, and neither the count nor the timer starts afresh.  What the   *)
(* receiver has read it hands to gather's queue: while that is full, which *)
(* another server's queue may cause, it reads no answer either.            *)
(*                                                                         *)
(* Times are replaced by their order: the timer expires before the sleep   *)
(* ends, and the watchdog timer, whose period is the heartbeat's, expires  *)
(* at most twice between two heartbeats of a thread that is not held up.   *)
(*                                                                         *)
(* The releases in the field do not count (FieldHeartbeat); `field' says   *)
(* whether one of them runs.                                               *)
(***************************************************************************)
EXTENDS Naturals

CONSTANTS
  RETRY_COUNT_HEARTBEAT,
  DogLimit          \* what senddog may not exceed: 5

ASSUME LimitAssumption ==
  RETRY_COUNT_HEARTBEAT \in Nat \ {0} /\ DogLimit \in Nat \ {0, 1}

VARIABLES
  field,            \* never changes
  main,             \* where main stands
  error,
  rcv,              \* the receiver: whose socket it waits on, or what it does
  hpc,              \* heartbeat_routine
  timer,            \* its timer
  retry_count_heartbeat,
  awaiting,         \* the socket on which the latest heartbeat was sent
  answer,           \* the socket on which its answer travels
  late,             \* has the server, or the receiver, been away meanwhile?
  senddog,
  since,            \* watchdog expiries since the last heartbeat
  server,           \* does the server answer at once?
  fallen            \* history: has it, or gather's queue, ever failed to?

heart    == <<hpc, timer, retry_count_heartbeat>>
message  == <<awaiting, answer, late>>
watchdog == <<senddog, since>>
vars == <<field, main, error, rcv, heart, message, watchdog, server, fallen>>

K == RETRY_COUNT_HEARTBEAT
Socket == {"cur", "old"}
Capped(n, m) == IF n < m THEN n ELSE m

(***************************************************************************)
(* Type correctness.  Counts are cut off above their limits.               *)
(***************************************************************************)
TypeOK ==
  /\ field \in BOOLEAN
  /\ main \in {"down", "clear", "up", "linger"}
  /\ error \in 0 .. 3
  /\ rcv \in Socket \cup {"free", "forward", "held"}
  /\ hpc \in {"idle", "send", "stuck", "sleep"}
  /\ timer \in {"off", "armed", "fired", "stale"}
  /\ retry_count_heartbeat \in 0 .. K + 1
  /\ awaiting \in Socket \cup {"none"} /\ answer \in Socket \cup {"none"}
  /\ late \in BOOLEAN
  /\ senddog \in 0 .. DogLimit + 1
  /\ since \in 0 .. 2
  /\ server \in {"good", "silent"}
  /\ fallen \in BOOLEAN

(***************************************************************************)
(* The first session has begun and the threads have been created.          *)
(***************************************************************************)
InitOf(f) ==
  /\ field = f
  /\ main = "up" /\ error = 0
  /\ rcv = "free"
  /\ hpc = "idle" /\ timer = "off"
  /\ retry_count_heartbeat = 0
  /\ awaiting = "none" /\ answer = "none" /\ late = FALSE
  /\ senddog = 0 /\ since = 0
  /\ server = "good"
  /\ fallen = FALSE

Init == InitOf(FALSE)

-----------------------------------------------------------------------------
(***************************************************************************)
(* main.                                                                   *)
(***************************************************************************)
Login_bug ==        \* error is not reset
  /\ main = "down"
  /\ main' = "clear"
  /\ UNCHANGED <<field, error, rcv, heart, message, watchdog, server, fallen>>

Login ==
  /\ main = "down"
  /\ error' = 0
  /\ main' = "clear"
  /\ UNCHANGED <<field, rcv, heart, message, watchdog, server, fallen>>

ClearDog ==
  /\ main = "clear"
  /\ senddog' = 0 /\ since' = 0
  /\ main' = "up"
  /\ UNCHANGED <<field, error, rcv, heart, message, server, fallen>>

SeeError ==
  /\ main = "up" /\ error # 0
  /\ main' = "linger"
  /\ UNCHANGED <<field, error, rcv, heart, message, watchdog, server, fallen>>

(***************************************************************************)
(* The socket lives on while the receiver waits on it, or while            *)
(* heartbeat_routine is stuck in its send.  Nobody disarms the timer:      *)
(* unless heartbeat_routine sleeps, and will, it may expire at any moment  *)
(* of the next session.                                                    *)
(***************************************************************************)
Left(m) == IF m = "cur" THEN IF rcv = "cur" THEN "old" ELSE "none" ELSE m

Close ==
  /\ main = "linger"
  /\ main' = "down"
  /\ rcv' = IF rcv = "cur" THEN "old" ELSE rcv
  /\ awaiting' = Left(awaiting) /\ answer' = Left(answer)
  /\ late' = (late \/ rcv = "cur")
  /\ \/ UNCHANGED hpc
     \/ hpc = "send" /\ server = "silent" /\ hpc' = "stuck"
  /\ timer' = IF timer = "off" \/ hpc = "sleep" THEN timer ELSE "stale"
  /\ UNCHANGED <<field, error, retry_count_heartbeat, watchdog, server, fallen>>

-----------------------------------------------------------------------------
(***************************************************************************)
(* heartbeat_routine and its timer.                                        *)
(***************************************************************************)
Begin ==            \* a new heartbeat_time: older answers do not count
  /\ hpc = "idle" /\ error = 0
  /\ timer' = "armed"
  /\ awaiting' = "none" /\ answer' = "none"
  /\ late' = (rcv \in {"old", "held"})
  /\ hpc' = "send"
  /\ UNCHANGED <<field, main, error, rcv, retry_count_heartbeat, watchdog,
                 server, fallen>>

Counted(n) == Capped(n + 1, K + 1)

Sent(n) ==
  /\ hpc \in {"send", "stuck"}
  /\ hpc' = "sleep"
  /\ awaiting' = IF hpc = "send" THEN "cur"
                 ELSE IF rcv = "old" THEN "old" ELSE "none"
  /\ since' = 0
  /\ retry_count_heartbeat' = n
  /\ UNCHANGED <<field, main, error, rcv, timer, answer, late, server, fallen>>

SendOk_bug ==       \* senddog is not cleared
  Sent(Counted(retry_count_heartbeat)) /\ UNCHANGED senddog

SendOk == ~field /\ Sent(Counted(retry_count_heartbeat)) /\ senddog' = 0

SendFails ==        \* the timer stays armed; a broken pipe raises SIGPIPE
  /\ \/ hpc = "send" /\ (server = "silent" \/ main \notin {"clear", "up"})
     \/ hpc = "stuck"
  /\ hpc' = "idle"
  /\ error' \in {error, 2}
  /\ UNCHANGED <<field, main, rcv, timer, retry_count_heartbeat, message,
                 watchdog, server, fallen>>

Wake ==
  /\ hpc = "sleep" /\ timer # "armed"
  /\ timer' = "off"
  /\ hpc' = "idle"
  /\ UNCHANGED <<field, main, error, rcv, retry_count_heartbeat, message,
                 watchdog, server, fallen>>

(***************************************************************************)
(* With a server that answers at once, two minutes are enough to begin and *)
(* send a heartbeat; and for its answer to be read, if all the time the    *)
(* server has been there, and the receiver neither on an old socket nor    *)
(* waiting for room in gather's queue.                                     *)
(***************************************************************************)
InTime ==
  /\ server = "good" /\ main \in {"clear", "up"}
  /\ \/ hpc \in {"idle", "send"}
     \/ ~late /\ "cur" \in {awaiting, answer}

Fire(e) ==
  /\ \/ timer = "stale"
     \/ timer = "armed" /\ ~InTime
     \/ timer = "fired" /\ hpc # "sleep" /\ ~InTime
  /\ timer' = "fired"
  /\ error' = e
  /\ UNCHANGED <<field, main, rcv, hpc, retry_count_heartbeat, message,
                 watchdog, server, fallen>>

Expire ==
  ~field /\ Fire(IF retry_count_heartbeat > K THEN 1 ELSE error)

-----------------------------------------------------------------------------
(***************************************************************************)
(* The watchdog timer.                                                     *)
(***************************************************************************)
Increment_bug == UNCHANGED senddog

Increment == senddog' = Capped(senddog + 1, DogLimit + 1)

WatchdogExpire ==
  /\ server = "good" => since < 2
  /\ since' = Capped(since + 1, 2)
  /\ error' = IF senddog > DogLimit THEN 1 ELSE error
  /\ Increment
  /\ UNCHANGED <<field, main, rcv, heart, message, server, fallen>>

-----------------------------------------------------------------------------
(***************************************************************************)
(* The receiver.                                                           *)
(***************************************************************************)
Heard(m) == IF m = "old" THEN "none" ELSE m

Listen ==           \* nobody reads an old connection any more
  /\ rcv = "free" /\ error = 0
  /\ rcv' = "cur"
  /\ awaiting' = Heard(awaiting) /\ answer' = Heard(answer)
  /\ UNCHANGED <<field, main, error, heart, late, watchdog, server, fallen>>

Receive ==          \* the answer to the latest heartbeat
  /\ rcv \in Socket /\ answer = rcv
  /\ timer' = "off"
  /\ retry_count_heartbeat' = 0
  /\ awaiting' = "none" /\ answer' = "none"
  /\ rcv' = "forward"
  /\ UNCHANGED <<field, main, error, hpc, late, watchdog, server, fallen>>

ReceiveOther ==     \* a command, or another answer
  /\ rcv \in Socket
  /\ rcv' = "forward"
  /\ UNCHANGED <<field, main, error, heart, message, watchdog, server, fallen>>

Wait ==             \* gather's queue is full: mq_send waits
  /\ rcv = "forward"
  /\ rcv' = "held"
  /\ late' = TRUE
  /\ fallen' = TRUE
  /\ UNCHANGED <<field, main, error, heart, awaiting, answer, watchdog, server>>

Forward ==          \* gather's queue has taken the packet
  /\ rcv \in {"forward", "held"}
  /\ rcv' = "free"
  /\ UNCHANGED <<field, main, error, heart, message, watchdog, server, fallen>>

ReceiveFails ==     \* recv returns -1: the connection is given up
  /\ rcv = "old" \/ (rcv = "cur" /\ server = "silent")
  /\ rcv' = "free"
  /\ UNCHANGED <<field, main, error, heart, message, watchdog, server, fallen>>

(***************************************************************************)
(* recv returns 0: the peer has closed, be it an old connection.  The      *)
(* signal ends the sleep of heartbeat_routine.                             *)
(***************************************************************************)
ReceiveEnd ==
  /\ rcv = "old" \/ (rcv = "cur" /\ server = "silent")
  /\ error' = 3
  /\ rcv' = "free"
  /\ IF hpc = "sleep" THEN hpc' = "idle" /\ timer' = "off"
                      ELSE UNCHANGED <<hpc, timer>>
  /\ UNCHANGED <<field, main, retry_count_heartbeat, message, watchdog, server,
                 fallen>>

-----------------------------------------------------------------------------
(***************************************************************************)
(* The server.                                                             *)
(***************************************************************************)
ServerAnswers ==
  /\ awaiting # "none" /\ server = "good"
  /\ answer' = awaiting
  /\ awaiting' = "none"
  /\ UNCHANGED <<field, main, error, rcv, heart, late, watchdog, server, fallen>>

ServerTurns(s) ==
  /\ server # s
  /\ server' = s
  /\ since' = 0
  /\ late' = TRUE
  /\ fallen' = TRUE
  /\ UNCHANGED <<field, main, error, rcv, heart, awaiting, answer, senddog>>

SigPipe ==          \* the sender's send
  /\ server = "silent" /\ main = "up"
  /\ error' = 2
  /\ UNCHANGED <<field, main, rcv, heart, message, watchdog, server, fallen>>

-----------------------------------------------------------------------------
Old == rcv = "old" /\ (ReceiveFails \/ ReceiveEnd)

OldSend == hpc = "stuck" /\ (SendOk \/ SendFails)

Other ==            \* what all releases do alike
  \/ Login \/ ClearDog \/ SeeError \/ Close
  \/ Begin \/ SendFails \/ Wake
  \/ WatchdogExpire
  \/ Listen \/ Receive \/ ReceiveOther \/ Wait \/ Forward
  \/ ReceiveFails \/ ReceiveEnd
  \/ ServerAnswers \/ \E s \in {"good", "silent"} : ServerTurns(s)
  \/ SigPipe

Next == Other \/ SendOk \/ Expire

(***************************************************************************)
(* Threads and timers go on.  A send returns when the server takes data;   *)
(* a login succeeds, and an old connection is given up or closed, sooner   *)
(* or later.  Nothing makes room in a full queue.                          *)
(***************************************************************************)
Fairness ==
  /\ WF_vars(Login) /\ WF_vars(ClearDog) /\ WF_vars(SeeError)
  /\ WF_vars(Close)
  /\ WF_vars(Begin) /\ WF_vars(Wake)
  /\ WF_vars(Expire)
  /\ WF_vars(WatchdogExpire)
  /\ WF_vars(server = "good" /\ SendOk)
  /\ WF_vars(Listen) /\ WF_vars(Receive)
  /\ WF_vars(rcv = "forward" /\ Forward)
  /\ WF_vars(Old) /\ WF_vars(OldSend)
  /\ WF_vars(ServerAnswers)

Spec == Init /\ [][Next]_vars /\ Fairness

-----------------------------------------------------------------------------
(***************************************************************************)
(* A server that has always answered at once keeps its session, neither    *)
(* timer ends it, as long as gather's queue has always had room: a         *)
(* receiver that waits for it leaves answers unread.                       *)
(***************************************************************************)
HealthyKept == ~fallen => main = "up" /\ error = 0

(***************************************************************************)
(* A session whose server has fallen silent is ended, also when the        *)
(* heartbeat thread hangs in send (modify.log 106).                        *)
(***************************************************************************)
SilenceNoticed ==
  (main = "up" /\ server = "silent") ~> (main # "up" \/ server = "good")

(***************************************************************************)
(* Once the server answers for good and gather's queue has room for good,  *)
(* the client has, after sessions that it ends for stale reasons, one that *)
(* lasts; unless, time and again, an old connection ends in the very       *)
(* moment when a heartbeat is being sent, or so shortly before the timer   *)
(* expires that the answer is not read in time, or the timer of the        *)
(* session before expires between login and the first heartbeat.           *)
(***************************************************************************)
Coincidence ==
  \/ rcv = "old" /\ hpc \in {"send", "stuck"} /\ error' = 3
  \/ /\ rcv # "old" /\ late
     /\ timer = "armed" /\ timer' = "fired" /\ error # error'
  \/ timer = "stale" /\ timer' = "fired" /\ error # error'

Recovers ==
  <>[](server = "good" /\ rcv # "held") /\ <>[][~Coincidence]_vars
    => <>[](main = "up" /\ error = 0)
=============================================================================

--------------------------- MODULE HistoryResend ---------------------------
(***************************************************************************)
(* How a client resends one kind of history data (minute, hour or day data *)
(* -- client.c holds three copies of this code) until the server answers.  *)
(*                                                                         *)
(* These threads share history_min, minutedata_time, trigger_min,          *)
(* retry_count_min and one timer, without a lock:                          *)
(*   - the sender takes a packet from gather's queue, saves a copy and its *)
(*     time, sets the trigger, and sends it;                               *)
(*   - minutedata_routine spins on the trigger and arms the timer;         *)
(*   - the timer's callbacks, each a thread of its own, resend the saved   *)
(*     copy, and after too many tries disarm the timer and report the      *)
(*     failure to gather; they may wait in a send and in a full queue, and *)
(*     so come to stand side by side;                                      *)
(*   - the receiver disarms the timer when an answer carries the time of   *)
(*     the saved packet.                                                   *)
(* Packets are numbered in the order in which gather queues them.  A       *)
(* number stands for a packet and for its time, which is the key of the    *)
(* answer; 0 is the cleared time.                                          *)
(***************************************************************************)
EXTENDS Naturals

CONSTANTS
  RETRY_COUNT,   \* RETRY_COUNT_MIN, _HOUR, _DAY of config.h
  MaxPacket,     \* bound: packets of this kind that gather queues
  MaxDrop,       \* bound: times the link drops
  MaxCallback    \* bound: callbacks that run side by side

ASSUME RetryAssumption == {RETRY_COUNT, MaxCallback} \subseteq Nat \ {0}
ASSUME BoundAssumption == MaxPacket \in Nat /\ MaxDrop \in Nat

VARIABLES
  taken,        \* packets taken so far by the sender; the last one is at hand
  sender,       \* where the sender stands
  history,      \* number of the packet saved for resending, 0 if none
  data_time,    \* its time
  trigger,
  routine,      \* where minutedata_routine stands
  armed,        \* is the resend timer armed?
  retry_count,
  callback,     \* where each callback stands, "none" if not running
  buf,          \* the time each will report, 0 before it is known
  error,        \* has the session an error (no login since)?
  drops,
  answers,      \* packets the server has got over this connection: it may
                \* answer each of them, at any time, once or more
  reported,     \* times reported to gather as failed
  resends,      \* history: how often the saved packet was resent
  settled,      \* history: packets answered while their timer was armed
  under,        \* history: the callbacks that were under way when a packet
                \* was last settled, and have not sent since
  slow          \* history: the callbacks beside which another has begun

Packet == 1 .. MaxPacket
Callback == 1 .. MaxCallback

saved      == <<history, data_time>>
timer      == <<armed, retry_count>>
link       == <<error, drops>>
calls      == <<callback, buf, slow, under>>
vars == <<taken, sender, saved, trigger, routine, timer, calls, link, answers,
          reported, resends, settled>>

(***************************************************************************)
(* How often a packet may be resent.  The history is cut off above.        *)
(***************************************************************************)
Limit == MaxCallback * (RETRY_COUNT + MaxCallback + 1)

(***************************************************************************)
(* Type correctness, with the order of the numbers: the saved packet is    *)
(* one the sender has taken.                                               *)
(***************************************************************************)
TypeOK ==
  /\ taken \in 0 .. MaxPacket
  /\ sender \in {"check", "wait", "copy", "stamp", "send"}
  /\ history \in 0 .. taken
  /\ data_time \in 0 .. taken
  /\ trigger \in BOOLEAN
  /\ routine \in {"poll", "clear"}
  /\ armed \in BOOLEAN
  /\ retry_count \in Nat
  /\ callback \in [Callback -> {"none", "enter", "resend", "decide", "report"}]
  /\ buf \in [Callback -> 0 .. taken]
  /\ slow \subseteq Callback /\ under \subseteq Callback
  /\ error \in BOOLEAN
  /\ drops \in 0 .. MaxDrop
  /\ answers \subseteq 1 .. taken
  /\ reported \subseteq 0 .. taken
  /\ resends \in 0 .. Limit + 1
  /\ settled \subseteq 1 .. taken

Init ==
  /\ taken = 0
  /\ sender = "check"
  /\ history = 0 /\ data_time = 0
  /\ trigger = FALSE
  /\ routine = "poll"
  /\ armed = FALSE /\ retry_count = 0
  /\ callback = [c \in Callback |-> "none"] /\ buf = [c \in Callback |-> 0]
  /\ slow = {} /\ under = {}
  /\ error = FALSE /\ drops = 0
  /\ answers = {}
  /\ reported = {}
  /\ resends = 0
  /\ settled = {}

-----------------------------------------------------------------------------
(***************************************************************************)
(* The environment: the link drops, main logs in again.  msend hands a     *)
(* packet to the connection; whether the server gets it shows only in its  *)
(* answer.                                                                 *)
(***************************************************************************)
Drop ==
  /\ ~error
  /\ drops < MaxDrop
  /\ error' = TRUE
  /\ drops' = drops + 1
  /\ answers' = {}
  /\ UNCHANGED <<taken, sender, saved, trigger, routine, timer, calls,
                 reported, resends, settled>>

Login ==
  /\ error
  /\ error' = FALSE
  /\ UNCHANGED <<taken, sender, saved, trigger, routine, timer, calls,
                 drops, answers, reported, resends, settled>>

msend(p) == \/ UNCHANGED answers
            \/ ~error /\ p # 0 /\ answers' = answers \cup {p}

-----------------------------------------------------------------------------
(***************************************************************************)
(* The sender.  It looks at `error' before it blocks on the queue, so that *)
(* a packet taken after a drop is still saved, and lost on the socket.     *)
(***************************************************************************)
CheckError ==
  /\ sender = "check"
  /\ ~error
  /\ sender' = "wait"
  /\ UNCHANGED <<taken, saved, trigger, routine, timer, calls, link,
                 answers, reported, resends, settled>>

Take ==             \* gather has queued one
  /\ sender = "wait"
  /\ taken < MaxPacket
  /\ taken' = taken + 1
  /\ sender' = "copy"
  /\ UNCHANGED <<saved, trigger, routine, timer, calls, link,
                 answers, reported, resends, settled>>

Copy ==
  /\ sender = "copy"
  /\ history' = taken /\ resends' = 0
  /\ sender' = "stamp"
  /\ UNCHANGED <<taken, data_time, trigger, routine, timer, calls, link,
                 answers, reported, settled>>

Stamp ==
  /\ sender = "stamp"
  /\ data_time' = taken
  /\ trigger' = TRUE
  /\ sender' = "send"
  /\ UNCHANGED <<taken, history, routine, timer, calls, link, answers,
                 reported, resends, settled>>

Send ==
  /\ sender = "send"
  /\ msend(taken)
  /\ sender' = "check"
  /\ UNCHANGED <<taken, saved, trigger, routine, timer, calls, link,
                 reported, resends, settled>>

-----------------------------------------------------------------------------
(***************************************************************************)
(* minutedata_routine.                                                     *)
(***************************************************************************)
Arm ==
  /\ routine = "poll"
  /\ trigger
  /\ armed' = TRUE
  /\ routine' = "clear"
  /\ UNCHANGED <<taken, sender, saved, trigger, retry_count, calls,
                 link, answers, reported, resends, settled>>

ClearTrigger ==
  /\ routine = "clear"
  /\ trigger' = FALSE
  /\ routine' = "poll"
  /\ UNCHANGED <<taken, sender, saved, timer, calls, link, answers,
                 reported, resends, settled>>

-----------------------------------------------------------------------------
(***************************************************************************)
(* timer_thread_minutedata.  The timer expires once a minute, never twice  *)
(* within the few instructions in which the sender saves a packet and the  *)
(* routine sees the trigger, nor in those from which a callback starts     *)
(* until it counts; one expiry there is the same as one just before, whose *)
(* callback runs on into them.                                             *)
(***************************************************************************)
At(c, place) == callback[c] = place

GoTo(c, place) == callback' = [callback EXCEPT ![c] = place]

End(c) ==           \* the thread is gone
  /\ GoTo(c, "none")
  /\ buf' = [buf EXCEPT ![c] = 0]
  /\ slow' = slow \ {c} /\ under' = under \ {c}

Expire(c) ==
  /\ armed
  /\ At(c, "none") /\ \A d \in Callback : ~At(d, "enter")
  /\ sender # "stamp"
  /\ ~trigger
  /\ GoTo(c, "enter")
  /\ slow' = {d \in Callback : ~At(d, "none")}
  /\ UNCHANGED <<taken, sender, saved, trigger, routine, timer, buf, under,
                 link, answers, reported, resends, settled>>

EnterWith(c, n) ==
  /\ At(c, "enter")
  /\ IF error
       THEN End(c) /\ UNCHANGED retry_count
       ELSE /\ GoTo(c, "resend")
            /\ retry_count' = n
            /\ buf' = [buf EXCEPT ![c] = data_time]
            /\ UNCHANGED <<slow, under>>
  /\ UNCHANGED <<taken, sender, saved, trigger, routine, armed, link, answers,
                 reported, resends, settled>>

Enter_bug(c) == EnterWith(c, retry_count)       \* the try is not counted

Enter(c) == EnterWith(c, retry_count + 1)

Resend(c) ==        \* msend has waited, for mutex_send or for the connection
  /\ At(c, "resend")
  /\ msend(history)
  /\ resends' = IF resends <= Limit THEN resends + 1 ELSE resends
  /\ GoTo(c, "decide")
  /\ under' = under \ {c}
  /\ UNCHANGED <<taken, sender, saved, trigger, routine, timer, buf, slow, link,
                 reported, settled>>

GiveUpWith(c, on) ==
  /\ At(c, "decide")
  /\ retry_count > RETRY_COUNT
  /\ armed' = on
  /\ GoTo(c, "report")
  /\ UNCHANGED <<taken, sender, saved, trigger, routine, retry_count, buf, slow,
                 under, link, answers, reported, resends, settled>>

GiveUp_bug(c) == GiveUpWith(c, armed)           \* the timer is left armed

GiveUp(c) == GiveUpWith(c, FALSE)

TryLater(c) ==
  /\ At(c, "decide")
  /\ retry_count <= RETRY_COUNT
  /\ End(c)
  /\ UNCHANGED <<taken, sender, saved, trigger, routine, timer, link, answers,
                 reported, resends, settled>>

ReportWith(c, t) == \* mq_send may have waited for room in gather's queue
  /\ At(c, "report")
  /\ reported' = reported \cup {buf[c]}
  /\ retry_count' = 0
  /\ data_time' = t
  /\ End(c)
  /\ UNCHANGED <<taken, sender, history, trigger, routine, armed, link, answers,
                 resends, settled>>

Report_bug(c) == ReportWith(c, data_time)       \* the time is kept

Report(c) == ReportWith(c, 0)

-----------------------------------------------------------------------------
(***************************************************************************)
(* respond_minutedata_handler, for an answer that carries time p.  The     *)
(* packet counts as settled if the timer was running for it, and its       *)
(* failure is not being reported at this moment.                           *)
(***************************************************************************)
Settles(p) ==
  /\ armed /\ ~trigger /\ routine = "poll"
  /\ \A c \in Callback : ~(At(c, "report") /\ buf[c] = p)

UnderWay == {c \in Callback : callback[c] \in {"enter", "resend"}}

AnswerWith(p, on, n) ==
  /\ p \in answers
  /\ data_time = p
  /\ armed' = on
  /\ retry_count' = n
  /\ IF Settles(p)
       THEN settled' = settled \cup {p} /\ under' = UnderWay
       ELSE UNCHANGED <<settled, under>>
  /\ UNCHANGED <<taken, sender, saved, trigger, routine, callback, buf, slow,
                 link, answers, reported, resends>>

OnAnswer_bug1(p) == AnswerWith(p, armed, 0)     \* the timer is not disarmed

OnAnswer_bug2(p) == AnswerWith(p, FALSE, retry_count)   \* the count is kept

OnAnswer(p) == AnswerWith(p, FALSE, 0)

-----------------------------------------------------------------------------
Sender   == CheckError \/ Copy \/ Stamp \/ Send
Routine  == Arm \/ ClearTrigger
Run(c)   == Enter(c) \/ Resend(c) \/ GiveUp(c) \/ TryLater(c) \/ Report(c)

Next ==
  \/ Drop \/ Login
  \/ Take \/ Sender
  \/ Routine
  \/ \E c \in Callback : Expire(c) \/ Run(c)
  \/ \E p \in Packet : OnAnswer(p)

(***************************************************************************)
(* The threads run, an armed timer expires, no send and no full queue      *)
(* holds a callback for ever, main logs in again after a drop (drops are   *)
(* bounded).  No answer is promised.                                       *)
(***************************************************************************)
Fairness ==
  /\ WF_vars(Login)
  /\ WF_vars(Sender)
  /\ WF_vars(Routine)
  /\ WF_vars(\E c \in Callback : Expire(c))
  /\ \A c \in Callback : WF_vars(Run(c))

Spec == Init /\ [][Next]_vars /\ Fairness

-----------------------------------------------------------------------------
(***************************************************************************)
(* An answer stops the resending: once the answer to a packet has been     *)
(* handled with its timer armed, only callbacks that were under way then   *)
(* still send that packet, each once (client.c 183-196 against 385-417).   *)
(***************************************************************************)
AnswerStopsResending ==
  [][\A c \in Callback : (Resend(c) /\ history \in settled)
                            => c \in under]_vars

(***************************************************************************)
(* A packet whose answer was handled in time is not reported as failed     *)
(* afterwards, whatever a callback was doing when the answer came; unless  *)
(* that callback has waited so long that another began beside it, whose    *)
(* count, for a later packet, it then takes for its own (client.c 391,     *)
(* 399).                                                                   *)
(***************************************************************************)
NoFalseFailure ==
  [][\A c \in Callback \ slow : Report(c) => buf[c] \notin settled]_vars

(***************************************************************************)
(* Resending is bounded, although retry_count is shared by successive      *)
(* packets and by callbacks side by side, and is reset by each that gives  *)
(* up: a packet is sent at most two times beyond RETRY_COUNT if callbacks  *)
(* never meet, and more often only as many of them do.                     *)
(***************************************************************************)
ResendBound == resends <= Limit

(***************************************************************************)
(* What ResendPromise says: through all races for the saved packet, its    *)
(* time and its timer, the resends follow the order of the packets, no try *)
(* begins for a packet that is answered, and each packet has one fate      *)
(* unless a try has waited beside another (client.c 183-196, 289-296,      *)
(* 385-417).                                                               *)
(***************************************************************************)
Stage(place) ==
  CASE place = "none" -> "none"
    [] place \in {"enter", "resend"} -> "begun"
    [] place \in {"decide", "report"} -> "sent"

Promise == INSTANCE ResendPromise WITH
  MaxTry   <- MaxCallback,
  saved    <- history,
  sent     <- resends,
  try      <- [c \in Callback |-> Stage(callback[c])],
  answered <- settled,
  failed   <- reported \ {0}

KeepsPromise == Promise!Spec

(***************************************************************************)
(* When gather queues nothing more and the link stays up, the resend timer *)
(* is off for good in the end: by an answer or by giving up.               *)
(***************************************************************************)
TimerStops == <>[](~armed)

(***************************************************************************)
(* config.h:29-30, "history data resend count", 3: a packet reported as    *)
(* failed has been resent so many times.  The count is not reset for a new *)
(* packet.                                                                 *)
(***************************************************************************)
FailureAfterRetries ==
  history \in reported \ {0} => resends >= RETRY_COUNT
=============================================================================

--------------------------- MODULE History_proofs ---------------------------
(***************************************************************************)
(* Proofs about what becomes of history data: about HistoryResend, for     *)
(* every RETRY_COUNT and every number of packets, of drops and of          *)
(* callbacks side by side, about HistoryQuery, for every size of its       *)
(* tables, and about GatherLocks, for any times, RETRY_TIMES and bounds.   *)
(***************************************************************************)
EXTENDS HistoryResend, HistoryQuery, GatherLocks,
        FiniteSetTheorems, SequenceTheorems, TLAPS

(***************************************************************************)
(* While the sender saves packet `taken', that packet is new to everyone.  *)
(***************************************************************************)
SavingIsNew ==
  /\ sender = "copy" =>
       history < taken /\ data_time < taken /\ \A p \in settled : p < taken
  /\ sender = "stamp" =>
       history = taken /\ data_time < taken /\ \A p \in settled : p < taken

(***************************************************************************)
(* A settled packet whose copy is still the saved one: nothing will arm    *)
(* the timer for it, and the callbacks that may still send it are those    *)
(* that were under way when it was settled.                                *)
(***************************************************************************)
SettledIsQuiet ==
  \A p \in settled :
    history = p => /\ ~armed /\ ~trigger /\ routine = "poll"
                   /\ UnderWay \subseteq under

(***************************************************************************)
(* A callback is about to count, and has been passed by no other; those    *)
(* that are further on have been passed by it.                             *)
(***************************************************************************)
OneEnters ==
  \A c, d \in Callback :
    At(c, "enter") /\ d # c => ~At(d, "enter") /\ (At(d, "none") \/ d \in slow)

(***************************************************************************)
(* A settled packet is not one that a callback is about to report, unless  *)
(* another has begun beside that callback.                                 *)
(***************************************************************************)
SettledNotReported ==
  /\ data_time \in settled =>
       /\ ~armed /\ ~trigger /\ routine = "poll"
       /\ \A c \in Callback : At(c, "enter") => retry_count = 0
  /\ \A c \in Callback \ slow :
       callback[c] \in {"resend", "decide"} /\ buf[c] \in settled
         => retry_count <= RETRY_COUNT
  /\ \A c \in Callback \ slow : At(c, "report") => buf[c] \notin settled

(***************************************************************************)
(* The inductive invariant.                                                *)
(***************************************************************************)
IInv ==
  /\ TypeOK
  /\ SavingIsNew
  /\ SettledIsQuiet
  /\ OneEnters
  /\ SettledNotReported

-----------------------------------------------------------------------------
(***************************************************************************)
(* TypeOK in three parts, because the provers treat them apart: the truth  *)
(* values, the callbacks, and the rest.                                    *)
(***************************************************************************)
FlagsOK == trigger \in BOOLEAN /\ armed \in BOOLEAN /\ error \in BOOLEAN

Place == {"none", "enter", "resend", "decide", "report"}

CallsOK ==
  /\ callback \in [Callback -> Place]
  /\ buf \in [Callback -> 0 .. taken]
  /\ slow \subseteq Callback /\ under \subseteq Callback

DataOK ==
  /\ taken \in 0 .. MaxPacket
  /\ sender \in {"check", "wait", "copy", "stamp", "send"}
  /\ history \in 0 .. taken
  /\ data_time \in 0 .. taken
  /\ routine \in {"poll", "clear"}
  /\ retry_count \in Nat
  /\ drops \in 0 .. MaxDrop
  /\ answers \subseteq 1 .. taken
  /\ reported \subseteq 0 .. taken
  /\ resends \in 0 .. Limit + 1
  /\ settled \subseteq 1 .. taken

LEMMA TypeParts == TypeOK <=> FlagsOK /\ CallsOK /\ DataOK
  BY DEF TypeOK, FlagsOK, CallsOK, DataOK, Place

LEMMA BoundsAreNat ==
  /\ RETRY_COUNT \in Nat /\ RETRY_COUNT > 0
  /\ MaxCallback \in Nat /\ MaxCallback > 0
  /\ Limit \in Nat
<1>1. /\ RETRY_COUNT \in Nat /\ RETRY_COUNT > 0
      /\ MaxCallback \in Nat /\ MaxCallback > 0
  BY RetryAssumption
<1>2. \A m, n \in Nat : m * n \in Nat
  OBVIOUS
<1>3. RETRY_COUNT + MaxCallback + 1 \in Nat
  BY <1>1
<1>4. Limit \in Nat
  BY <1>1, <1>2, <1>3, Zenon DEF Limit
<1> QED BY <1>1, <1>4

LEMMA FlagsStep == FlagsOK /\ [Next]_vars => FlagsOK'
  <1> SUFFICES ASSUME FlagsOK, [Next]_vars PROVE FlagsOK'
    OBVIOUS
  <1> USE DEF FlagsOK, timer, link
  <1>1. CASE Drop BY <1>1, Zenon DEF Drop
  <1>2. CASE Login BY <1>2, Zenon DEF Login
  <1>3. CASE Take \/ Sender
    BY <1>3, Zenon DEF Sender, CheckError, Take, Copy, Stamp, Send
  <1>4. CASE Routine BY <1>4, Zenon DEF Routine, Arm, ClearTrigger
  <1>5. ASSUME NEW c \in Callback, Expire(c) PROVE FlagsOK'
    BY <1>5, Zenon DEF Expire
  <1>6. ASSUME NEW c \in Callback, Run(c) PROVE FlagsOK'
    <2>1. trigger' = trigger /\ error' = error /\ armed' \in {armed, FALSE}
      BY <1>6, Zenon DEF Run, Enter, EnterWith, Resend, GiveUp, GiveUpWith,
                         TryLater, Report, ReportWith
    <2> QED BY <2>1
  <1>7. ASSUME NEW p \in Packet, OnAnswer(p) PROVE FlagsOK'
    BY <1>7, Zenon DEF OnAnswer, AnswerWith
  <1>8. CASE UNCHANGED vars BY <1>8, Zenon DEF vars
  <1> QED BY <1>1, <1>2, <1>3, <1>4, <1>5, <1>6, <1>7, <1>8 DEF Next

(***************************************************************************)
(* How one callback's step changes the callbacks.                          *)
(***************************************************************************)
LEMMA Goes ==
  ASSUME CallsOK, NEW c \in Callback, NEW v \in Place, GoTo(c, v)
  PROVE  /\ callback' \in [Callback -> Place]
         /\ callback'[c] = v
         /\ \A d \in Callback : d # c => callback'[d] = callback[d]
  BY DEF CallsOK, GoTo

LEMMA Ends ==
  ASSUME CallsOK, NEW c \in Callback, End(c)
  PROVE  /\ callback' \in [Callback -> Place]
         /\ callback'[c] = "none" /\ buf'[c] = 0
         /\ \A d \in Callback : d # c => /\ callback'[d] = callback[d]
                                         /\ buf'[d] = buf[d]
         /\ slow' = slow \ {c} /\ under' = under \ {c}
  BY Goes DEF CallsOK, End, Place

LEMMA CallsStep == TypeOK /\ [Next]_vars => CallsOK'
  <1> SUFFICES ASSUME CallsOK, DataOK, [Next]_vars PROVE CallsOK'
    BY TypeParts
  <1> USE DEF calls
  <1>0. ASSUME NEW c \in Callback, End(c), taken' = taken PROVE CallsOK'
    <2>1. callback' \in [Callback -> Place] /\ slow' \subseteq Callback
          /\ under' \subseteq Callback
      BY <1>0, Ends DEF CallsOK
    <2>2. buf' \in [Callback -> 0 .. taken']
      BY <1>0 DEF CallsOK, DataOK, End
    <2> QED BY <2>1, <2>2 DEF CallsOK
  <1>1. ASSUME UNCHANGED calls, taken' \in Nat, taken' >= taken PROVE CallsOK'
    BY <1>1 DEF CallsOK, DataOK
  <1>2. CASE Take BY <1>1, <1>2 DEF Take, DataOK
  <1>3. CASE Drop \/ Login \/ Sender \/ Routine \/ UNCHANGED vars
    <2>1. UNCHANGED calls /\ taken' = taken
      BY <1>3, Zenon DEF Drop, Login, Sender, CheckError, Copy, Stamp, Send,
                         Routine, Arm, ClearTrigger, vars
    <2> QED BY <1>1, <2>1 DEF DataOK
  <1>4. ASSUME NEW c \in Callback, Expire(c) PROVE CallsOK'
    <2>1. callback' \in [Callback -> Place]
      BY <1>4, Goes DEF Expire, Place
    <2> QED BY <1>4, <2>1 DEF Expire, CallsOK
  <1>5. ASSUME NEW c \in Callback, Enter(c) PROVE CallsOK'
    <2>1. CASE error BY <1>0, <1>5, <2>1 DEF Enter, EnterWith
    <2>2. CASE ~error
      <3>1. callback' \in [Callback -> Place]
        BY <1>5, <2>2, Goes DEF Enter, EnterWith, Place
      <3> QED BY <1>5, <2>2, <3>1 DEF Enter, EnterWith, CallsOK, DataOK
    <2> QED BY <2>1, <2>2
  <1>6. ASSUME NEW c \in Callback, Resend(c) PROVE CallsOK'
    <2>1. callback' \in [Callback -> Place]
      BY <1>6, Goes DEF Resend, Place
    <2> QED BY <1>6, <2>1 DEF Resend, CallsOK
  <1>7. ASSUME NEW c \in Callback, GiveUp(c) PROVE CallsOK'
    <2>1. callback' \in [Callback -> Place]
      BY <1>7, Goes DEF GiveUp, GiveUpWith, Place
    <2> QED BY <1>7, <2>1 DEF GiveUp, GiveUpWith, CallsOK
  <1>8. ASSUME NEW c \in Callback, TryLater(c) \/ Report(c) PROVE CallsOK'
    BY <1>0, <1>8, Zenon DEF TryLater, Report, ReportWith
  <1>9. ASSUME NEW p \in Packet, OnAnswer(p) PROVE CallsOK'
    BY <1>9 DEF OnAnswer, AnswerWith, CallsOK, UnderWay
  <1> QED BY <1>2, <1>3, <1>4, <1>5, <1>6, <1>7, <1>8, <1>9 DEF Next, Run

LEMMA DataStep == TypeOK /\ [Next]_vars => DataOK'
  <1> SUFFICES ASSUME CallsOK, DataOK, [Next]_vars PROVE DataOK'
    BY TypeParts
  <1> USE BoundAssumption, BoundsAreNat DEF DataOK, saved, timer, link
  <1>0. ASSUME NEW p \in 0 .. taken, msend(p) PROVE answers' \subseteq 1 .. taken
    <2>1. p # 0 => p \in 1 .. taken
      OBVIOUS
    <2>2. \/ answers' = answers
          \/ p # 0 /\ answers' = answers \cup {p}
      BY <1>0, Zenon DEF msend
    <2> QED BY <2>1, <2>2
  <1>1. CASE Drop BY <1>1 DEF Drop
  <1>2. CASE Login BY <1>2 DEF Login
  <1>3. CASE CheckError BY <1>3 DEF CheckError
  <1>4. CASE Take BY <1>4 DEF Take
  <1>5. CASE Copy BY <1>5 DEF Copy
  <1>6. CASE Stamp BY <1>6 DEF Stamp
  <1>7. CASE Send
    <2>1. answers' \subseteq 1 .. taken
      BY <1>0, <1>7 DEF Send
    <2> QED BY <1>7, <2>1 DEF Send
  <1>8. CASE Routine BY <1>8 DEF Routine, Arm, ClearTrigger
  <1>9. ASSUME NEW c \in Callback, Expire(c) PROVE DataOK'
    BY <1>9 DEF Expire
  <1>10. ASSUME NEW c \in Callback, Enter(c) PROVE DataOK'
    BY <1>10 DEF Enter, EnterWith
  <1>11. ASSUME NEW c \in Callback, Resend(c) PROVE DataOK'
    <2>1. answers' \subseteq 1 .. taken
      BY <1>0, <1>11 DEF Resend
    <2>2. resends' \in 0 .. Limit + 1
      BY <1>11 DEF Resend
    <2> QED BY <1>11, <2>1, <2>2 DEF Resend
  <1>12. ASSUME NEW c \in Callback, GiveUp(c) PROVE DataOK'
    BY <1>12 DEF GiveUp, GiveUpWith
  <1>13. ASSUME NEW c \in Callback, TryLater(c) PROVE DataOK'
    BY <1>13 DEF TryLater
  <1>14. ASSUME NEW c \in Callback, Report(c) PROVE DataOK'
    <2>1. buf[c] \in 0 .. taken
      BY DEF CallsOK
    <2>2. reported' \subseteq 0 .. taken /\ retry_count' = 0 /\ data_time' = 0
      BY <1>14, <2>1 DEF Report, ReportWith
    <2> QED BY <1>14, <2>2 DEF Report, ReportWith
  <1>15. ASSUME NEW p \in Packet, OnAnswer(p) PROVE DataOK'
    <2>1. p \in 1 .. taken
      BY <1>15 DEF OnAnswer, AnswerWith
    <2> QED BY <1>15, <2>1 DEF OnAnswer, AnswerWith
  <1>16. CASE UNCHANGED vars BY <1>16 DEF vars
  <1> QED
    BY <1>1, <1>2, <1>3, <1>4, <1>5, <1>6, <1>7, <1>8, <1>9, <1>10, <1>11,
       <1>12, <1>13, <1>14, <1>15, <1>16
       DEF Next, Sender, Run

LEMMA TypeAtStart == Init => TypeOK
<1>1. Init => FlagsOK BY Zenon DEF Init, FlagsOK
<1>2. Init => CallsOK BY BoundAssumption DEF Init, CallsOK, Place
<1>3. Init => DataOK BY BoundAssumption, BoundsAreNat DEF Init, DataOK
<1> QED BY <1>1, <1>2, <1>3, TypeParts

LEMMA TypeStep == TypeOK /\ [Next]_vars => TypeOK'
  <1> SUFFICES ASSUME TypeOK, [Next]_vars PROVE TypeOK'
    OBVIOUS
  <1>1. FlagsOK' /\ CallsOK' /\ DataOK'
    BY FlagsStep, CallsStep, DataStep, TypeParts
  <1> QED BY <1>1 DEF TypeOK, FlagsOK, CallsOK, DataOK, Place

(***************************************************************************)
(* Type correctness, and that every packet number in the state is one the  *)
(* sender has taken.                                                       *)
(***************************************************************************)
THEOREM ResendTypeCorrect == Spec => []TypeOK
<1> QED BY TypeAtStart, TypeStep, PTL DEF Spec

-----------------------------------------------------------------------------
(***************************************************************************)
(* Each conjunct of IInv is preserved by every step.                       *)
(***************************************************************************)
LEMMA SavingStep == IInv /\ [Next]_vars => SavingIsNew'
  <1> SUFFICES ASSUME DataOK, SavingIsNew, [Next]_vars PROVE SavingIsNew'
    BY TypeParts DEF IInv
  <1> USE DEF DataOK, SavingIsNew, saved
  <1>1. CASE Drop BY <1>1 DEF Drop
  <1>2. CASE Login BY <1>2 DEF Login
  <1>3. CASE CheckError BY <1>3 DEF CheckError
  <1>4. CASE Take
    <2>1. \A p \in settled' : p < taken'
      BY <1>4 DEF Take
    <2> QED BY <1>4, <2>1 DEF Take
  <1>5. CASE Copy BY <1>5 DEF Copy
  <1>6. CASE Stamp BY <1>6 DEF Stamp
  <1>7. CASE Send BY <1>7 DEF Send
  <1>8. CASE Routine BY <1>8 DEF Routine, Arm, ClearTrigger
  <1>9. ASSUME NEW c \in Callback, Expire(c) PROVE SavingIsNew'
    BY <1>9 DEF Expire
  <1>10. ASSUME NEW c \in Callback, Run(c) PROVE SavingIsNew'
    <2>1. /\ UNCHANGED <<taken, sender, history, settled>>
          /\ data_time' \in {data_time, 0}
      BY <1>10, Zenon DEF Run, Enter, EnterWith, Resend, GiveUp, GiveUpWith,
                          TryLater, Report, ReportWith
    <2>2. CASE data_time' = data_time
      BY <2>1, <2>2
    <2>3. CASE data_time' = 0
      BY <2>1, <2>3
    <2> QED BY <2>1, <2>2, <2>3
  <1>11. ASSUME NEW p \in Packet, OnAnswer(p) PROVE SavingIsNew'
    <2>1. settled' \subseteq settled \cup {data_time}
      BY <1>11 DEF OnAnswer, AnswerWith
    <2> QED BY <1>11, <2>1 DEF OnAnswer, AnswerWith
  <1>12. CASE UNCHANGED vars BY <1>12 DEF vars
  <1> QED BY <1>1, <1>2, <1>3, <1>4, <1>5, <1>6, <1>7, <1>8, <1>9, <1>10,
             <1>11, <1>12 DEF Next, Sender

(***************************************************************************)
(* A callback's step takes none but itself from those under way.           *)
(***************************************************************************)
LEMMA UnderWayStep ==
  ASSUME CallsOK, NEW c \in Callback, Run(c), UnderWay \subseteq under
  PROVE  UnderWay' \subseteq under'
  <1>1. CASE (Enter(c) /\ ~error) \/ GiveUp(c)
    <2>1. under' = under
      BY <1>1, Zenon DEF Enter, EnterWith, GiveUp, GiveUpWith
    <2>2. \/ GoTo(c, "resend") /\ At(c, "enter")
          \/ GoTo(c, "report")
      BY <1>1, Zenon DEF Enter, EnterWith, GiveUp, GiveUpWith
    <2>3. CASE GoTo(c, "resend") /\ At(c, "enter")
      BY <2>1, <2>3, Goes DEF At, UnderWay, Place
    <2>4. CASE GoTo(c, "report")
      BY <2>1, <2>4, Goes DEF UnderWay, Place
    <2> QED BY <2>2, <2>3, <2>4
  <1>2. CASE Resend(c)
    <2>1. GoTo(c, "decide") /\ under' = under \ {c}
      BY <1>2 DEF Resend
    <2> QED BY <2>1, Goes DEF UnderWay, Place
  <1>3. CASE End(c)
    BY <1>3, Ends DEF UnderWay
  <1> QED BY <1>1, <1>2, <1>3
          DEF Run, Enter, EnterWith, TryLater, Report, ReportWith

LEMMA QuietStep == IInv /\ [Next]_vars => SettledIsQuiet'
  <1> SUFFICES ASSUME DataOK, CallsOK, SavingIsNew, SettledIsQuiet, [Next]_vars
               PROVE  SettledIsQuiet'
    BY TypeParts DEF IInv
  <1> USE DEF SettledIsQuiet, saved, timer, calls
  <1>0. ASSUME \A p \in settled : history # p, UNCHANGED <<settled, history>>
        PROVE  SettledIsQuiet'
    BY <1>0
  <1>1. ASSUME UNCHANGED <<settled, history, armed, trigger, calls>>,
               routine' \in {routine, "poll"}
        PROVE  SettledIsQuiet'
    BY <1>1 DEF UnderWay
  <1>2. CASE \/ Drop \/ Login \/ CheckError \/ Take \/ Send \/ UNCHANGED vars
    <2>1. UNCHANGED <<settled, history, armed, trigger, calls, routine>>
      BY <1>2, Zenon DEF Drop, Login, CheckError, Take, Send, vars
    <2> QED BY <1>1, <2>1
  <1>3. CASE Copy       \* taken is no settled packet
    <2>1. \A p \in settled' : history' # p
      BY <1>3 DEF Copy, SavingIsNew, DataOK
    <2> QED BY <2>1
  <1>4. CASE Stamp
    <2>1. \A p \in settled : history # p
      BY <1>4 DEF Stamp, SavingIsNew, DataOK
    <2> QED BY <1>0, <1>4, <2>1 DEF Stamp
  <1>5. CASE Arm
    BY <1>0, <1>5 DEF Arm
  <1>6. CASE ClearTrigger
    BY <1>0, <1>6 DEF ClearTrigger
  <1>7. ASSUME NEW c \in Callback, Expire(c) PROVE SettledIsQuiet'
    BY <1>0, <1>7 DEF Expire
  <1>8. ASSUME NEW c \in Callback, Run(c) PROVE SettledIsQuiet'
    <2>1. /\ UNCHANGED <<settled, history, trigger, routine>>
          /\ armed' \in {armed, FALSE}
      BY <1>8, Zenon DEF Run, Enter, EnterWith, Resend, GiveUp, GiveUpWith,
                         TryLater, Report, ReportWith
    <2> QED BY <1>8, <2>1, UnderWayStep
  <1>9. ASSUME NEW p \in Packet, OnAnswer(p) PROVE SettledIsQuiet'
    <2>1. /\ UNCHANGED <<history, trigger, routine, callback>>
          /\ armed' = FALSE
      BY <1>9, Zenon DEF OnAnswer, AnswerWith
    <2>2. UnderWay' = UnderWay
      BY <2>1, Zenon DEF UnderWay
    <2>3. CASE Settles(p)
      BY <1>9, <2>1, <2>2, <2>3 DEF OnAnswer, AnswerWith, Settles
    <2>4. CASE ~Settles(p)
      BY <1>9, <2>1, <2>2, <2>4 DEF OnAnswer, AnswerWith
    <2> QED BY <2>3, <2>4
  <1> QED BY <1>2, <1>3, <1>4, <1>5, <1>6, <1>7, <1>8, <1>9
          DEF Next, Sender, Routine

LEMMA EntersStep == IInv /\ [Next]_vars => OneEnters'
  <1> SUFFICES ASSUME CallsOK, OneEnters, [Next]_vars PROVE OneEnters'
    BY TypeParts DEF IInv
  <1> USE DEF OneEnters, At, calls
  <1>1. CASE \/ Drop \/ Login \/ Take \/ Sender \/ Routine \/ UNCHANGED vars
             \/ \E p \in Packet : OnAnswer(p)
    <2>1. UNCHANGED <<callback, slow>>
      BY <1>1, Zenon
         DEF Drop, Login, Take, Sender, CheckError, Copy, Stamp, Send, Routine,
             Arm, ClearTrigger, OnAnswer, AnswerWith, vars
    <2> QED BY <2>1
  <1>2. ASSUME NEW c \in Callback, Expire(c) PROVE OneEnters'
    <2>1. /\ \A d \in Callback : callback[d] # "enter"
          /\ slow' = {d \in Callback : callback[d] # "none"}
          /\ GoTo(c, "enter")
      BY <1>2 DEF Expire
    <2> QED BY <2>1, Goes DEF Place
  <1>3. ASSUME NEW c \in Callback, Run(c) PROVE OneEnters'
    <2>1. CASE End(c)
      BY <2>1, Ends
    <2>2. CASE ~End(c)
      <3>1. PICK v \in {"resend", "decide", "report"} : GoTo(c, v)
        BY <1>3, <2>2
           DEF Run, Enter, EnterWith, Resend, GiveUp, GiveUpWith, TryLater,
               Report, ReportWith
      <3>2. slow' = slow /\ callback[c] # "none"
        BY <1>3, <2>2, Zenon
           DEF Run, Enter, EnterWith, Resend, GiveUp, GiveUpWith, TryLater,
               Report, ReportWith
      <3>3. \A d \in Callback : d # c => callback'[d] = callback[d]
        BY <3>1, Goes DEF Place
      <3>4. callback'[c] = v
        BY <3>1, Goes DEF Place
      <3> QED BY <3>1, <3>2, <3>3, <3>4
    <2> QED BY <2>1, <2>2
  <1> QED BY <1>1, <1>2, <1>3 DEF Next

LEMMA ReportStep == IInv /\ [Next]_vars => SettledNotReported'
  <1> SUFFICES ASSUME DataOK, CallsOK, SavingIsNew, OneEnters,
                      SettledNotReported, [Next]_vars
               PROVE  SettledNotReported'
    BY TypeParts DEF IInv
  <1> USE BoundsAreNat DEF SettledNotReported, saved, timer, calls, At
  <1>1. CASE \/ Drop \/ Login \/ CheckError \/ Take \/ Copy \/ Send
             \/ UNCHANGED vars
    <2>1. UNCHANGED <<data_time, settled, armed, trigger, routine, callback, buf,
                      slow, retry_count>>
      BY <1>1, Zenon DEF Drop, Login, CheckError, Take, Copy, Send, vars
    <2> QED BY <2>1
  <1>2. CASE Stamp      \* taken is no settled packet
    <2>1. data_time' \notin settled'
      BY <1>2 DEF Stamp, SavingIsNew, DataOK
    <2> QED BY <1>2, <2>1 DEF Stamp
  <1>3. CASE Routine BY <1>3 DEF Routine, Arm, ClearTrigger
  <1>4. ASSUME NEW c \in Callback, Expire(c) PROVE SettledNotReported'
    <2>1. /\ data_time \notin settled
          /\ UNCHANGED <<data_time, settled, buf, retry_count>>
          /\ slow' = {d \in Callback : callback[d] # "none"}
          /\ GoTo(c, "enter")
      BY <1>4 DEF Expire
    <2>2. \A d \in Callback \ slow' : callback'[d] \in {"none", "enter"}
      BY <2>1, Goes DEF Place
    <2> QED BY <2>1, <2>2
  <1>5. ASSUME NEW c \in Callback, Enter(c) PROVE SettledNotReported'
    <2>0. /\ UNCHANGED <<data_time, settled, armed, trigger, routine>>
          /\ callback[c] = "enter"
      BY <1>5 DEF Enter, EnterWith
    <2>1. CASE error
      <3>1. End(c) /\ retry_count' = retry_count
        BY <1>5, <2>1 DEF Enter, EnterWith
      <3> QED BY <2>0, <3>1, Ends
    <2>2. CASE ~error   \* one that outlived the answer counts one try
      <3>1. /\ GoTo(c, "resend") /\ retry_count' = retry_count + 1
            /\ slow' = slow
            /\ buf' = [buf EXCEPT ![c] = data_time]
        BY <1>5, <2>2 DEF Enter, EnterWith
      <3>2. /\ callback'[c] = "resend"
            /\ \A d \in Callback : d # c => callback'[d] = callback[d]
        BY <3>1, Goes DEF Place
      <3>3. \A d \in Callback \ slow : d # c => callback[d] = "none"
        BY <2>0 DEF OneEnters
      <3>4. \A d \in Callback : d # c => callback[d] # "enter"
        BY <2>0 DEF OneEnters
      <3>5. buf'[c] = data_time
        BY <3>1 DEF CallsOK
      <3>6. data_time \in settled => retry_count' <= RETRY_COUNT
        BY <2>0, <3>1
      <3>7. \A d \in Callback : callback'[d] # "enter"
        BY <3>2, <3>4
      <3>8. \A d \in Callback \ slow' : d # c => callback'[d] = "none"
        BY <3>1, <3>2, <3>3
      <3> QED BY <2>0, <3>2, <3>5, <3>6, <3>7, <3>8
    <2> QED BY <2>1, <2>2
  <1>6. ASSUME NEW c \in Callback, Resend(c) PROVE SettledNotReported'
    <2>1. /\ GoTo(c, "decide") /\ callback[c] = "resend"
          /\ UNCHANGED <<data_time, settled, armed, trigger, routine, buf, slow,
                         retry_count>>
      BY <1>6 DEF Resend
    <2> QED BY <2>1, Goes DEF Place
  <1>7. ASSUME NEW c \in Callback, GiveUp(c) PROVE SettledNotReported'
    <2>1. /\ GoTo(c, "report") /\ callback[c] = "decide" /\ armed' = FALSE
          /\ retry_count > RETRY_COUNT
          /\ UNCHANGED <<data_time, settled, trigger, routine, buf, slow,
                         retry_count>>
      BY <1>7 DEF GiveUp, GiveUpWith
    <2>2. c \notin slow => buf[c] \notin settled
      BY <2>1 DEF DataOK
    <2> QED BY <2>1, <2>2, Goes DEF Place
  <1>8. ASSUME NEW c \in Callback, TryLater(c) PROVE SettledNotReported'
    <2>1. /\ End(c)
          /\ UNCHANGED <<data_time, settled, armed, trigger, routine, retry_count>>
      BY <1>8 DEF TryLater
    <2> QED BY <2>1, Ends
  <1>9. ASSUME NEW c \in Callback, Report(c) PROVE SettledNotReported'
    <2>1. /\ End(c) /\ callback[c] = "report"
          /\ retry_count' = 0 /\ data_time' = 0 /\ settled' = settled
      BY <1>9 DEF Report, ReportWith
    <2>2. 0 \notin settled
      BY DEF DataOK
    <2>3. \A d \in Callback \ slow' : callback'[d] = "report" =>
            callback[d] = "report" /\ buf'[d] = buf[d] /\ d \notin slow
      BY <2>1, Ends
    <2> QED BY <2>1, <2>2, <2>3
  <1>10. ASSUME NEW p \in Packet, OnAnswer(p) PROVE SettledNotReported'
    <2>1. /\ UNCHANGED <<data_time, trigger, routine, callback, buf, slow>>
          /\ armed' = FALSE /\ retry_count' = 0 /\ data_time = p
      BY <1>10, Zenon DEF OnAnswer, AnswerWith
    <2>2. CASE settled' = settled
      BY <2>1, <2>2
    <2>3. CASE settled' # settled
      <3>1. settled' = settled \cup {p} /\ Settles(p)
        BY <1>10, <2>3 DEF OnAnswer, AnswerWith
      <3> QED BY <2>1, <3>1 DEF Settles
    <2> QED BY <2>2, <2>3
  <1> QED BY <1>1, <1>2, <1>3, <1>4, <1>5, <1>6, <1>7, <1>8, <1>9, <1>10
          DEF Next, Sender, Run

LEMMA Inductive == Spec => []IInv
<1>1. Init => IInv
  BY TypeAtStart
     DEF Init, IInv, SavingIsNew, SettledIsQuiet, OneEnters, SettledNotReported,
         At
<1>2. IInv /\ [Next]_vars => IInv'
  BY TypeStep, SavingStep, QuietStep, EntersStep, ReportStep DEF IInv
<1> QED BY <1>1, <1>2, PTL DEF Spec

(***************************************************************************)
(* Once the answer to a packet has been handled with its timer armed, only *)
(* callbacks that were under way then still send that packet, each once,   *)
(* however many there are.                                                 *)
(***************************************************************************)
THEOREM AnswerStops == Spec => AnswerStopsResending
<1>1. IInv /\ [Next]_vars
        => [\A c \in Callback : (Resend(c) /\ history \in settled)
                                  => c \in under]_vars
  BY DEF IInv, SettledIsQuiet, UnderWay, Resend, At
<1> QED BY <1>1, Inductive, PTL DEF Spec, AnswerStopsResending

(***************************************************************************)
(* A packet whose answer was handled in time is not reported as failed     *)
(* afterwards by a callback beside which no other has begun.               *)
(***************************************************************************)
THEOREM FailureIsTrue == Spec => NoFalseFailure
<1>1. IInv /\ [Next]_vars
        => [\A c \in Callback \ slow : Report(c) => buf[c] \notin settled]_vars
  BY DEF IInv, SettledNotReported, Report, ReportWith, At
<1> QED BY <1>1, Inductive, PTL DEF Spec, NoFalseFailure

-----------------------------------------------------------------------------
(***************************************************************************)
(* How often a packet is resent.  Callbacks are counted by where they      *)
(* stand.                                                                  *)
(***************************************************************************)
In(S) == {c \in Callback : callback[c] \in S}

Count(S) == Cardinality(In(S))

LEMMA CallbackFinite ==
  IsFiniteSet(Callback) /\ Cardinality(Callback) = MaxCallback
  BY BoundsAreNat, FS_Interval DEF Callback

LEMMA CountType ==
  ASSUME NEW S
  PROVE  /\ IsFiniteSet(In(S))
         /\ Count(S) \in 0 .. MaxCallback
         /\ Count(S)' \in 0 .. MaxCallback
<1>1. ASSUME NEW T \in SUBSET Callback
      PROVE  IsFiniteSet(T) /\ Cardinality(T) \in 0 .. MaxCallback
  <2>1. IsFiniteSet(T) /\ Cardinality(T) <= Cardinality(Callback)
    BY CallbackFinite, FS_Subset
  <2>2. Cardinality(T) \in Nat
    BY <2>1, FS_CardinalityType
  <2> QED BY <2>1, <2>2, CallbackFinite, BoundsAreNat
<1>2. In(S) \in SUBSET Callback /\ In(S)' \in SUBSET Callback
  BY DEF In
<1> QED BY <1>1, <1>2 DEF Count

(***************************************************************************)
(* Callback c goes to place v: what a count loses or gains.                *)
(***************************************************************************)
LEMMA CountMoves ==
  ASSUME CallsOK, NEW S, NEW c \in Callback, NEW v \in Place, GoTo(c, v)
  PROVE  Count(S)' = Count(S) + (IF v \in S THEN 1 ELSE 0)
                              - (IF callback[c] \in S THEN 1 ELSE 0)
<1>1. /\ callback'[c] = v
      /\ \A d \in Callback : d # c => callback'[d] = callback[d]
  BY Goes
<1>2. In(S)' = IF v \in S THEN In(S) \cup {c} ELSE In(S) \ {c}
  BY <1>1 DEF In
<1>3. c \in In(S) <=> callback[c] \in S
  BY DEF In
<1>4. IsFiniteSet(In(S)) /\ Count(S) \in Nat
  BY CountType, BoundsAreNat
<1>5. CASE v \in S
  <2>1. Count(S)' = IF c \in In(S) THEN Count(S) ELSE Count(S) + 1
    BY <1>2, <1>4, <1>5, FS_AddElement DEF Count
  <2> QED BY <1>3, <1>4, <1>5, <2>1
<1>6. CASE v \notin S
  <2>1. Count(S)' = IF c \in In(S) THEN Count(S) - 1 ELSE Count(S)
    BY <1>2, <1>4, <1>6, FS_RemoveElement DEF Count
  <2> QED BY <1>3, <1>4, <1>6, <2>1
<1> QED BY <1>5, <1>6

LEMMA CountStays ==
  ASSUME UNCHANGED callback, NEW S
  PROVE  Count(S)' = Count(S)
  BY DEF Count, In

(***************************************************************************)
(* A callback that stands in S is counted there, and in no set apart.      *)
(***************************************************************************)
LEMMA CountThere ==
  ASSUME NEW S, NEW c \in Callback, callback[c] \in S
  PROVE  Count(S) >= 1
<1>1. c \in In(S) BY DEF In
<1>2. Count(S) # 0
  BY <1>1, CountType, FS_EmptySet DEF Count
<1> QED BY <1>2, CountType, BoundsAreNat

LEMMA CountApart ==
  ASSUME NEW S, NEW T, S \cap T = {}
  PROVE  Count(S) + Count(T) <= MaxCallback
<1>1. In(S) \cap In(T) = {} /\ In(S) \cup In(T) \in SUBSET Callback
  BY DEF In
<1>2. Cardinality(In(S) \cup In(T)) = Count(S) + Count(T) - 0
  BY <1>1, CountType, FS_Union, FS_EmptySet DEF Count
<1>3. Cardinality(In(S) \cup In(T)) <= MaxCallback
  BY <1>1, CallbackFinite, FS_Subset
<1> QED BY <1>2, <1>3, CountType

(***************************************************************************)
(* A callback that has counted and is not done stands in Busy.  The        *)
(* callbacks in Reporting have disarmed the timer and are about to reset   *)
(* the count; those in Sending have still to send.                         *)
(***************************************************************************)
Busy == {"resend", "decide", "report"}
Reporting == {"report"}
Entering == {"enter"}
Sending == {"enter", "resend"}

CountOK ==
  /\ retry_count <= RETRY_COUNT + Count(Busy)
  /\ routine = "clear" => trigger

LEMMA CountStep == TypeOK /\ CountOK /\ [Next]_vars => CountOK'
  <1> SUFFICES ASSUME CallsOK, DataOK, CountOK, [Next]_vars PROVE CountOK'
    BY TypeParts
  <1>0. Count(Busy) \in Nat /\ Count(Busy)' \in Nat
    BY CountType, BoundsAreNat
  <1> USE BoundsAreNat DEF CountOK, DataOK
  <1>a. ASSUME UNCHANGED <<callback, trigger>>, retry_count' \in {retry_count, 0},
               routine' \in {routine, "poll"}
        PROVE  CountOK'
    BY <1>0, <1>a, CountStays
  <1>1. CASE \/ Drop \/ Login \/ CheckError \/ Take \/ Copy \/ Send
             \/ UNCHANGED vars \/ \E p \in Packet : OnAnswer(p)
    <2>1. UNCHANGED <<callback, trigger, routine>>
          /\ retry_count' \in {retry_count, 0}
      BY <1>1, Zenon DEF Drop, Login, CheckError, Take, Copy, Send, OnAnswer,
                         AnswerWith, vars, timer, calls
    <2> QED BY <1>a, <2>1
  <1>2. CASE Stamp \/ Routine
    <2>1. UNCHANGED <<callback, retry_count>>
          /\ (routine' = "clear" => trigger')
      BY <1>2 DEF Stamp, Routine, Arm, ClearTrigger, timer, calls
    <2> QED BY <1>0, <2>1, CountStays
  <1>3. ASSUME NEW c \in Callback, Expire(c) PROVE CountOK'
    <2>1. GoTo(c, "enter") /\ UNCHANGED <<retry_count, routine, trigger>>
          /\ callback[c] = "none"
      BY <1>3 DEF Expire, timer, At
    <2>2. Count(Busy)' = Count(Busy)
      BY <1>0, <2>1, CountMoves DEF Place, Busy
    <2> QED BY <2>1, <2>2
  <1>4. ASSUME NEW c \in Callback, Enter(c) PROVE CountOK'
    <2>0. callback[c] = "enter" /\ UNCHANGED <<routine, trigger>>
      BY <1>4 DEF Enter, EnterWith, At
    <2>1. CASE error
      <3>1. GoTo(c, "none") /\ retry_count' = retry_count
        BY <1>4, <2>1 DEF Enter, EnterWith, End
      <3>2. Count(Busy)' = Count(Busy)
        BY <1>0, <2>0, <3>1, CountMoves DEF Place, Busy
      <3> QED BY <2>0, <3>1, <3>2
    <2>2. CASE ~error
      <3>1. GoTo(c, "resend") /\ retry_count' = retry_count + 1
        BY <1>4, <2>2 DEF Enter, EnterWith
      <3>2. Count(Busy)' = Count(Busy) + 1
        BY <1>0, <2>0, <3>1, CountMoves DEF Place, Busy
      <3> QED BY <1>0, <2>0, <3>1, <3>2
    <2> QED BY <2>1, <2>2
  <1>5. ASSUME NEW c \in Callback, Resend(c) \/ GiveUp(c) PROVE CountOK'
    <2>1. PICK v \in {"decide", "report"} : GoTo(c, v)
      BY <1>5 DEF Resend, GiveUp, GiveUpWith
    <2>2. UNCHANGED <<retry_count, routine, trigger>> /\ callback[c] \in Busy
      BY <1>5 DEF Resend, GiveUp, GiveUpWith, timer, At, Busy
    <2>3. Count(Busy)' = Count(Busy)
      BY <1>0, <2>1, <2>2, CountMoves DEF Place, Busy
    <2> QED BY <2>2, <2>3
  <1>6. ASSUME NEW c \in Callback, TryLater(c) PROVE CountOK'
    BY <1>0, <1>6 DEF TryLater, timer
  <1>7. ASSUME NEW c \in Callback, Report(c) PROVE CountOK'
    BY <1>0, <1>7 DEF Report, ReportWith
  <1> QED BY <1>1, <1>2, <1>3, <1>4, <1>5, <1>6, <1>7 DEF Next, Sender, Run

(***************************************************************************)
(* A packet just saved, whose timer the trigger is still to start (Fresh), *)
(* is resent at most by the callbacks that were running when it was saved, *)
(* for none starts before the trigger is cleared.  From then on every      *)
(* resend has its count (here n, with a callback that is about to count),  *)
(* and the count starts again only while the timer is off, or when one of  *)
(* m reports under way gives up the packet before.                         *)
(***************************************************************************)
Fresh == sender = "stamp" \/ trigger

Round == RETRY_COUNT + MaxCallback

Allow(m, n) ==
  IF m = MaxCallback THEN MaxCallback
                     ELSE MaxCallback + (MaxCallback - 1 - m) * Round + n

Total == resends + Count(Sending)

SentOK ==
  /\ Total <= Limit
  /\ Fresh => Total <= MaxCallback
  /\ ~Fresh /\ armed
       => Total <= Allow(Count(Reporting), retry_count + Count(Entering))

LEMMA AllowBounds ==
  ASSUME NEW m \in 0 .. MaxCallback, NEW n \in 0 .. Round
  PROVE  /\ Allow(m, n) \in MaxCallback .. Limit
         /\ m < MaxCallback /\ n < Round => Allow(m, n + 1) = Allow(m, n) + 1
         /\ \A k \in 0 .. Round : m > 0 => Allow(m - 1, k) >= Allow(m, n)
<1> USE BoundsAreNat
<1>1. Round \in Nat
  BY DEF Round
<1>2. \A a, b \in Nat : a * b \in Nat /\ (a + 1) * b = a * b + b
  OBVIOUS
<1>3. \A a, b, d \in Nat : a <= d => a * b <= d * b
  OBVIOUS
<1>4. Limit = MaxCallback * Round + MaxCallback
  BY <1>1 DEF Limit, Round
<1>5. CASE m = MaxCallback
  <2>1. Allow(m, n) = MaxCallback
    BY <1>5 DEF Allow
  <2>2. MaxCallback * Round \in Nat
    BY <1>1, <1>2
  <2>3. \A k \in 0 .. Round : Allow(m - 1, k) = MaxCallback + 0 * Round + k
    BY <1>5 DEF Allow
  <2>4. 0 * Round = 0
    BY <1>1
  <2> QED BY <1>1, <1>4, <1>5, <2>1, <2>2, <2>3, <2>4
<1>6. CASE m < MaxCallback
  <2> DEFINE a == MaxCallback - 1 - m
  <2>1. a \in Nat /\ a + 1 <= MaxCallback
    BY <1>6
  <2>2. \A k \in 0 .. Round : Allow(m, k) = MaxCallback + a * Round + k
    BY <1>6 DEF Allow
  <2>3. a * Round \in Nat /\ (a + 1) * Round = a * Round + Round
    BY <1>1, <1>2, <2>1
  <2>4. (a + 1) * Round <= MaxCallback * Round
    BY <1>1, <1>3, <2>1
  <2>5. Allow(m, n) \in MaxCallback .. Limit
    <3> HIDE DEF a
    <3>1. MaxCallback * Round \in Nat
      BY <1>1, <1>2
    <3> QED BY <1>1, <1>4, <2>1, <2>2, <2>3, <2>4, <3>1
  <2>6. n < Round => Allow(m, n + 1) = Allow(m, n) + 1
    <3> HIDE DEF a
    <3> QED BY <1>1, <2>1, <2>2, <2>3
  <2>7. \A k \in 0 .. Round : m > 0 =>
          Allow(m - 1, k) = MaxCallback + (a + 1) * Round + k
    BY <1>6 DEF Allow
  <2>8. \A k \in 0 .. Round : m > 0 => Allow(m - 1, k) >= Allow(m, n)
    <3> HIDE DEF a
    <3> QED BY <1>1, <2>1, <2>2, <2>3, <2>7
  <2> QED BY <2>5, <2>6, <2>8
<1> QED BY <1>5, <1>6

(***************************************************************************)
(* The counts that a step of callback c to place v leaves.                 *)
(***************************************************************************)
LEMMA CountsMove ==
  ASSUME CallsOK, NEW c \in Callback, NEW v \in Place, GoTo(c, v)
  PROVE  /\ Count(Sending)' = Count(Sending)
                              + (IF v \in {"enter", "resend"} THEN 1 ELSE 0)
                              - (IF callback[c] \in {"enter", "resend"} THEN 1 ELSE 0)
         /\ Count(Entering)' = Count(Entering)
                              + (IF v = "enter" THEN 1 ELSE 0)
                              - (IF callback[c] = "enter" THEN 1 ELSE 0)
         /\ Count(Reporting)' = Count(Reporting)
                              + (IF v = "report" THEN 1 ELSE 0)
                              - (IF callback[c] = "report" THEN 1 ELSE 0)
<1>1. Count(Sending)' = Count(Sending) + (IF v \in Sending THEN 1 ELSE 0)
                        - (IF callback[c] \in Sending THEN 1 ELSE 0)
  BY CountMoves
<1>2. Count(Entering)' = Count(Entering) + (IF v \in Entering THEN 1 ELSE 0)
                        - (IF callback[c] \in Entering THEN 1 ELSE 0)
  BY CountMoves
<1>3. Count(Reporting)' = Count(Reporting) + (IF v \in Reporting THEN 1 ELSE 0)
                        - (IF callback[c] \in Reporting THEN 1 ELSE 0)
  BY CountMoves
<1> QED BY <1>1, <1>2, <1>3 DEF Sending, Entering, Reporting

LEMMA CountsType ==
  DataOK /\ CountOK => retry_count + Count(Entering) \in 0 .. Round
<1> SUFFICES ASSUME DataOK, CountOK
             PROVE  retry_count + Count(Entering) \in 0 .. Round
  OBVIOUS
<1>1. \A S : Count(S) \in 0 .. MaxCallback
  BY CountType
<1>2. Count(Busy) + Count(Entering) <= MaxCallback
  BY CountApart DEF Busy, Entering
<1> QED BY <1>1, <1>2, BoundsAreNat DEF CountOK, DataOK, Round

LEMMA NotAllReport ==
  ASSUME NEW c \in Callback, callback[c] # "report"
  PROVE  Count(Reporting) < MaxCallback
<1>1. Count({callback[c]}) >= 1
  BY CountThere
<1>2. Count(Reporting) + Count({callback[c]}) <= MaxCallback
  BY CountApart DEF Reporting
<1> QED BY <1>1, <1>2, CountType, BoundsAreNat

LEMMA CountsTypeNext ==
  DataOK' /\ CountOK' => (retry_count + Count(Entering) \in 0 .. Round)'
  BY CountsType, PTL

LEMMA SentStep ==
  IInv /\ CountOK /\ CountOK' /\ SentOK /\ [Next]_vars => SentOK'
  <1> SUFFICES ASSUME IInv, CountOK, CountOK', SentOK, [Next]_vars
               PROVE  SentOK'
    OBVIOUS
  <1> DEFINE m == Count(Reporting)
             e == Count(Entering)
             u == Count(Sending)
             n == retry_count + e
  <1>0. /\ FlagsOK /\ DataOK /\ CallsOK
        /\ FlagsOK' /\ DataOK' /\ CallsOK'
    BY FlagsStep, CallsStep, DataStep, TypeParts DEF IInv
  <1>1. /\ m \in 0 .. MaxCallback /\ e \in 0 .. MaxCallback
        /\ u \in 0 .. MaxCallback /\ n \in 0 .. Round
        /\ m' \in 0 .. MaxCallback /\ n' \in 0 .. Round
        /\ u' \in 0 .. MaxCallback /\ e' \in 0 .. MaxCallback
    <2>1. n \in 0 .. Round
      BY <1>0, CountsType
    <2>2. n' \in 0 .. Round
      BY <1>0, CountsTypeNext
    <2> QED BY <2>1, <2>2, CountType
  <1>2. /\ Allow(m, n) \in MaxCallback .. Limit
        /\ Allow(m', n') \in MaxCallback .. Limit
        /\ m < MaxCallback /\ n < Round => Allow(m, n + 1) = Allow(m, n) + 1
        /\ m > 0 => Allow(m - 1, n') >= Allow(m, n)
    BY <1>1, AllowBounds
  <1>r. Round \in Nat /\ MaxCallback <= Limit
    <2>1. Round \in Nat
      BY BoundsAreNat DEF Round
    <2>2. Allow(0, 0) \in MaxCallback .. Limit
      BY <2>1, BoundsAreNat, AllowBounds
    <2> QED BY <2>1, <2>2, BoundsAreNat
  <1>3. resends \in Nat /\ resends' \in Nat /\ retry_count \in Nat
    BY <1>0, BoundsAreNat DEF DataOK
  <1>4. /\ Total <= Limit
        /\ Fresh => Total <= MaxCallback
        /\ ~Fresh /\ armed => Total <= Allow(m, n)
        /\ Total = resends + u
    BY DEF SentOK, Total
  <1>5. SentOK' <=> /\ resends' + u' <= Limit
                    /\ Fresh' => resends' + u' <= MaxCallback
                    /\ ~Fresh' /\ armed' => resends' + u' <= Allow(m', n')
    BY DEF SentOK, Total, Allow
  <1> HIDE DEF m, e, u, n
  <1> USE BoundsAreNat
  <1>6. ASSUME UNCHANGED <<resends, callback, retry_count>>,
               armed' = armed, Fresh' = Fresh
        PROVE  SentOK'
    <2>1. m' = m /\ e' = e /\ u' = u
      BY <1>6, CountStays DEF m, e, u
    <2>2. n' = n
      BY <1>6, <2>1 DEF n
    <2> QED BY <1>4, <1>5, <1>6, <2>1, <2>2
  <1>7. CASE Drop \/ Login \/ CheckError \/ Take \/ Send \/ UNCHANGED vars
    <2>1. /\ UNCHANGED <<resends, callback, retry_count, armed, trigger>>
          /\ (sender' = "stamp" <=> sender = "stamp")
      BY <1>7 DEF Drop, Login, CheckError, Take, Send, vars, timer, calls
    <2> QED BY <1>6, <2>1 DEF Fresh
  <1>8. CASE Copy
    <2>1. resends' = 0
      BY <1>8 DEF Copy
    <2>2. PICK v \in 0 .. MaxCallback : u' = v
      BY <1>1
    <2>3. resends' + u' = v
      BY <2>1, <2>2
    <2>4. resends' + u' <= MaxCallback /\ resends' + u' <= Limit
      BY <1>r, <2>3
    <2>5. Fresh'
      BY <1>8 DEF Copy, Fresh
    <2> QED BY <1>5, <2>4, <2>5, Zenon
  <1>9. CASE Stamp
    <2>1. UNCHANGED <<resends, callback>> /\ Fresh /\ Fresh'
      BY <1>9 DEF Stamp, calls, Fresh
    <2>2. u' = u
      BY <2>1, CountStays DEF u
    <2> QED BY <1>1, <1>3, <1>4, <1>5, <2>1, <2>2
  <1>10. CASE Routine
    <2>1. UNCHANGED <<resends, callback>> /\ Fresh
      BY <1>10 DEF Routine, Arm, ClearTrigger, calls, Fresh, CountOK
    <2>2. u' = u
      BY <2>1, CountStays DEF u
    <2> QED BY <1>1, <1>2, <1>3, <1>4, <1>5, <2>1, <2>2
  <1>11. ASSUME NEW c \in Callback, Expire(c) PROVE SentOK'
    <2>1. /\ GoTo(c, "enter") /\ callback[c] = "none"
          /\ ~Fresh /\ ~Fresh' /\ armed /\ UNCHANGED <<resends, retry_count>>
      BY <1>11 DEF Expire, At, Fresh, timer
    <2>2. m' = m /\ e' = e + 1 /\ u' = u + 1
      BY <1>0, <1>1, <2>1, CountsMove DEF Place, m, e, u
    <2>3. n' = n + 1
      BY <1>1, <1>3, <2>1, <2>2 DEF n
    <2>4. m < MaxCallback
      BY <1>0, <1>1, <2>1, NotAllReport DEF m
    <2>5. Allow(m', n') = Allow(m, n) + 1
      BY <1>1, <1>2, <1>r, <2>2, <2>3, <2>4
    <2> QED BY <1>1, <1>2, <1>3, <1>4, <1>5, <2>1, <2>2, <2>5
  <1>12. ASSUME NEW c \in Callback, Enter(c) PROVE SentOK'
    <2>0. /\ callback[c] = "enter" /\ UNCHANGED <<resends, armed, sender, trigger>>
      BY <1>12 DEF Enter, EnterWith, At
    <2>1. CASE error
      <3>1. GoTo(c, "none") /\ retry_count' = retry_count
        BY <1>12, <2>1 DEF Enter, EnterWith, End
      <3>2. m' = m /\ e' = e - 1 /\ u' = u - 1
        BY <1>0, <1>1, <2>0, <3>1, CountsMove DEF Place, m, e, u
      <3>3. n' = n - 1
        BY <1>1, <1>3, <3>1, <3>2 DEF n
      <3>4. m < MaxCallback
        BY <1>0, <1>1, <2>0, NotAllReport DEF m
      <3>5. Allow(m', n' + 1) = Allow(m', n') + 1 
        BY <1>1, <1>r, <3>2, <3>3, <3>4, AllowBounds
      <3> QED BY <1>1, <1>2, <1>3, <1>4, <1>5, <2>0, <3>2, <3>3, <3>5 DEF Fresh
    <2>2. CASE ~error
      <3>1. GoTo(c, "resend") /\ retry_count' = retry_count + 1
        BY <1>12, <2>2 DEF Enter, EnterWith
      <3>2. m' = m /\ e' = e - 1 /\ u' = u
        BY <1>0, <1>1, <2>0, <3>1, CountsMove DEF Place, m, e, u
      <3>3. n' = n
        BY <1>1, <1>3, <3>1, <3>2 DEF n
      <3> QED BY <1>1, <1>3, <1>4, <1>5, <2>0, <3>2, <3>3 DEF Fresh
    <2> QED BY <2>1, <2>2
  <1>13. ASSUME NEW c \in Callback, Resend(c) PROVE SentOK'
    <2>1. /\ GoTo(c, "decide") /\ callback[c] = "resend"
          /\ UNCHANGED <<armed, sender, trigger, retry_count>>
      BY <1>13 DEF Resend, At, timer
    <2>2. m' = m /\ e' = e /\ u' = u - 1
      BY <1>0, <1>1, <2>1, CountsMove DEF Place, m, e, u
    <2>3. n' = n
      BY <1>1, <2>1, <2>2 DEF n
    <2>4. CASE resends' = resends + 1
      BY <1>1, <1>2, <1>3, <1>4, <1>5, <2>1, <2>2, <2>3, <2>4 DEF Fresh
    <2>5. CASE resends' = resends
      BY <1>1, <1>2, <1>3, <1>4, <1>5, <2>1, <2>2, <2>3, <2>5 DEF Fresh
    <2> QED BY <1>13, <2>4, <2>5 DEF Resend
  <1>14. ASSUME NEW c \in Callback, GiveUp(c) PROVE SentOK'
    <2>1. /\ GoTo(c, "report") /\ callback[c] = "decide" /\ ~armed'
          /\ UNCHANGED <<resends, sender, trigger>>
      BY <1>14 DEF GiveUp, GiveUpWith, At
    <2>2. u' = u
      BY <1>0, <1>1, <2>1, CountsMove DEF Place, u
    <2> QED BY <1>1, <1>3, <1>4, <1>5, <2>1, <2>2 DEF Fresh
  <1>15. ASSUME NEW c \in Callback, TryLater(c) PROVE SentOK'
    <2>1. /\ GoTo(c, "none") /\ callback[c] = "decide"
          /\ UNCHANGED <<resends, sender, trigger, armed, retry_count>>
      BY <1>15 DEF TryLater, End, At, timer
    <2>2. m' = m /\ e' = e /\ u' = u
      BY <1>0, <1>1, <2>1, CountsMove DEF Place, m, e, u
    <2>3. n' = n
      BY <2>1, <2>2 DEF n
    <2> QED BY <1>4, <1>5, <2>1, <2>2, <2>3 DEF Fresh
  <1>16. ASSUME NEW c \in Callback, Report(c) PROVE SentOK'
    <2>1. /\ GoTo(c, "none") /\ callback[c] = "report"
          /\ UNCHANGED <<resends, sender, trigger, armed>>
      BY <1>16 DEF Report, ReportWith, End, At
    <2>2. m' = m - 1 /\ u' = u
      BY <1>0, <1>1, <2>1, CountsMove DEF Place, m, u
    <2>3. m > 0
      BY <1>1, <2>2
    <2>4. Allow(m', n') >= Allow(m, n)
      BY <1>2, <2>2, <2>3
    <2> QED BY <1>1, <1>2, <1>3, <1>4, <1>5, <2>1, <2>2, <2>4 DEF Fresh
  <1>17. ASSUME NEW p \in Packet, OnAnswer(p) PROVE SentOK'
    <2>1. ~armed' /\ UNCHANGED <<resends, sender, trigger, callback>>
      BY <1>17 DEF OnAnswer, AnswerWith
    <2>2. u' = u
      BY <2>1, CountStays DEF u
    <2> QED BY <1>4, <1>5, <2>1, <2>2 DEF Fresh
  <1> QED BY <1>7, <1>8, <1>9, <1>10, <1>11, <1>12, <1>13, <1>14, <1>15, <1>16,
             <1>17 DEF Next, Sender, Run

(***************************************************************************)
(* No packet is resent more often than Limit says: two times beyond        *)
(* RETRY_COUNT if callbacks never meet, and RETRY_COUNT + MaxCallback more *)
(* times for each that may stand beside another, although successive       *)
(* packets share the count.                                                *)
(***************************************************************************)
THEOREM ResendingEnds == Spec => []ResendBound
<1>1. Init => CountOK /\ SentOK
  <2> SUFFICES ASSUME Init PROVE CountOK /\ SentOK
    OBVIOUS
  <2>1. In(Sending) = {}
    BY DEF Init, In, Sending
  <2>2. Count(Sending) = 0 /\ Count(Busy) \in Nat
    BY <2>1, FS_EmptySet, CountType, BoundsAreNat DEF Count
  <2> QED BY <2>2, BoundsAreNat DEF Init, CountOK, SentOK, Total, Fresh
<1>2. IInv /\ CountOK /\ SentOK /\ [Next]_vars => CountOK' /\ SentOK'
  BY CountStep, SentStep DEF IInv
<1>3. IInv /\ SentOK => ResendBound
  <2> SUFFICES ASSUME IInv, SentOK PROVE ResendBound
    OBVIOUS
  <2>1. Count(Sending) \in Nat /\ resends \in Nat
    BY CountType, BoundsAreNat DEF IInv, TypeOK
  <2> QED BY <2>1, BoundsAreNat DEF SentOK, Total, ResendBound
<1> QED BY <1>1, <1>2, <1>3, Inductive, PTL DEF Spec

-----------------------------------------------------------------------------
(***************************************************************************)
(* A packet whose failure was reported is not the one whose answer is      *)
(* waited for: its time was cleared with the report, and is never stored   *)
(* again.                                                                  *)
(***************************************************************************)
ReportedIsOver ==
  /\ data_time <= history
  /\ \A c \in Callback : buf[c] <= history
  /\ \A p \in reported : p <= history
  /\ sender = "stamp" => /\ \A c \in Callback : buf[c] < taken
                         /\ \A p \in reported : p < taken
  /\ data_time \in reported => data_time = 0
  /\ armed \/ trigger => history > 0

LEMMA OverStep == IInv /\ ReportedIsOver /\ [Next]_vars => ReportedIsOver'
  <1> SUFFICES ASSUME CallsOK, DataOK, SavingIsNew, ReportedIsOver, [Next]_vars
               PROVE  ReportedIsOver'
    BY TypeParts DEF IInv
  <1> USE DEF ReportedIsOver, saved, timer, calls
  <1>0. \A c \in Callback : buf[c] \in Nat
    BY DEF CallsOK, DataOK
  <1>1. CASE Copy
    <2>1. /\ history < taken /\ data_time < taken
          /\ \A c \in Callback : buf[c] < taken
          /\ \A p \in reported : p \in Nat /\ p < taken
      BY <1>0, <1>1 DEF Copy, SavingIsNew, DataOK
    <2> QED BY <1>0, <1>1, <2>1 DEF Copy, DataOK
  <1>2. CASE Stamp
    <2>1. history = taken /\ \A p \in reported : p < taken
      BY <1>2 DEF Stamp, SavingIsNew
    <2>2. taken \notin reported /\ taken > 0
      BY <1>2, <2>1 DEF DataOK, SavingIsNew, Stamp
    <2> QED BY <1>2, <2>1, <2>2 DEF Stamp, DataOK
  <1>3. CASE Take BY <1>3 DEF Take
  <1>4. CASE CheckError \/ Send BY <1>4 DEF CheckError, Send
  <1>5. CASE Routine BY <1>5 DEF Routine, Arm, ClearTrigger
  <1>6. CASE Drop \/ Login \/ UNCHANGED vars
    <2>1. UNCHANGED <<taken, sender, saved, buf, reported, armed, trigger>>
      BY <1>6, Zenon DEF Drop, Login, vars
    <2> QED BY <2>1
  <1>7. ASSUME NEW c \in Callback, Expire(c) PROVE ReportedIsOver'
    BY <1>7 DEF Expire
  <1>8. ASSUME NEW c \in Callback, End(c),
               UNCHANGED <<taken, sender, history, trigger, armed>>,
               reported' \subseteq reported \cup {buf[c]},
               data_time' = 0 \/ UNCHANGED <<data_time, reported>>
        PROVE  ReportedIsOver'
    <2>1. \A d \in Callback : buf'[d] \in {0, buf[d]}
      BY <1>8, Ends
    <2>2. \A d \in Callback : buf'[d] <= history /\ buf[d] <= history
      BY <1>0, <2>1 DEF DataOK
    <2>3. sender = "stamp" => \A d \in Callback : buf'[d] < taken /\ buf[d] < taken
      BY <1>0, <2>1 DEF DataOK, SavingIsNew
    <2>4. \A p \in reported' :
            p <= history /\ (sender = "stamp" => p < taken)
      BY <1>8, <2>2, <2>3
    <2>5. CASE data_time' = 0
      BY <1>8, <2>2, <2>3, <2>4, <2>5 DEF DataOK
    <2>6. CASE UNCHANGED <<data_time, reported>>
      BY <1>8, <2>2, <2>3, <2>6
    <2> QED BY <1>8, <2>5, <2>6
  <1>9. ASSUME NEW c \in Callback, Enter(c) PROVE ReportedIsOver'
    <2>1. CASE error
      BY <1>8, <1>9, <2>1 DEF Enter, EnterWith
    <2>2. CASE ~error
      <3>1. /\ UNCHANGED <<taken, sender, saved, reported, armed, trigger>>
            /\ \A d \in Callback : buf'[d] \in {data_time, buf[d]}
        BY <1>9, <2>2 DEF Enter, EnterWith, CallsOK
      <3> QED BY <3>1 DEF SavingIsNew
    <2> QED BY <2>1, <2>2
  <1>10. ASSUME NEW c \in Callback, Resend(c) \/ GiveUp(c) PROVE ReportedIsOver'
    <2>1. UNCHANGED <<taken, sender, saved, buf, reported, trigger>>
      BY <1>10, Zenon DEF Resend, GiveUp, GiveUpWith
    <2>2. armed' => armed
      BY <1>10 DEF Resend, GiveUp, GiveUpWith
    <2> QED BY <2>1, <2>2
  <1>11. ASSUME NEW c \in Callback, TryLater(c) PROVE ReportedIsOver'
    BY <1>8, <1>11 DEF TryLater
  <1>12. ASSUME NEW c \in Callback, Report(c) PROVE ReportedIsOver'
    BY <1>8, <1>12 DEF Report, ReportWith
  <1>13. ASSUME NEW p \in Packet, OnAnswer(p) PROVE ReportedIsOver'
    BY <1>13 DEF OnAnswer, AnswerWith
  <1> QED BY <1>1, <1>2, <1>3, <1>4, <1>5, <1>6, <1>7, <1>9, <1>10, <1>11,
             <1>12, <1>13 DEF Next, Sender, Run

(***************************************************************************)
(* The tries of ResendPromise are the callbacks, seen from afar.           *)
(***************************************************************************)
Tries == [c \in Callback |-> Stage(callback[c])]

LEMMA TryMoves ==
  ASSUME CallsOK, NEW c \in Callback, NEW v \in Place, GoTo(c, v)
  PROVE  Tries' = [Tries EXCEPT ![c] = Stage(v)]
<1>1. /\ callback'[c] = v
      /\ \A d \in Callback : d # c => callback'[d] = callback[d]
  BY Goes
<1>2. Tries' = [d \in Callback |-> Stage(callback'[d])]
  BY DEF Tries, Stage
<1>3. \A d \in Callback :
        Stage(callback'[d]) = IF d = c THEN Stage(v) ELSE Stage(callback[d])
  BY <1>1
<1> QED BY <1>2, <1>3 DEF Tries

LEMMA TryStays ==
  ASSUME CallsOK, NEW c \in Callback, NEW v \in Place, GoTo(c, v),
         Stage(v) = Stage(callback[c])
  PROVE  Tries' = Tries
<1>1. Tries' = [Tries EXCEPT ![c] = Tries[c]]
  BY TryMoves DEF Tries
<1> QED BY <1>1 DEF Tries

LEMMA TryStages ==
  ASSUME CallsOK, NEW c \in Callback
  PROVE  /\ c \in Promise!Try /\ Promise!Try = Callback
         /\ Tries[c] = Stage(callback[c])
         /\ callback[c] = "none" <=> Tries[c] = "none"
         /\ callback[c] = "resend" => Tries[c] = "begun"
         /\ callback[c] = "report" => Tries[c] = "sent"
<1>1. callback[c] \in Place /\ Tries[c] = Stage(callback[c])
  BY DEF CallsOK, Tries
<1>2. /\ Stage("none") = "none" /\ Stage("enter") = "begun"
      /\ Stage("resend") = "begun" /\ Stage("decide") = "sent"
      /\ Stage("report") = "sent"
  BY DEF Stage
<1> QED BY <1>1, <1>2 DEF Place, Callback, Promise!Try

(***************************************************************************)
(* Every step is one of ResendPromise, or changes nothing that it          *)
(* mentions.                                                               *)
(***************************************************************************)
LEMMA SavePromise ==
  ASSUME DataOK, SavingIsNew, Copy
  PROVE  Promise!Next
  <1>1. taken > history /\ taken \in Promise!Packet
        /\ history' = taken /\ resends' = 0
    BY BoundAssumption DEF Copy, SavingIsNew, DataOK, Promise!Packet
  <1>2. UNCHANGED <<Tries, slow, settled, reported>>
    BY DEF Copy, calls, Tries
  <1>3. Promise!Save(taken)
    BY <1>1, <1>2, Zenon DEF Promise!Save, Tries
  <1> QED BY <1>1, <1>3, Zenon DEF Promise!Next

LEMMA BeginPromise ==
  ASSUME IInv, ReportedIsOver, NEW c \in Callback, Expire(c)
  PROVE  Promise!Next
  <1>0. CallsOK /\ DataOK /\ SettledIsQuiet
    BY TypeParts DEF IInv
  <1>1. history \in Promise!Packet \ settled
    BY <1>0, BoundAssumption
       DEF Expire, ReportedIsOver, SettledIsQuiet, DataOK, Promise!Packet
  <1>2. Tries[c] = "none" /\ Tries' = [Tries EXCEPT ![c] = "begun"]
    BY <1>0, TryMoves, TryStages DEF Expire, At, Place, Stage
  <1>3. slow' = {d \in Promise!Try : Tries[d] # "none"}
    BY <1>0, TryStages DEF Expire, At
  <1>4. UNCHANGED <<history, resends, settled, reported>>
    BY Zenon DEF Expire, saved
  <1>5. Promise!Begin(c)
    BY <1>1, <1>2, <1>3, <1>4, Zenon DEF Promise!Begin, Tries
  <1> QED BY <1>0, <1>5, TryStages, Zenon DEF Promise!Next

LEMMA ResendsPromise ==
  ASSUME CallsOK, DataOK, ResendBound, ResendBound', NEW c \in Callback, Resend(c)
  PROVE  Promise!Next
  <1>1. Tries[c] = "begun" /\ Tries' = [Tries EXCEPT ![c] = "sent"]
    BY TryMoves, TryStages DEF Resend, At, Place, Stage
  <1>2. resends < Limit /\ resends' = resends + 1
    BY BoundsAreNat DEF Resend, DataOK, ResendBound
  <1>3. UNCHANGED <<history, slow, settled, reported>>
    BY Zenon DEF Resend, saved
  <1>4. Promise!Resend(c)
    BY <1>1, <1>2, <1>3, Zenon DEF Promise!Resend, Tries
  <1> QED BY <1>4, TryStages, Zenon DEF Promise!Next

LEMMA EndPromise ==
  ASSUME CallsOK, NEW c \in Callback, End(c), ~At(c, "none")
  PROVE  Promise!End(c) /\ c \in Promise!Try
  <1>1. Tries[c] # "none" /\ Tries' = [Tries EXCEPT ![c] = "none"]
    BY TryMoves, TryStages DEF End, At, Place, Stage
  <1>2. slow' = slow \ {c}
    BY DEF End
  <1> QED BY <1>1, <1>2, TryStages, Zenon DEF Promise!End, Tries

LEMMA GoOnPromise ==
  ASSUME CallsOK, NEW c \in Callback, End(c), ~At(c, "none"),
         UNCHANGED <<history, resends, settled>>,
         reported' \ {0} = reported \ {0}
  PROVE  Promise!Next
  <1>1. Promise!GoOn(c)
    BY EndPromise, Zenon DEF Promise!GoOn
  <1> QED BY <1>1, EndPromise, Zenon DEF Promise!Next

LEMMA ReportPromise ==
  ASSUME CallsOK, DataOK, SettledNotReported, ReportedIsOver,
         NEW c \in Callback, Report(c)
  PROVE  Promise!Next
  <1> DEFINE b == buf[c]
  <1>1. UNCHANGED <<history, resends, settled>>
    BY Zenon DEF Report, ReportWith
  <1>2. /\ reported' = reported \cup {b} /\ (b \in settled => c \in slow)
        /\ b <= history /\ End(c) /\ callback[c] = "report"
    BY DEF Report, ReportWith, SettledNotReported, ReportedIsOver, At
  <1>3. CASE b = 0
    <2>1. reported' \ {0} = reported \ {0} /\ ~At(c, "none")
      BY <1>2, <1>3 DEF At
    <2> QED BY <1>1, <1>2, <2>1, GoOnPromise
  <1>4. CASE b # 0
    <2>1. b \in Promise!Packet /\ reported' \ {0} = (reported \ {0}) \cup {b}
      BY <1>2, <1>4, BoundAssumption DEF CallsOK, DataOK, Promise!Packet
    <2>2. Tries[c] = "sent" /\ ~At(c, "none")
      BY <1>2, TryStages DEF At
    <2>3. Promise!End(c) /\ c \in Promise!Try
      BY <1>2, <2>2, EndPromise
    <2>4. Promise!Fail(c, b)
      BY <1>1, <1>2, <2>1, <2>2, <2>3, Zenon DEF Promise!Fail, Tries
    <2> QED BY <2>1, <2>3, <2>4, Zenon DEF Promise!Next
  <1> QED BY <1>3, <1>4

LEMMA AnswerPromise ==
  ASSUME DataOK, ReportedIsOver, NEW p \in Packet, OnAnswer(p)
  PROVE  [Promise!Next]_Promise!vars
  <1>1. UNCHANGED <<history, resends, Tries, slow, reported>>
    BY DEF OnAnswer, AnswerWith, saved, Tries
  <1>2. settled' = settled \/ settled' = settled \cup {p}
    BY Zenon DEF OnAnswer, AnswerWith
  <1>3. p <= history /\ p \notin reported \ {0} /\ p \in Promise!Packet
    BY DEF OnAnswer, AnswerWith, ReportedIsOver, Packet, Promise!Packet
  <1>4. CASE settled' = settled
    BY <1>1, <1>4, Zenon DEF Promise!vars, Tries
  <1>5. CASE settled' = settled \cup {p}
    <2>1. Promise!Answer(p)
      BY <1>1, <1>3, <1>5, Zenon DEF Promise!Answer, Tries
    <2> QED BY <1>3, <2>1, Zenon DEF Promise!Next
  <1> QED BY <1>2, <1>4, <1>5

LEMMA PromiseStep ==
  ASSUME IInv, ReportedIsOver, ResendBound, ResendBound', [Next]_vars
  PROVE  [Promise!Next]_Promise!vars
  <1>0. CallsOK /\ DataOK /\ SavingIsNew /\ SettledNotReported
    BY TypeParts DEF IInv
  <1>1. CASE Copy BY <1>0, <1>1, SavePromise
  <1>2. ASSUME NEW c \in Callback, Expire(c) PROVE Promise!Next
    BY <1>2, BeginPromise
  <1>3. ASSUME NEW c \in Callback, Resend(c) PROVE Promise!Next
    BY <1>0, <1>3, ResendsPromise
  <1>4. ASSUME NEW c \in Callback, Report(c) PROVE Promise!Next
    BY <1>0, <1>4, ReportPromise
  <1>5. ASSUME NEW c \in Callback, TryLater(c) PROVE Promise!Next
    <2>1. End(c) /\ ~At(c, "none") /\ UNCHANGED <<history, resends, settled, reported>>
      BY <1>5 DEF TryLater, At, saved
    <2> QED BY <1>0, <2>1, GoOnPromise
  <1>6. ASSUME NEW c \in Callback, Enter(c) PROVE [Promise!Next]_Promise!vars
    <2>0. ~At(c, "none") /\ UNCHANGED <<history, resends, settled, reported>>
      BY <1>6 DEF Enter, EnterWith, At, saved
    <2>1. CASE error
      <3>1. End(c)
        BY <1>6, <2>1 DEF Enter, EnterWith
      <3> QED BY <1>0, <2>0, <3>1, GoOnPromise
    <2>2. CASE ~error
      <3>1. /\ GoTo(c, "resend") /\ slow' = slow
            /\ Stage("resend") = Stage(callback[c])
        BY <1>6, <2>2 DEF Enter, EnterWith, At, Stage
      <3>2. Tries' = Tries
        BY <1>0, <3>1, TryStays DEF Place
      <3> QED BY <2>0, <3>1, <3>2, Zenon DEF Promise!vars, Tries
    <2> QED BY <2>1, <2>2
  <1>7. ASSUME NEW c \in Callback, GiveUp(c) PROVE [Promise!Next]_Promise!vars
    <2>1. /\ GoTo(c, "report") /\ Stage("report") = Stage(callback[c])
          /\ UNCHANGED <<history, resends, slow, settled, reported>>
      BY <1>7 DEF GiveUp, GiveUpWith, At, Stage, saved
    <2>2. Tries' = Tries
      BY <1>0, <2>1, TryStays DEF Place
    <2> QED BY <2>1, <2>2, Zenon DEF Promise!vars, Tries
  <1>8. ASSUME NEW p \in Packet, OnAnswer(p)
        PROVE  [Promise!Next]_Promise!vars
    BY <1>0, <1>8, AnswerPromise
  <1>9. CASE \/ Drop \/ Login \/ CheckError \/ Take \/ Stamp \/ Send \/ Routine
             \/ UNCHANGED vars
    <2>1. UNCHANGED <<history, resends, callback, slow, settled, reported>>
      BY <1>9, Zenon
         DEF Drop, Login, CheckError, Take, Stamp, Send, Routine, Arm,
             ClearTrigger, vars, saved, calls
    <2>2. Tries' = Tries
      BY <2>1 DEF Tries
    <2> QED BY <2>1, <2>2, Zenon DEF Promise!vars, Tries
  <1> QED BY <1>1, <1>2, <1>3, <1>4, <1>5, <1>6, <1>7, <1>8, <1>9, Zenon
          DEF Next, Sender, Run

(***************************************************************************)
(* HistoryResend implements ResendPromise, with the callbacks for tries.   *)
(***************************************************************************)
THEOREM ResendImplements == Spec => KeepsPromise
  <1>1. Init => Promise!Init
    <2> SUFFICES ASSUME Init PROVE Promise!Init
      OBVIOUS
    <2>1. Tries = [c \in Promise!Try |-> "none"] /\ reported \ {0} = {}
      BY DEF Init, Tries, Stage, Callback, Promise!Try
    <2> QED BY <2>1, Zenon DEF Init, Promise!Init, Tries
  <1>2. Init => ReportedIsOver
    BY DEF Init, ReportedIsOver
  <1>3. Spec => []ReportedIsOver
    BY <1>2, Inductive, OverStep, PTL DEF Spec
  <1>4. IInv /\ ReportedIsOver /\ ResendBound /\ ResendBound' /\ [Next]_vars
          => [Promise!Next]_Promise!vars
    BY PromiseStep, Zenon
  <1> QED BY <1>1, <1>3, <1>4, Inductive, ResendingEnds, PTL
          DEF Spec, KeepsPromise, Promise!Spec

-----------------------------------------------------------------------------
(***************************************************************************)
(* HistoryQuery.                                                           *)
(***************************************************************************)

(***************************************************************************)
(* The times that are found are those after the interval's beginning: a    *)
(* row's text without milliseconds is less than the beginning's with them. *)
(***************************************************************************)
LEMMA AfterBegin ==
  ASSUME NEW b \in Int, NEW t \in Int
  PROVE  TextLeq(reverse_time(b), RowText(t)) <=> b < t
  <1>1. /\ RowText(t) = <<t>> /\ Len(RowText(t)) = 1
        /\ reverse_time(b) = <<b, 0>> /\ Len(reverse_time(b)) = 2
    BY DEF RowText, reverse_time
  <1>2. SubSeq(reverse_time(b), 1, Len(RowText(t))) = <<b>>
    <2> DEFINE s == SubSeq(reverse_time(b), 1, 1)
    <2>1. \A i \in 1 .. 1 : reverse_time(b)[i] \in Int /\ reverse_time(b)[i] = b
      BY <1>1
    <2>2. s \in Seq(Int) /\ Len(s) = 1 /\ s[1] = b
      BY <2>1, SubSeqProperties
    <2> HIDE DEF s
    <2>3. s = <<b>>
      BY <2>2
    <2> QED BY <1>1, <2>3 DEF s
  <1>3. DOMAIN RowText(t) \cap DOMAIN reverse_time(b) = {1}
    BY <1>1
  <1> QED BY <1>1, <1>2, <1>3 DEF TextLeq, TextLess

LEMMA UpToEnd ==
  ASSUME NEW e \in Int, NEW t \in Int
  PROVE  TextLeq(RowText(t), reverse_time(e)) <=> t <= e
  <1>1. /\ RowText(t) = <<t>> /\ Len(RowText(t)) = 1
        /\ reverse_time(e) = <<e, 0>> /\ Len(reverse_time(e)) = 2
    BY DEF RowText, reverse_time
  <1>2. DOMAIN reverse_time(e) \cap DOMAIN RowText(t) = {1}
    BY <1>1
  <1> QED BY <1>1, <1>2 DEF TextLeq, TextLess

LEMMA FoundIsAsked ==
  QueryTypeOK => Found = {t \in Asked : rows[t] > 0}
  <1> SUFFICES ASSUME QueryTypeOK PROVE Found = {t \in Asked : rows[t] > 0}
    OBVIOUS
  <1>1. Time \subseteq Int /\ begt \in Int /\ endt \in Int
    BY QueryAssumption DEF QueryTypeOK, Time
  <1> QED BY <1>1, AfterBegin, UpToEnd DEF Found, Asked

(***************************************************************************)
(* The sequences without repetition of a finite set have all of it.        *)
(***************************************************************************)
LEMMA AllInOrder ==
  ASSUME NEW S, IsFiniteSet(S), NEW s \in SetToSeqs(S)
  PROVE  s \in Seq(S) /\ \A x \in S : \E i \in 1 .. Len(s) : s[i] = x
  <1> DEFINE D == 1 .. Cardinality(S)
  <1>1. Cardinality(S) \in Nat
    BY FS_CardinalityType
  <1>2. s \in [D -> S] /\ \A i, j \in D : i # j => s[i] # s[j]
    BY DEF SetToSeqs
  <1>3. IsFiniteSet(D) /\ Cardinality(D) = Cardinality(S)
    BY <1>1, FS_Interval
  <1>4. s \in Injection(D, S)
    BY <1>2 DEF Injection, IsInjective
  <1>5. s \in Surjection(D, S)
    BY <1>3, <1>4, FS_Injection
  <1> QED BY <1>1, <1>2, <1>5 DEF Surjection

-----------------------------------------------------------------------------
(***************************************************************************)
(* What is still to be sent: while gather sends, each whole time that is   *)
(* asked for has been sent, or is among the times it has noted.  A time    *)
(* counts as whole only as long as it has all its rows.                    *)
(***************************************************************************)
Noted == {timedata[i] : i \in 1 .. Len(timedata)}

WholeAsked ==
  /\ whole \subseteq Asked /\ \A t \in whole : rows[t] = Pols
  /\ qpc = "begin" => whole = {}

Remaining ==
  qpc = "rows" /\ refusals = 0 =>
    \A t \in whole : sent[t] = Pols \/ t \in Noted

QueryInv == QueryTypeOK /\ WholeAsked /\ Remaining /\ QueryComplete

LEMMA QueryAtInit == QueryInit => QueryInv
  <1> SUFFICES ASSUME QueryInit PROVE QueryInv
    OBVIOUS
  <1>1. QueryTypeOK
    BY QueryAssumption DEF QueryInit, QueryTypeOK
  <1> QED BY <1>1 DEF QueryInit, QueryInv, WholeAsked, Remaining, QueryComplete

LEMMA AllFound ==
  ASSUME QueryTypeOK, NEW s \in Times(Found)
  PROVE  /\ s \in Seq(Time)
         /\ \A t \in Asked : rows[t] > 0 => \E i \in 1 .. Len(s) : s[i] = t
  <1>1. IsFiniteSet(Found)
    <2>1. IsFiniteSet(Time)
      <3>1. 1 \in Int /\ MaxTime \in Int
        BY QueryAssumption
      <3> QED BY <3>1, FS_Interval DEF Time
    <2> QED BY <2>1, FS_Subset DEF Found
  <1>2. s \in Seq(Found) /\ \A x \in Found : \E i \in 1 .. Len(s) : s[i] = x
    BY <1>1, AllInOrder DEF Times
  <1>3. Found \subseteq Time
    BY DEF Found
  <1> QED BY <1>2, <1>3, FoundIsAsked

LEMMA TakeNext ==
  ASSUME QueryTypeOK, timedata # <<>>, timedata' = Tail(timedata)
  PROVE  /\ Head(timedata) \in Time /\ timedata' \in Seq(Time)
         /\ Noted \subseteq Noted' \cup {Head(timedata)}
  <1> DEFINE s == timedata
             d == Tail(timedata)
  <1>1. s \in Seq(Time) /\ s # <<>>
    BY DEF QueryTypeOK
  <1>2. /\ Head(s) \in Time /\ d \in Seq(Time) /\ Len(d) = Len(s) - 1
        /\ \A i \in 1 .. Len(d) : d[i] = s[i + 1]
    BY <1>1, HeadTailProperties
  <1>3. Len(s) \in Nat /\ Head(s) = s[1]
    BY <1>1, LenProperties
  <1> HIDE DEF s, d
  <1>4. ASSUME NEW i \in 1 .. Len(s)
        PROVE  s[i] = Head(s) \/ \E j \in 1 .. Len(d) : d[j] = s[i]
    <2>1. CASE i = 1
      BY <1>3, <2>1
    <2>2. CASE i # 1
      <3>1. i - 1 \in 1 .. Len(d) /\ d[i - 1] = s[i]
        BY <1>2, <1>3, <2>2
      <3> QED BY <3>1
    <2> QED BY <2>1, <2>2
  <1> QED BY <1>2, <1>4 DEF Noted, s, d

LEMMA QueryStep == QueryInv /\ [QueryNext]_queryVars => QueryInv'
  <1> SUFFICES ASSUME QueryInv, [QueryNext]_queryVars PROVE QueryInv'
    OBVIOUS
  <1> USE DEF QueryInv, WholeAsked, Remaining, QueryComplete
  <1>0. QueryTypeOK /\ Pols \in Nat \ {0} /\ MaxChange \in Nat
        /\ MaxRefusal \in Nat
    BY QueryAssumption
  <1>1. ASSUME Respond PROVE QueryInv'
    BY <1>0, <1>1 DEF Respond, QueryTypeOK, query, Asked
  <1>2. ASSUME SelectTimes PROVE QueryInv'
    <2>1. /\ timedata' \in Seq(Time)
          /\ \A t \in Asked : rows[t] > 0 => t \in Noted'
      BY <1>0, <1>2, AllFound DEF SelectTimes, Noted
    <2>2. QueryTypeOK'
      BY <1>0, <1>2, <2>1 DEF SelectTimes, QueryTypeOK, query
    <2>3. Asked' = Asked /\ rows' = rows /\ whole' = whole /\ qpc = "times"
          /\ qpc' \in {"rows", "dead"}
      BY <1>2 DEF SelectTimes, query, Asked
    <2>4. \A t \in whole' : t \in Noted'
      BY <1>0, <2>1, <2>3
    <2> QED BY <2>2, <2>3, <2>4
  <1>3. ASSUME NoTimes PROVE QueryInv'
    <2>1. QueryTypeOK'
      BY <1>0, <1>3 DEF NoTimes, Refuse, QueryTypeOK, query
    <2> QED BY <1>0, <1>3, <2>1 DEF NoTimes, query, Asked
  <1>4. ASSUME SendRows PROVE QueryInv'
    <2> DEFINE h == Head(timedata)
    <2>1. /\ h \in Time /\ timedata' \in Seq(Time)
          /\ Noted \subseteq Noted' \cup {h}
      BY <1>0, <1>4, TakeNext DEF SendRows
    <2> HIDE DEF h
    <2>2. sent' = [sent EXCEPT ![h] = rows[h]]
      BY <1>4 DEF SendRows, h
    <2>3. QueryTypeOK'
      BY <1>0, <1>4, <2>1, <2>2 DEF SendRows, QueryTypeOK, query
    <2>4. ASSUME NEW t \in whole, refusals = 0
          PROVE  sent'[t] = Pols \/ t \in Noted'
      <3>1. t \in Time /\ rows[t] = Pols /\ (sent[t] = Pols \/ t \in Noted)
        BY <1>0, <1>4, <2>4 DEF SendRows, Asked
      <3> QED BY <1>0, <2>1, <2>2, <3>1 DEF QueryTypeOK
    <2> QED BY <1>0, <1>4, <2>3, <2>4 DEF SendRows, query, Asked
  <1>5. ASSUME SkipRows PROVE QueryInv'
    <2>1. timedata' \in Seq(Time)
      BY <1>0, <1>5, TakeNext DEF SkipRows
    <2>2. QueryTypeOK' /\ refusals' # 0
      BY <1>0, <1>5, <2>1 DEF SkipRows, Refuse, QueryTypeOK, query
    <2> QED BY <1>0, <1>5, <2>2 DEF SkipRows, query, Asked
  <1>6. ASSUME Execute PROVE QueryInv'
    <2>1. Noted = {}
      BY <1>6 DEF Execute, Noted
    <2> QED BY <1>0, <1>6, <2>1 DEF Execute, QueryTypeOK, query, Asked
  <1>7. ASSUME NEW t \in Time, InsertRow(t) PROVE QueryInv'
    <2>1. t \notin whole
      BY <1>0, <1>7 DEF InsertRow, Lacks, QueryTypeOK
    <2>2. /\ rows' = [rows EXCEPT ![t] = @ + 1] /\ rows[t] < Pols
          /\ changes < MaxChange /\ changes' = changes + 1
          /\ UNCHANGED <<kind, begt, endt, qpc, timedata, refusals, whole, sent>>
      BY <1>7, Zenon DEF InsertRow, Lacks, query
    <2>3. QueryTypeOK'
      BY <1>0, <2>2, QueryAssumption DEF QueryTypeOK
    <2>4. \A u \in whole : rows'[u] = rows[u]
      BY <1>0, <2>1, <2>2 DEF QueryTypeOK
    <2> QED BY <1>0, <2>2, <2>3, <2>4 DEF Asked, Noted
  <1>8. ASSUME NEW t \in Time, DeleteRow(t) PROVE QueryInv'
    <2>1. QueryTypeOK'
      <3>1. rows' \in [Time -> 0 .. Pols] /\ whole' \subseteq Time
        BY <1>0, <1>8 DEF DeleteRow, QueryTypeOK
      <3> QED BY <1>0, <1>8, <3>1 DEF DeleteRow, QueryTypeOK, query
    <2> QED BY <1>0, <1>8, <2>1
            DEF DeleteRow, QueryTypeOK, query, Asked, Noted
  <1>9. CASE UNCHANGED queryVars
    BY <1>0, <1>9 DEF queryVars, query, QueryTypeOK, Asked, Noted
  <1> QED BY <1>1, <1>2, <1>3, <1>4, <1>5, <1>6, <1>7, <1>8, <1>9
          DEF QueryNext, get_minute_data, get_hour_data, get_day_data, Steps

-----------------------------------------------------------------------------
(***************************************************************************)
(* More times than there is room for are found in longer intervals only.   *)
(***************************************************************************)
LEMMA FoundFits ==
  ASSUME QueryTypeOK, Cardinality(Found) > Slots PROVE endt - begt > Slots
  <1> DEFINE I == begt + 1 .. endt
  <1>1. begt \in Int /\ endt \in Int /\ Slots \in Nat
    BY QueryAssumption DEF QueryTypeOK, Time
  <1>2. Found \subseteq I
    BY <1>1, FoundIsAsked DEF Asked, Time
  <1>3. /\ IsFiniteSet(I)
        /\ Cardinality(I) = IF begt + 1 > endt THEN 0 ELSE endt - begt
    BY <1>1, FS_Interval
  <1>4. Cardinality(Found) <= Cardinality(I) /\ Cardinality(Found) \in Nat
    BY <1>2, <1>3, FS_Subset, FS_CardinalityType
  <1> QED BY <1>1, <1>3, <1>4

LEMMA OverrunStep ==
  QueryTypeOK /\ NoOverrun /\ [QueryNext]_queryVars => NoOverrun'
  <1> SUFFICES ASSUME QueryTypeOK, NoOverrun, [QueryNext]_queryVars
               PROVE  NoOverrun'
    OBVIOUS
  <1>1. CASE SelectTimes
    BY <1>1, FoundFits DEF SelectTimes, NoOverrun, query
  <1>2. CASE Respond \/ NoTimes \/ SendRows \/ SkipRows \/ Execute
    BY <1>2 DEF Respond, NoTimes, SendRows, SkipRows, Execute, NoOverrun, query
  <1>3. ASSUME NEW t \in Time, InsertRow(t) \/ DeleteRow(t) PROVE NoOverrun'
    BY <1>3 DEF InsertRow, DeleteRow, NoOverrun, query
  <1>4. CASE UNCHANGED queryVars
    BY <1>4 DEF queryVars, NoOverrun, query
  <1> QED BY <1>1, <1>2, <1>3, <1>4
          DEF QueryNext, get_minute_data, get_hour_data, get_day_data, Steps

(***************************************************************************)
(* A query that is reported as executed has sent all that was whole, and   *)
(* none overruns its room that asks for no more times than that.           *)
(***************************************************************************)
THEOREM Answered == QuerySpec => []QueryAnswered
  <1>1. QueryInit => NoOverrun
    BY DEF QueryInit, NoOverrun
  <1>2. QueryInv /\ NoOverrun => QueryAnswered /\ QueryTypeOK
    BY DEF QueryInv, QueryAnswered
  <1> QED BY <1>1, <1>2, QueryAtInit, QueryStep, OverrunStep, PTL DEF QuerySpec

-----------------------------------------------------------------------------
(***************************************************************************)
(* GatherLocks.                                                            *)
(***************************************************************************)

(***************************************************************************)
(* What the receiver is at: while it writes to a device that device is the *)
(* first of those still to be set; while it is at mutex_db it notes a      *)
(* report.  Only a query's call comes into the database without the lock.  *)
(***************************************************************************)
AtWork ==
  /\ line["receiver"] # "idle"
       => rpc = "item" /\ sb # <<>> /\ Head(sb) = "known"
  /\ at["receiver"] \in {"in", "again"} => rpc = "mark"
  /\ at["receiver"] = "bare" => rpc = "query" /\ asked > 0
  /\ \A x \in Thread : at[x] = "bare" => x = "receiver"

(***************************************************************************)
(* A thread that reads holds mutex_ctx.                                    *)
(***************************************************************************)
CtxHeld == \A x \in Reader : line[x] # "idle" => mutex_ctx = x

(***************************************************************************)
(* The threads that believe to hold mutex_db are at most as many as the    *)
(* lock accounts for, and the second unlockings.                           *)
(***************************************************************************)
Holders == {x \in Thread : at[x] = "in"}

Locks == IF mutex_db THEN 1 ELSE 0

DbCounted == Cardinality(Holders) <= Locks + doubled

-----------------------------------------------------------------------------
LEMMA TypeAtInit == LocksInit => LocksTypeOK /\ AtWork
  <1> SUFFICES ASSUME LocksInit PROVE LocksTypeOK /\ AtWork
    OBVIOUS
  <1>1. lacking \in BOOLEAN /\ mutex_db \in BOOLEAN
    BY Zenon DEF LocksInit
  <1>2. /\ rpc \in {"poll", "mark", "item", "query", "dead"}
        /\ report \in [kind : {"none"}, t : {0}]
                        \cup [kind : {"minute", "hour"}, t : ReportTime]
        /\ sb \in Seq({"known", "unknown"})
        /\ asked \in 0 .. MaxAsked
        /\ at \in [Thread -> {"out", "in", "bare", "again"}]
        /\ mutex_ctx \in Reader \cup {"none"}
        /\ line \in [Thread -> {"idle", "ask", "sleep"}]
        /\ index \in [Thread -> 0 .. RETRY_TIMES]
        /\ marked \subseteq ReportTime
        /\ messages \in 0 .. MaxMessage /\ refused \in 0 .. MaxRefused
        /\ doubled \in Nat
    BY LocksAssumption DEF LocksInit, NoReport
  <1>3. AtWork
    BY DEF LocksInit, AtWork, Thread
  <1> QED BY <1>1, <1>2, <1>3 DEF LocksTypeOK

LEMMA TypeAtStep ==
  LocksTypeOK /\ AtWork /\ [LocksNext]_lockVars => LocksTypeOK' /\ AtWork'
  <1> SUFFICES ASSUME LocksTypeOK, AtWork, [LocksNext]_lockVars
               PROVE  LocksTypeOK' /\ AtWork'
    OBVIOUS
  <1> USE DEF LocksTypeOK, AtWork, receiver, dblock, devices
  <1>1. ASSUME NEW k \in DOMAIN ReportTable, NEW t \in ReportTime,
               TakeReport(k, t)
        PROVE  LocksTypeOK' /\ AtWork'
    <2>1. k \in {"minute", "hour", "day"}
      BY DEF ReportTable
    <2>2. ReportTable["day"] = "none"
      BY DEF ReportTable
    <2> QED BY <1>1, <2>1, <2>2, LocksAssumption DEF TakeReport, TakeMessage
  <1>2. ASSUME NEW items \in {<<"known">>, <<"unknown", "known">>},
               TakeSet(items)
        PROVE  LocksTypeOK' /\ AtWork'
    <2>1. items \in Seq({"known", "unknown"})
      <3>1. <<"known">> \in Seq({"known", "unknown"})
        BY SMT
      <3>2. <<"unknown", "known">> \in Seq({"known", "unknown"})
        BY SMT
      <3> QED BY <3>1, <3>2
    <2> QED BY <1>2, <2>1, LocksAssumption DEF TakeSet, TakeMessage
  <1>3. CASE SkipItem
    BY <1>3 DEF SkipItem
  <1>4. CASE SetItem
    BY <1>4 DEF SetItem, Thread
  <1>5. CASE AllSet
    BY <1>5 DEF AllSet
  <1>6. ASSUME NEW x \in Reader, Read(x) PROVE LocksTypeOK' /\ AtWork'
    BY <1>6 DEF Read, LockDevices, Reader, Thread
  <1>7. ASSUME NEW x \in Thread, AskFails(x) PROVE LocksTypeOK' /\ AtWork'
    BY <1>7 DEF AskFails, Thread
  <1>8. ASSUME NEW x \in Thread, line[x] # "idle", Finish(x)
        PROVE  LocksTypeOK' /\ AtWork'
    <2>1. index' \in [Thread -> 0 .. RETRY_TIMES]
      BY <1>8, LocksAssumption DEF Finish
    <2>2. CASE x = "receiver"
      <3>1. sb' = Tail(sb) /\ sb' \in Seq({"known", "unknown"})
        <4> DEFINE D == {"known", "unknown"}
        <4>1. sb' = Tail(sb)
          BY <1>8, <2>2 DEF Finish
        <4>2. sb \in Seq(D) /\ sb # <<>>
          BY <1>8, <2>2
        <4> HIDE DEF D
        <4>3. Tail(sb) \in Seq(D)
          BY <4>2, HeadTailProperties
        <4> QED BY <4>1, <4>3 DEF D
      <3>2. line' \in [Thread -> {"idle", "ask", "sleep"}]
            /\ line'["receiver"] = "idle"
        BY <1>8, <2>2 DEF Finish
      <3> QED BY <1>8, <2>1, <2>2, <3>1, <3>2 DEF Finish
    <2>3. CASE x # "receiver"
      BY <1>8, <2>1, <2>3 DEF Finish, Thread
    <2> QED BY <2>2, <2>3
  <1>9. ASSUME NEW x \in Thread, Repeat(x) PROVE LocksTypeOK' /\ AtWork'
    <2>1. Counted(x) \in 0 .. RETRY_TIMES
      BY <1>9, LocksAssumption DEF Repeat, MayRepeat, Counted
    <2> QED BY <1>9, <2>1 DEF Repeat, Thread
  <1>10. ASSUME NEW x \in Thread, DbLock(x) PROVE LocksTypeOK' /\ AtWork'
    <2>1. /\ at' \in [Thread -> {"out", "in", "bare", "again"}]
          /\ at'["receiver"] \in {"in", "again"} => rpc = "mark"
          /\ \A y \in Thread : at'[y] = "bare" => at[y] = "bare"
      BY <1>10 DEF DbLock, Thread
    <2> QED BY <1>10, <2>1 DEF DbLock
  <1>11. ASSUME NEW x \in Thread, at[x] \in {"in", "again"}, DbUnlock(x),
                marked' \subseteq ReportTime, doubled' \in Nat
         PROVE  LocksTypeOK' /\ AtWork'
    <2>1. /\ at' \in [Thread -> {"out", "in", "bare", "again"}]
          /\ x # "receiver" => at'["receiver"] = at["receiver"]
          /\ x = "receiver" => at'["receiver"] = "out"
          /\ \A y \in Thread : at'[y] = "bare" => at[y] = "bare"
      BY <1>11 DEF DbUnlock, Thread
    <2>2. report' \in [kind : {"none"}, t : {0}]
                        \cup [kind : {"minute", "hour"}, t : ReportTime]
      BY <1>11 DEF DbUnlock, NoReport
    <2> QED BY <1>11, <2>1, <2>2 DEF DbUnlock
  <1>12. CASE Mark
    BY <1>11, <1>12 DEF Mark, Named, Thread
  <1>13. ASSUME NEW x \in Thread, Store(x) PROVE LocksTypeOK' /\ AtWork'
    BY <1>11, <1>13 DEF Store
  <1>14. ASSUME NEW x \in Thread, UnlockAgain(x) PROVE LocksTypeOK' /\ AtWork'
    BY <1>11, <1>14 DEF UnlockAgain
  <1>15. ASSUME NEW x \in Thread, DbRefuses(x) PROVE LocksTypeOK' /\ AtWork'
    <2>1. refused' \in 0 .. MaxRefused
      BY <1>15, LocksAssumption DEF DbRefuses, Refused
    <2>2. /\ at' \in [Thread -> {"out", "in", "bare", "again"}]
          /\ at'["receiver"] \in {"in", "again"}
               => at["receiver"] \in {"in", "again"}
          /\ \A y \in Thread : at'[y] = "bare" => at[y] = "bare"
          /\ at'["receiver"] = "bare" => at["receiver"] = "bare"
      BY <1>15 DEF DbRefuses, AfterRefusal, Thread
    <2>3. UNCHANGED <<rpc, asked>>
      BY <1>15 DEF DbRefuses
    <2>4. AtWork'
      BY <1>15, <2>2, <2>3 DEF DbRefuses
    <2> QED BY <1>15, <2>1, <2>2, <2>4 DEF DbRefuses
  <1>16. CASE UNCHANGED lockVars
    BY <1>16 DEF lockVars
  <1>17. CASE Message
    <2>1. ASSUME NEW n \in 1 .. MaxAsked, TakeQuery(n)
          PROVE  LocksTypeOK' /\ AtWork'
      BY <2>1, LocksAssumption DEF TakeQuery, TakeMessage
    <2> QED BY <1>17, <1>1, <1>2, <2>1 DEF Message
  <1>20. CASE Select
    <2>1. /\ at' \in [Thread -> {"out", "in", "bare", "again"}]
          /\ at'["receiver"] = "bare"
          /\ \A y \in Thread : at'[y] = "bare" => y = "receiver"
      BY <1>20 DEF Select, Thread
    <2> QED BY <1>20, <2>1 DEF Select
  <1>21. CASE Selected
    <2>1. /\ at' \in [Thread -> {"out", "in", "bare", "again"}]
          /\ at'["receiver"] = "out"
          /\ \A y \in Thread : at'[y] = "bare" => at[y] = "bare"
      BY <1>21 DEF Selected, Thread
    <2>2. asked' \in 0 .. MaxAsked
      BY <1>21, LocksAssumption DEF Selected
    <2> QED BY <1>21, <2>1, <2>2 DEF Selected
  <1>22. CASE Reply
    BY <1>22 DEF Reply
  <1>18. ASSUME NEW x \in Thread, Request(x) PROVE LocksTypeOK' /\ AtWork'
    BY <1>18, <1>7, <1>8, <1>9 DEF Request, AskSucceeds, LastFailure
  <1>19. ASSUME NEW x \in Thread, Call(x) PROVE LocksTypeOK' /\ AtWork'
    BY <1>19, <1>12, <1>13, <1>14, <1>15 DEF Call
  <1> HIDE DEF LocksTypeOK, AtWork
  <1> QED BY <1>3, <1>4, <1>5, <1>6, <1>10, <1>16, <1>17, <1>18, <1>19,
             <1>20, <1>21, <1>22
          DEF LocksNext, Items, Query

-----------------------------------------------------------------------------
(***************************************************************************)
(* The variables keep their types; the count of failed attempts of a       *)
(* request never passes RETRY_TIMES.                                       *)
(***************************************************************************)
THEOREM LocksTypeCorrect == LocksSpec => []LocksTypeOK
  <1> QED BY TypeAtInit, TypeAtStep, PTL DEF LocksSpec

-----------------------------------------------------------------------------
(***************************************************************************)
(* mutex_ctx: a thread takes it before its first attempt, and gives it     *)
(* back only when the request is over.                                     *)
(***************************************************************************)
LEMMA CtxStep == LocksTypeOK /\ CtxHeld /\ [LocksNext]_lockVars => CtxHeld'
  <1> SUFFICES ASSUME LocksTypeOK, CtxHeld, [LocksNext]_lockVars
               PROVE  CtxHeld'
    OBVIOUS
  <1> USE DEF CtxHeld, Reader, receiver, dblock, devices
  <1>1. line \in [Thread -> {"idle", "ask", "sleep"}]
    BY DEF LocksTypeOK
  <1>2. ASSUME NEW x \in Reader, Read(x) PROVE CtxHeld'
    BY <1>1, <1>2 DEF Read, LockDevices, Thread
  <1>3. ASSUME NEW x \in Thread, line[x] # "idle", Finish(x) PROVE CtxHeld'
    BY <1>1, <1>3 DEF Finish, Thread
  <1>4. ASSUME NEW x \in Thread, Request(x) PROVE CtxHeld'
    <2>1. CASE AskFails(x)
      BY <1>1, <2>1 DEF AskFails, Thread
    <2>2. CASE Repeat(x)
      BY <1>1, <2>2 DEF Repeat, Thread
    <2> QED BY <1>3, <1>4, <2>1, <2>2 DEF Request, AskSucceeds, LastFailure
  <1>5. CASE SetItem
    BY <1>1, <1>5 DEF SetItem, Thread
  <1>6. CASE Message
    BY <1>6 DEF Message, TakeReport, TakeSet, TakeQuery, TakeMessage
  <1>7. CASE SkipItem \/ AllSet
    BY <1>7 DEF SkipItem, AllSet
  <1>8. ASSUME NEW x \in Thread, DbLock(x) PROVE CtxHeld'
    BY <1>8 DEF DbLock
  <1>9. ASSUME NEW x \in Thread, Call(x) PROVE CtxHeld'
    BY <1>9 DEF Call, Mark, Store, DbRefuses, UnlockAgain, DbUnlock
  <1>10. CASE UNCHANGED lockVars
    BY <1>10 DEF lockVars
  <1>11. CASE Query
    BY <1>11 DEF Query, Select, Selected, Reply
  <1> QED BY <1>2, <1>4, <1>5, <1>6, <1>7, <1>8, <1>9, <1>10, <1>11
          DEF LocksNext, Items

(***************************************************************************)
(* Two readings never meet on the line.                                    *)
(***************************************************************************)
THEOREM ReadersApart == LocksSpec => []ReadersAlone
  <1>1. LocksInit => CtxHeld
    BY DEF LocksInit, CtxHeld, Reader, Thread
  <1>2. CtxHeld => ReadersAlone
    BY DEF CtxHeld, ReadersAlone
  <1> QED BY <1>1, <1>2, CtxStep, TypeAtInit, TypeAtStep, PTL DEF LocksSpec

-----------------------------------------------------------------------------
(***************************************************************************)
(* A text with milliseconds is no text without them.                       *)
(***************************************************************************)
LEMMA TextsDiffer == ASSUME NEW t, NEW u PROVE RowText(t) # reverse_time(u)
  <1>1. Len(RowText(t)) = 1 /\ Len(reverse_time(u)) = 2
    BY DEF RowText, reverse_time
  <1> QED BY <1>1

(***************************************************************************)
(* No report marks a row, whatever times the rows have.                    *)
(***************************************************************************)
THEOREM NothingMarked == LocksSpec => []ReportsMarkNothing
  <1>1. LocksInit => ReportsMarkNothing
    BY DEF LocksInit, ReportsMarkNothing
  <1>2. ReportsMarkNothing /\ [LocksNext]_lockVars => ReportsMarkNothing'
    <2> SUFFICES ASSUME ReportsMarkNothing, [LocksNext]_lockVars
                 PROVE  ReportsMarkNothing'
      OBVIOUS
    <2> USE DEF ReportsMarkNothing
    <2>1. CASE Mark
      <3>1. Named = {}
        BY TextsDiffer DEF Named
      <3> QED BY <2>1, <3>1 DEF Mark
    <2>2. CASE Message
      BY <2>2 DEF Message, TakeReport, TakeSet, TakeQuery
    <2>3. CASE Items \/ Query
      BY <2>3 DEF Items, SkipItem, SetItem, AllSet, Query, Select, Selected,
                  Reply
    <2>4. ASSUME NEW x \in Thread, Read(x) PROVE ReportsMarkNothing'
      BY <2>4 DEF Read
    <2>5. ASSUME NEW x \in Thread, Request(x) PROVE ReportsMarkNothing'
      BY <2>5 DEF Request, AskFails, AskSucceeds, Repeat, LastFailure, Finish
    <2>6. ASSUME NEW x \in Thread, DbLock(x) PROVE ReportsMarkNothing'
      BY <2>6 DEF DbLock
    <2>7. ASSUME NEW x \in Thread, Store(x) \/ DbRefuses(x) \/ UnlockAgain(x)
          PROVE  ReportsMarkNothing'
      BY <2>7 DEF Store, DbRefuses, UnlockAgain
    <2>8. CASE UNCHANGED lockVars
      BY <2>8 DEF lockVars
    <2>9. Reader \subseteq Thread
      BY DEF Reader, Thread
    <2> QED BY <2>1, <2>2, <2>3, <2>4, <2>5, <2>6, <2>7, <2>8, <2>9
            DEF LocksNext, Call
  <1> QED BY <1>1, <1>2, PTL DEF LocksSpec

-----------------------------------------------------------------------------
(***************************************************************************)
(* How the set of threads in the database grows and shrinks.               *)
(***************************************************************************)
LEMMA HoldersFinite == IsFiniteSet(Holders) /\ Cardinality(Holders) \in Nat
  <1>1. IsFiniteSet({"receiver"}) /\ IsFiniteSet({"timer"})
        /\ IsFiniteSet({"alarm"})
    BY FS_Singleton
  <1>2. Thread = {"receiver"} \cup ({"timer"} \cup {"alarm"})
    BY DEF Thread
  <1>3. IsFiniteSet(Thread)
    BY <1>1, <1>2, FS_Union
  <1>4. Holders \subseteq Thread
    BY DEF Holders
  <1> QED BY <1>3, <1>4, FS_Subset, FS_CardinalityType

LEMMA HoldersGrows ==
  ASSUME LocksTypeOK, NEW x \in Thread, at[x] # "in",
         at' = [at EXCEPT ![x] = "in"]
  PROVE  Cardinality(Holders') = Cardinality(Holders) + 1
  <1>1. Holders' = Holders \cup {x} /\ x \notin Holders
    BY DEF Holders, LocksTypeOK
  <1> QED BY <1>1, HoldersFinite, FS_AddElement

LEMMA HoldersShrinks ==
  ASSUME LocksTypeOK, NEW x \in Thread, at[x] = "in", NEW v, v # "in",
         at' = [at EXCEPT ![x] = v]
  PROVE  Cardinality(Holders') = Cardinality(Holders) - 1
  <1>1. Holders' = Holders \ {x} /\ x \in Holders
    BY DEF Holders, LocksTypeOK
  <1> QED BY <1>1, HoldersFinite, FS_RemoveElement

LEMMA HoldersStays ==
  ASSUME LocksTypeOK, NEW x \in Thread, at[x] # "in", NEW v, v # "in",
         at' = [at EXCEPT ![x] = v]
  PROVE  Cardinality(Holders') = Cardinality(Holders)
  <1>1. Holders' = Holders
    BY DEF Holders, LocksTypeOK
  <1> QED BY <1>1

LEMMA DbStep ==
  LocksTypeOK /\ DbCounted /\ [LocksNext]_lockVars => DbCounted'
  <1> SUFFICES ASSUME LocksTypeOK, DbCounted, [LocksNext]_lockVars
               PROVE  DbCounted'
    OBVIOUS
  <1>1. Cardinality(Holders) \in Nat /\ doubled \in Nat
    BY HoldersFinite DEF LocksTypeOK
  <1>2. Cardinality(Holders) <= 1 + doubled
    BY <1>1 DEF DbCounted, Locks
  <1>3. ASSUME NEW x \in Thread, DbLock(x) PROVE DbCounted'
    <2>1. Cardinality(Holders') = Cardinality(Holders) + 1
      BY <1>3, HoldersGrows DEF DbLock
    <2>2. Cardinality(Holders) <= doubled
      BY <1>1, <1>3 DEF DbCounted, Locks, DbLock, DbFree
    <2>3. Locks' = 1 /\ doubled' = doubled
      BY <1>3 DEF DbLock, Locks
    <2> QED BY <1>1, <2>1, <2>2, <2>3 DEF DbCounted
  <1>4. ASSUME NEW x \in Thread, at[x] = "in", DbUnlock(x),
               doubled' = doubled
        PROVE  DbCounted'
    <2>1. Cardinality(Holders') = Cardinality(Holders) - 1
      BY <1>4, HoldersShrinks DEF DbUnlock
    <2>2. Locks' = 0
      BY <1>4 DEF DbUnlock, Locks
    <2> QED BY <1>1, <1>2, <1>4, <2>1, <2>2 DEF DbCounted
  <1>5. ASSUME NEW x \in Thread, DbRefuses(x) PROVE DbCounted'
    <2>1. AfterRefusal(x) # "in"
      BY DEF AfterRefusal
    <2>2. Cardinality(Holders') = Cardinality(Holders) - 1
      BY <1>5, <2>1, HoldersShrinks DEF DbRefuses
    <2>3. Locks' = 0 /\ doubled' = doubled
      BY <1>5 DEF DbRefuses, Locks
    <2> QED BY <1>1, <1>2, <2>2, <2>3 DEF DbCounted
  <1>6. ASSUME NEW x \in Thread, UnlockAgain(x) PROVE DbCounted'
    <2>1. Cardinality(Holders') = Cardinality(Holders)
      BY <1>6, HoldersStays DEF UnlockAgain, DbUnlock
    <2>2. Locks' = 0 /\ doubled' = doubled + 1
      BY <1>6 DEF UnlockAgain, DbUnlock, Locks
    <2> QED BY <1>1, <1>2, <2>1, <2>2 DEF DbCounted
  <1>7. ASSUME UNCHANGED dblock PROVE DbCounted'
    BY <1>7 DEF dblock, DbCounted, Holders, Locks
  <1>8. CASE Message
    BY <1>7, <1>8 DEF Message, TakeReport, TakeSet, TakeQuery
  <1>9. CASE Items
    BY <1>7, <1>9 DEF Items, SkipItem, SetItem, AllSet
  <1>10. ASSUME NEW x \in Thread, Read(x) PROVE DbCounted'
    BY <1>7, <1>10 DEF Read
  <1>11. ASSUME NEW x \in Thread, Request(x) PROVE DbCounted'
    BY <1>7, <1>11 DEF Request, AskFails, AskSucceeds, Repeat, LastFailure,
                       Finish
  <1>12. CASE UNCHANGED lockVars
    BY <1>7, <1>12 DEF lockVars
  <1>13. ASSUME NEW x \in Thread, Call(x) PROVE DbCounted'
    BY <1>4, <1>5, <1>6, <1>13 DEF Call, Mark, Store, Thread
  <1>14. Reader \subseteq Thread
    BY DEF Reader, Thread
  <1>15. CASE Query
    <2>1. CASE Select \/ Selected
      <3>1. "receiver" \in Thread
        BY DEF Thread
      <3>2. Cardinality(Holders') = Cardinality(Holders)
        BY <2>1, <3>1, HoldersStays DEF Select, Selected
      <3> QED BY <2>1, <3>2 DEF Select, Selected, DbCounted, Locks
    <2>2. CASE Reply
      BY <1>7, <2>2 DEF Reply
    <2> QED BY <1>15, <2>1, <2>2 DEF Query
  <1> QED BY <1>15, <1>3, <1>8, <1>9, <1>10, <1>11, <1>12, <1>13, <1>14 DEF LocksNext

(***************************************************************************)
(* Each second unlocking lets one more thread into the database, a query   *)
(* lets in the receiver, and nothing else does.                            *)
(***************************************************************************)
THEOREM DatabaseShared == LocksSpec => []DbShared
  <1>1. LocksInit => DbCounted
    <2> SUFFICES ASSUME LocksInit PROVE DbCounted
      OBVIOUS
    <2>1. Holders = {}
      BY DEF LocksInit, Holders
    <2> QED BY <2>1, FS_EmptySet DEF LocksInit, DbCounted, Locks
  <1>2. LocksTypeOK /\ AtWork /\ DbCounted => DbShared
    <2> SUFFICES ASSUME LocksTypeOK, AtWork, DbCounted PROVE DbShared
      OBVIOUS
    <2>1. Cardinality(Holders) \in Nat /\ doubled \in Nat
      BY HoldersFinite DEF LocksTypeOK
    <2>2. Cardinality(Holders) <= 1 + doubled
      BY <2>1 DEF DbCounted, Locks
    <2>3. CASE at["receiver"] = "bare"
      <3>1. Inside = Holders \cup {"receiver"} /\ "receiver" \notin Holders
        BY <2>3 DEF Inside, Holders, AtWork, Thread
      <3>2. Cardinality(Inside) = Cardinality(Holders) + 1
        BY <3>1, HoldersFinite, FS_AddElement
      <3>3. Querying = 1
        BY <2>3 DEF AtWork, Querying
      <3> QED BY <2>1, <2>2, <3>2, <3>3 DEF DbShared
    <2>4. CASE at["receiver"] # "bare"
      <3>1. Inside = Holders
        BY <2>4 DEF Inside, Holders, AtWork, Thread
      <3> QED BY <2>1, <2>2, <3>1 DEF DbShared, Querying
    <2> QED BY <2>3, <2>4
  <1> QED BY <1>1, <1>2, DbStep, TypeAtInit, TypeAtStep, PTL DEF LocksSpec

(***************************************************************************)
(* What the locks keep apart, in the database and on the line, together.   *)
(***************************************************************************)
THEOREM Kept == LocksSpec => []LocksKeep
  <1>1. DbShared /\ ReadersAlone => LocksKeep
    BY DEF LocksKeep
  <1> QED BY <1>1, DatabaseShared, ReadersApart, PTL
=============================================================================

-------------------------- MODULE Heartbeat_proofs --------------------------
(***************************************************************************)
(* Proofs about Heartbeat, for any limits and any release.                 *)
(***************************************************************************)
EXTENDS FieldHeartbeat, TLAPS

USE LimitAssumption

(***************************************************************************)
(* A step of the present or of the release in the field.                   *)
(***************************************************************************)
AnyStep == Next \/ V43

-----------------------------------------------------------------------------
(***************************************************************************)
(* Every variable has its type: the counts are cut off above their limits. *)
(***************************************************************************)
LEMMA TypeInit == ASSUME NEW f \in BOOLEAN, InitOf(f) PROVE TypeOK
  <1>1. field \in BOOLEAN /\ fallen \in BOOLEAN /\ late \in BOOLEAN
    BY Zenon DEF InitOf
  <1> QED BY <1>1 DEF InitOf, TypeOK, K, Socket

LEMMA TypeStep == TypeOK /\ [AnyStep]_vars => TypeOK'
  <1> SUFFICES ASSUME TypeOK, [AnyStep]_vars
               PROVE  TypeOK'
    OBVIOUS
  <1> USE DEF TypeOK, K, Socket, heart, message, watchdog, Capped
  <1>1. CASE Login BY <1>1 DEF Login
  <1>2. CASE ClearDog BY <1>2 DEF ClearDog
  <1>3. CASE SeeError BY <1>3 DEF SeeError
  <1>4. CASE Close BY <1>4 DEF Close, Left
  <1>5. CASE Begin BY <1>5 DEF Begin
  <1>6. CASE SendFails BY <1>6 DEF SendFails
  <1>7. CASE Wake BY <1>7 DEF Wake
  <1>8. CASE WatchdogExpire BY <1>8 DEF WatchdogExpire, Increment
  <1>9. CASE Listen BY <1>9 DEF Listen, Heard
  <1>10. CASE Receive BY <1>10 DEF Receive
  <1>11. CASE ReceiveOther BY <1>11 DEF ReceiveOther
  <1>12. CASE Forward BY <1>12 DEF Forward
  <1>13. CASE ReceiveFails BY <1>13 DEF ReceiveFails
  <1>14. CASE ReceiveEnd BY <1>14 DEF ReceiveEnd
  <1>15. CASE ServerAnswers BY <1>15 DEF ServerAnswers
  <1>16. CASE SigPipe BY <1>16 DEF SigPipe
  <1>17. CASE SendOk \/ heartbeat_v43
    BY <1>17 DEF SendOk, heartbeat_v43, Sent, Counted
  <1>18. CASE Expire \/ timeout_v43
    BY <1>18 DEF Expire, timeout_v43, Fire
  <1>19. ASSUME NEW s \in {"good", "silent"}, ServerTurns(s)
        PROVE  TypeOK'
    BY <1>19 DEF ServerTurns
  <1>20. CASE UNCHANGED vars BY <1>20 DEF vars
  <1>21. CASE Wait BY <1>21 DEF Wait
  <1> QED
    BY <1>1, <1>2, <1>3, <1>4, <1>5, <1>6, <1>7, <1>8, <1>9, <1>10, <1>11,
       <1>12, <1>13, <1>14, <1>15, <1>16, <1>17, <1>18, <1>19, <1>20, <1>21, Zenon
       DEF AnyStep, Next, Other, V43, main_v43, heartbeat_routine_v43,
           receiver_routine_v43, respond_heartbeat_v43, watchdog_v43

-----------------------------------------------------------------------------
(***************************************************************************)
(* While server and gather have always been at hand there has been one     *)
(* session only.  What a heartbeat still lacks is on its way: until it is  *)
(* sent nothing can be; once it is sent it waits for its answer, or its    *)
(* timer is off.  The watchdog timer has expired at most twice since the   *)
(* latest, and each expiry has counted once.                               *)
(***************************************************************************)
OneSession ==
  /\ server = "good" /\ main = "up" /\ error = 0
  /\ rcv \in {"cur", "free", "forward"}
  /\ ~late

AnswerOnItsWay ==
  /\ hpc \in {"idle", "send", "sleep"}
  /\ hpc = "idle" => timer = "off"
  /\ hpc = "send" => timer = "armed"
  /\ hpc = "sleep" =>
       \/ timer = "off"
       \/ timer = "armed" /\ "cur" \in {awaiting, answer}
  /\ awaiting \in {"none", "cur"} /\ answer \in {"none", "cur"}
  /\ hpc = "send" => awaiting = "none" /\ answer = "none"

DogFed ==
  /\ since \in 0 .. 2 /\ senddog \in Nat
  /\ senddog <= since

Healthy == OneSession /\ AnswerOnItsWay /\ DogFed

HealthyInv == ~fallen => Healthy

(***************************************************************************)
(* A step of either release keeps it.                                      *)
(***************************************************************************)
LEMMA HealthyStep == HealthyInv /\ [AnyStep]_vars => HealthyInv'
  <1> SUFFICES ASSUME HealthyInv, [AnyStep]_vars
               PROVE  HealthyInv'
    OBVIOUS
  <1> USE DEF HealthyInv, Healthy, OneSession, AnswerOnItsWay, DogFed,
              heart, message, watchdog
  <1>1. CASE Login BY <1>1 DEF Login
  <1>2. CASE ClearDog BY <1>2 DEF ClearDog
  <1>3. CASE SeeError BY <1>3 DEF SeeError
  <1>4. CASE Close BY <1>4 DEF Close
  <1>5. CASE Begin BY <1>5 DEF Begin
  <1>6. CASE (\E n : Sent(n)) /\ senddog' = 0
    BY <1>6 DEF Sent
  <1>7. CASE SendFails BY <1>7 DEF SendFails
  <1>8. CASE Wake BY <1>8 DEF Wake
  <1>9. CASE \E e : Fire(e)
    BY <1>9 DEF Fire, InTime
  <1>10. CASE WatchdogExpire
    BY <1>10 DEF WatchdogExpire, Increment, Capped
  <1>11. CASE Listen BY <1>11 DEF Listen, Heard
  <1>12. CASE Receive BY <1>12 DEF Receive
  <1>13. CASE ReceiveOther BY <1>13 DEF ReceiveOther
  <1>14. CASE Forward BY <1>14 DEF Forward
  <1>15. CASE ReceiveFails BY <1>15 DEF ReceiveFails
  <1>16. CASE ReceiveEnd BY <1>16 DEF ReceiveEnd
  <1>17. CASE ServerAnswers BY <1>17 DEF ServerAnswers
  <1>18. ASSUME NEW s \in {"good", "silent"}, ServerTurns(s)
        PROVE HealthyInv'
    BY <1>18 DEF ServerTurns
  <1>19. CASE SigPipe BY <1>19 DEF SigPipe
  <1>20. CASE UNCHANGED vars BY <1>20 DEF vars
  <1>21. SendOk \/ heartbeat_v43 => (\E n : Sent(n)) /\ senddog' = 0
    BY DEF SendOk, heartbeat_v43
  <1>22. Expire \/ timeout_v43 => \E e : Fire(e)
    BY DEF Expire, timeout_v43
  <1>23. CASE Wait BY <1>23 DEF Wait
  <1> QED
    BY <1>1, <1>2, <1>3, <1>4, <1>5, <1>6, <1>7, <1>8, <1>9, <1>10, <1>11,
       <1>12, <1>13, <1>14, <1>15, <1>16, <1>17, <1>18, <1>19, <1>20,
       <1>21, <1>22, <1>23, Zenon
       DEF AnyStep, Next, Other, V43, main_v43, heartbeat_routine_v43,
           receiver_routine_v43, respond_heartbeat_v43, watchdog_v43

LEMMA HealthyInit == ASSUME NEW f, InitOf(f) PROVE HealthyInv
  BY DEF InitOf, HealthyInv, Healthy, OneSession, AnswerOnItsWay, DogFed

LEMMA HealthyStays == HealthyInv => HealthyKept
  BY DEF HealthyInv, Healthy, OneSession, HealthyKept

-----------------------------------------------------------------------------
LEMMA AnySteps ==
  /\ [Next]_vars => [AnyStep]_vars
  /\ [(~field /\ Next) \/ V43]_vars => [AnyStep]_vars
  BY Zenon DEF AnyStep

(***************************************************************************)
(* Every variable has its type, in any release and for any limits.         *)
(***************************************************************************)
THEOREM TypeCorrect == AnySpec => []TypeOK
  <1>1. Init \/ InitOf(TRUE) => TypeOK
    BY TypeInit DEF Init
  <1> QED BY <1>1, TypeStep, AnySteps, PTL DEF AnySpec

(***************************************************************************)
(* Neither timer ends the session of a server that has always answered at  *)
(* once, whatever the limits of the two counts, at present.                *)
(***************************************************************************)
THEOREM Kept == Spec => []HealthyKept
  <1>1. Init => HealthyInv
    BY HealthyInit DEF Init
  <1> QED BY <1>1, AnySteps, HealthyStep, HealthyStays, PTL DEF Spec

(***************************************************************************)
(* The same of any release, the one in the field without a count included. *)
(***************************************************************************)
THEOREM KeptInField == AnySpec => []HealthyKept
  <1>1. Init \/ InitOf(TRUE) => HealthyInv
    BY HealthyInit DEF Init
  <1> QED BY <1>1, AnySteps, HealthyStep, HealthyStays, PTL DEF AnySpec
=============================================================================

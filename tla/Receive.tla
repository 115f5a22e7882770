------------------------------ MODULE Receive -------------------------------
(***************************************************************************)
(* What a client makes of the bytes that a server sends: it logs in, and   *)
(* then hands what it receives to its own handlers and to gather.          *)
(*                                                                         *)
(* TCP keeps the order of the bytes, not the borders of the packets: each  *)
(* recv returns some of what has arrived.  The client takes what one recv  *)
(* returned for one packet, and so does gather.  Damage of a byte or an    *)
(* exchange of two, which the checksum is there for, can happen before     *)
(* the bytes are sent.                                                     *)
(*                                                                         *)
(* The receiver is a thread of its own, and outlives a connection.  close  *)
(* does not wake it when it waits in recv: the socket lives on below it,   *)
(* the server may still send there, and what the recv returns at last goes *)
(* the usual way, in a later session too.  Only then does the receiver     *)
(* turn to the socket of the day.  (One that waits in mq_send with what it *)
(* has read is no different: it is as if it had read later.)               *)
(***************************************************************************)
EXTENDS Packet

CONSTANTS
  Room,         \* numbers in a buffer, enough for the longest frame
  MsgSize,      \* numbers in a message of gather's queue: 1024
  MaxLogin,     \* bound: connections
  MaxFrame,     \* bound: packets that the server sends in a connection
  MaxDamage     \* bound: packets that are damaged

ASSUME ReceiveAssumption ==
  /\ {Room, MsgSize, MaxLogin, MaxFrame, MaxDamage} \subseteq Nat
  /\ DataMax >= 3 /\ Room >= DataMax + 6

VARIABLES
  conf,         \* the configuration
  link,         \* "closed", "login" (the client waits in recv), "session"
  stream,       \* sent by the server and not yet received
  qn,           \* the time in the login packet, as its number
  damages,      \* damaged packets so far
  sent,         \* history: data of the packets sent in this connection
  verified,     \* history: data that verify_packet let pass
  handled,      \* history: answers that were known again
  passed,       \* history: commands that gather has received
  whole,        \* history: recvs, as long as each returned one whole packet
  behind,       \* is the receiver in recv on the socket of a past connection?
  left,         \* sent there and not yet received
  before,       \* history: data of the packets sent there
  stray         \* history: those of them that reached the handlers after it

setup == <<conf, damages>>
past  == <<sent, verified, handled, passed, whole>>
old   == <<behind, left, before, stray>>
receiveVars == <<setup, link, stream, qn, past, old>>

(***************************************************************************)
(* Packets, by their data: the answer to a login, the answer to a packet,  *)
(* a command.  The second number tells packets of a kind apart.            *)
(***************************************************************************)
Accept(n)  == <<65, 48 + n>>
Respond(n) == <<66, 48 + n>>
Order(n)   == <<67, 48 + n, 48>>

IsRespond(d) == Len(d) > 0 /\ d[1] = 66
IsOrder(d)   == Len(d) > 0 /\ d[1] = 67

Packets ==
  {Accept(n) : n \in 0 .. MaxLogin}
    \cup {Respond(n) : n \in 1 .. MaxFrame} \cup {Order(n) : n \in 1 .. MaxFrame}

(***************************************************************************)
(* What becomes of a damaged character: a number that is none, a digit, a  *)
(* letter, the sign that begins a frame.  Whatever the checksum is, it     *)
(* tells a packet from one in which a single character is another.         *)
(***************************************************************************)
Wrong == {0, 3, 66, Hash}

ASSUME ChecksumAssumption ==
  \A d \in Packets :
    /\ crc16(d) \in Nat
    /\ \A i \in DOMAIN d : \A v \in Wrong \ {d[i]} :
         crc16([d EXCEPT ![i] = v]) # crc16(d)

NotWhole == -1

ReceiveTypeOK ==
  /\ conf \in Config
  /\ link \in {"closed", "login", "session"}
  /\ Len(stream) <= MaxFrame * Room
  /\ qn \in 0 .. MaxLogin /\ damages \in 0 .. MaxDamage
  /\ \A i \in DOMAIN sent : sent[i] \in Packets
  /\ \A i \in DOMAIN passed : Len(passed[i]) + 6 <= MsgSize
  /\ whole \in 0 .. MaxFrame \cup {NotWhole}
  /\ behind \in BOOLEAN /\ Len(left) <= MaxFrame * Room
  /\ \A i \in DOMAIN before : before[i] \in Packets

ReceiveInit ==
  /\ conf \in Config
  /\ link = "closed" /\ stream = <<>> /\ qn = 0 /\ damages = 0
  /\ sent = <<>> /\ verified = <<>> /\ handled = <<>> /\ passed = <<>>
  /\ whole = 0
  /\ behind = FALSE /\ left = <<>> /\ before = <<>> /\ stray = <<>>

-----------------------------------------------------------------------------
(***************************************************************************)
(* The network.                                                            *)
(***************************************************************************)
Swapped(r, i) ==    \* two characters of the data
  [r EXCEPT ![i] = r[i + 1], ![i + 1] = r[i]]

Damaged(r) ==
  {[r EXCEPT ![i] = v] : i \in DOMAIN r, v \in Wrong}
    \cup {Swapped(r, i) : i \in 4 .. Len(r) - 4}

SendPacket(d) ==
  /\ link # "closed" /\ Len(sent) < MaxFrame
  /\ sent' = Append(sent, d)
  /\ UNCHANGED <<conf, link, qn, verified, handled, passed, old>>

SendWhole(d) ==
  /\ SendPacket(d)
  /\ stream' = stream \o encap_packet(d)
  /\ UNCHANGED <<damages, whole>>

SendDamaged(d) ==
  /\ SendPacket(d)
  /\ damages < MaxDamage
  /\ damages' = damages + 1
  /\ \E r \in Damaged(encap_packet(d)) : stream' = stream \o r
  /\ whole' = NotWhole

ServerSends ==
  \E d \in {Accept(n) : n \in {0, qn}}
             \cup {Respond(Len(sent) + 1), Order(Len(sent) + 1)} :
    SendWhole(d) \/ SendDamaged(d)

SendsOnOld ==       \* to a client that has closed the connection
  \E d \in {Respond(Len(before) + 1), Order(Len(before) + 1)} :
    /\ behind /\ Len(before) < MaxFrame
    /\ before' = Append(before, d)
    /\ \/ left' = left \o encap_packet(d) /\ UNCHANGED damages
       \/ /\ damages < MaxDamage /\ damages' = damages + 1
          /\ \E r \in Damaged(encap_packet(d)) : left' = left \o r
    /\ UNCHANGED <<conf, link, stream, qn, past, behind, stray>>

-----------------------------------------------------------------------------
(***************************************************************************)
(* The client.                                                             *)
(***************************************************************************)
LogIn ==            \* it has connected, and sends its login packet
  /\ link = "closed" /\ qn < MaxLogin
  /\ link' = "login" /\ qn' = qn + 1
  /\ stream' = <<>>
  /\ sent' = <<>> /\ verified' = <<>> /\ handled' = <<>> /\ passed' = <<>>
  /\ whole' = 0
  /\ UNCHANGED <<setup, old>>

StaysBehind ==      \* the receiver, in recv
  /\ link = "session" /\ ~behind
  /\ behind' = TRUE /\ left' = stream /\ before' = sent /\ stray' = <<>>

LinkEnds ==         \* the server or the client closes it
  /\ link # "closed"
  /\ link' = "closed"
  /\ StaysBehind \/ UNCHANGED old
  /\ UNCHANGED <<setup, stream, qn, past>>

Received(r) ==      \* what a recv returns, of which the rest remains
  \E n \in 1 .. Len(stream) :
    /\ n <= Room
    /\ r = SubSeq(stream, 1, n)
    /\ stream' = SubSeq(stream, n + 1, Len(stream))

Segments == {SubSeq(stream, 1, n) : n \in 1 .. Len(stream)}

Counts(r) ==
  whole' = IF /\ whole \in 0 .. Len(sent) - 1
              /\ r = encap_packet(sent[whole + 1])
             THEN whole + 1 ELSE NotWhole

parse_login_info_bug(r) == ReadsLoginAnswer(conf) /\ Data(r)[1] = 65

parse_login_info(r) == ReadsLoginAnswer(conf) /\ Data(r) = Accept(qn)

LoginAnswered(r) ==
  /\ link = "login" /\ Received(r)
  /\ verify_packet(r) /\ parse_login_info(r)
  /\ link' = "session"
  /\ verified' = Append(verified, Data(r))
  /\ Counts(r)
  /\ UNCHANGED <<setup, qn, sent, handled, passed, old>>

LoginRefused(r) ==
  /\ link = "login" /\ Received(r)
  /\ ~(verify_packet(r) /\ parse_login_info(r))
  /\ link' = "closed"
  /\ UNCHANGED <<setup, qn, past, old>>

parse_recv_respond(d) ==    \* the answer to a packet of some kind
  \E kind \in DOMAIN Answered :
    handled' = IF IsRespond(d) /\ KnownAgain(kind, conf)
                 THEN Append(handled, d) ELSE handled

PassOn(r) == Len(r) <= MsgSize      \* mq_send fails otherwise

parse_recv_command(d) ==
  passed' = IF IsOrder(d) /\ ReadsCommand(conf)
              THEN Append(passed, d) ELSE passed

Receive(r) ==
  /\ link = "session" /\ ~behind /\ Received(r)
  /\ verify_packet(r)
  /\ verified' = Append(verified, Data(r))
  /\ parse_recv_respond(Data(r))
  /\ IF PassOn(r) THEN parse_recv_command(Data(r)) ELSE UNCHANGED passed
  /\ Counts(r)
  /\ UNCHANGED <<setup, link, qn, sent, old>>

Discard(r) ==       \* and five seconds of sleep
  /\ link = "session" /\ ~behind /\ Received(r)
  /\ ~verify_packet(r)
  /\ Counts(r)
  /\ UNCHANGED <<setup, link, qn, sent, verified, handled, passed, old>>

HandedOn(r) == verify_packet(r) /\ (IsRespond(Data(r)) \/ IsOrder(Data(r)))

OldRecv ==          \* returns, once, or fails
  /\ behind
  /\ \/ UNCHANGED stray
     \/ \E n \in 1 .. Len(left) :
          LET r == SubSeq(left, 1, n)
          IN  n <= Room /\ HandedOn(r) /\ stray' = Append(stray, Data(r))
  /\ behind' = FALSE /\ left' = <<>>
  /\ UNCHANGED <<setup, link, stream, qn, past, before>>

ReceiveNext ==
  \/ ServerSends \/ SendsOnOld \/ LogIn \/ LinkEnds \/ OldRecv
  \/ \E r \in Segments :
       LoginAnswered(r) \/ LoginRefused(r) \/ Receive(r) \/ Discard(r)

ReceiveSpec == ReceiveInit /\ [][ReceiveNext]_receiveVars

-----------------------------------------------------------------------------
(***************************************************************************)
(* However the bytes are cut and joined, and although one packet may be    *)
(* damaged, the handlers of the client and of gather see only packets that *)
(* the server has sent: those of this connection each once and in their    *)
(* order, and ahead of them, if the receiver was left in recv on the       *)
(* socket of an earlier one, one packet of that (packet.c 115-247,         *)
(* client.c 329-375).                                                      *)
(***************************************************************************)
Number(d) == d[2]

Ascending(s) == \A i, j \in DOMAIN s : i < j => Number(s[i]) < Number(s[j])

Members(s) == {s[i] : i \in DOMAIN s}

InOrder(s) == Members(s) \subseteq Members(sent) /\ Ascending(s)

OnlyWhole ==
  /\ InOrder(handled) /\ InOrder(passed)
  /\ Len(stray) <= 1 /\ Members(stray) \subseteq Members(before)
  /\ behind /\ link # "closed" => handled = <<>> /\ passed = <<>>

(***************************************************************************)
(* With values of the standard width, as long as each recv has returned    *)
(* one whole packet, nothing is lost: each answer to a heartbeat, an alarm *)
(* or history data is known again, and each command that fits in gather's  *)
(* queue gets there, all of them in their order (client.c 215-253,         *)
(* packet.c 249-590).                                                      *)
(***************************************************************************)
Holds(s, packets) == Members(s) = packets /\ Ascending(s)

Fits(d) == Len(d) + 6 <= MsgSize

NothingLost ==
  LET taken == Members(SubSeq(sent, 1, whole))
  IN  (conf = Standard /\ whole # NotWhole)
        => /\ verified = SubSeq(sent, 1, whole)
           /\ Holds(handled, {d \in taken : IsRespond(d)})
           /\ Holds(passed, {d \in taken : IsOrder(d) /\ Fits(d)})

(***************************************************************************)
(* A session begins only when the server has accepted the login of this    *)
(* very connection (client.c 804-881).                                     *)
(***************************************************************************)
SessionAccepted == link = "session" => sent # <<>> /\ sent[1] = Accept(qn)
=============================================================================

------------------------------- MODULE Packet -------------------------------
(***************************************************************************)
(* The packets of the terminal and its servers: what is written where, and *)
(* the frame around it.                                                    *)
(*                                                                         *)
(* The data of a packet is a sequence of fields, written with printf and a *)
(* minimal width for each value.  The readers look for a field at a fixed  *)
(* number of characters: with a pointer, or with a scanf that skips that   *)
(* many characters but stops at a blank.  The password and the terminal's  *)
(* number come from the configuration; a short one is filled with blanks,  *)
(* a long one moves what follows.                                          *)
(*                                                                         *)
(* The frame is a sequence of numbers: each character of the data is one,  *)
(* and so is each of the two marks at both ends; the four digits of the    *)
(* length and those of the checksum are one number each.                   *)
(***************************************************************************)
EXTENDS Integers, Sequences

CONSTANTS
  DataMax,      \* characters of data in a frame: 1024
  crc16(_)      \* the checksum of data (Checksum)

ASSUME DataMaxAssumption == DataMax \in Nat

-----------------------------------------------------------------------------
(***************************************************************************)
(* Layouts.                                                                *)
(***************************************************************************)
Standard == [pw |-> 6, mn |-> 14]           \* characters of the two values

Config == {Standard, [pw |-> 4, mn |-> 14], [pw |-> 8, mn |-> 14],
           [pw |-> 6, mn |-> 15]}

Head4 == <<"ST", "CN", "PW", "MN">>

create_pkt_login == Head4 \o <<"QN", "Flag", "CP">>
create_pkt_heartbeat == Head4 \o <<"QN", "Flag", "CP">>
create_pkt_realtime_data == Head4 \o <<"Flag", "CP", "DataTime">>
create_pkt_sbs_status == Head4 \o <<"Flag", "CP", "DataTime">>
create_pkt_alarm_data == Head4 \o <<"CP", "QN", "DataTime">>
create_pkt_minute_data_bug == Head4 \o <<"CP", "QN", "DataTime">>   \* no Flag
create_pkt_minute_data == Head4 \o <<"Flag", "CP", "QN", "DataTime">>
create_pkt_hourly_data == Head4 \o <<"Flag", "CP", "QN", "DataTime">>
create_pkt_daily_data == Head4 \o <<"Flag", "CP", "QN", "DataTime">>
create_pkt_response == Head4 \o <<"Flag", "CP", "QN", "QnRtn">>
create_pkt_exec == Head4 \o <<"Flag", "CP", "QN", "ExeRtn">>

Answer == Head4 \o <<"Flag", "CP", "QN", "CN2">>    \* a server's, to a packet
LoginAnswer == Answer \o <<"DataTime">>
Command == <<"QN">> \o Head4 \o <<"Flag", "CP", "Argument">>

Characters ==       \* with the name, and the sign that ends it
  [ST |-> 6, CN |-> 8, Flag |-> 7, CP |-> 5, QN |-> 21, CN2 |-> 8,
   DataTime |-> 27, QnRtn |-> 9, ExeRtn |-> 10, Argument |-> 24]

AtLeast(w, value) == IF value > w THEN value ELSE w

Width(f, conf) ==
  IF f = "PW" THEN 4 + AtLeast(6, conf.pw)
  ELSE IF f = "MN" THEN 4 + AtLeast(14, conf.mn)
  ELSE Characters[f]

Blank(f, conf) == (f = "PW" /\ conf.pw < 6) \/ (f = "MN" /\ conf.mn < 14)

Before(p, i, conf) == \* the characters before the i-th field, of nine at most
  LET w(j) == IF j < i THEN Width(p[j], conf) ELSE 0
  IN  w(1) + w(2) + w(3) + w(4) + w(5) + w(6) + w(7) + w(8)

PointsAt(p, n, f, conf) ==      \* pkt + n, after a name of two letters
  \E i \in DOMAIN p : p[i] = f /\ Before(p, i, conf) + 3 = n

Scans(p, n, f, conf) ==         \* "%*<n>s<f>="
  \E i \in DOMAIN p :
    /\ p[i] = f /\ Before(p, i, conf) = n
    /\ \A j \in 1 .. i - 1 : ~Blank(p[j], conf)

-----------------------------------------------------------------------------
(***************************************************************************)
(* The readers.                                                            *)
(***************************************************************************)
ReadsLoginAnswer(conf) ==
  /\ \E i \in DOMAIN create_pkt_login : create_pkt_login[i] = "QN"
  /\ Scans(LoginAnswer, 12 - 6, "CN", conf)     \* the frame begins with six
  /\ Scans(LoginAnswer, 55 - 6, "CP", conf)

ReadsAnswer(conf) ==
  /\ Scans(Answer, 6, "CN", conf)
  /\ Scans(Answer, 54, "QN", conf)
  /\ Scans(Answer, 75, "CN2", conf)

ReadsCommand(conf) ==
  /\ Scans(Command, 0, "QN", conf)
  /\ Scans(Command, 27, "CN", conf)
  /\ Scans(Command, 75, "Argument", conf)

(***************************************************************************)
(* The sender looks at the code of every packet that gather has queued, to *)
(* tell history data from the others, and then at the time.                *)
(***************************************************************************)
Queued ==
  {create_pkt_realtime_data, create_pkt_sbs_status, create_pkt_alarm_data,
   create_pkt_minute_data, create_pkt_hourly_data, create_pkt_daily_data,
   create_pkt_response, create_pkt_exec}

ReadsQueued(p, conf) ==
  /\ \A other \in Queued : PointsAt(other, 9, "CN", conf)
  /\ PointsAt(p, 57, "QN", conf)

(***************************************************************************)
(* Is the answer to a packet of kind k known again?  It repeats the time   *)
(* in the packet, which is compared with the one that was kept: of a       *)
(* heartbeat and of an alarm by the writer, of history data by the sender. *)
(***************************************************************************)
History == [minute |-> create_pkt_minute_data, hour |-> create_pkt_hourly_data,
            day |-> create_pkt_daily_data]

Answered ==
  [heartbeat |-> create_pkt_heartbeat, alarm |-> create_pkt_alarm_data,
   minute |-> History.minute, hour |-> History.hour, day |-> History.day]

KnownAgain(k, conf) ==
  /\ \E i \in DOMAIN Answered[k] : Answered[k][i] = "QN"
  /\ ReadsAnswer(conf)
  /\ k \in DOMAIN History => ReadsQueued(History[k], conf)

-----------------------------------------------------------------------------
(***************************************************************************)
(* The frame.                                                              *)
(***************************************************************************)
Hash == 35
CR == 13
LF == 10

encap_packet(d) == <<Hash, Hash, Len(d)>> \o d \o <<crc16(d), CR, LF>>

(***************************************************************************)
(* The receivers empty the buffer before they read: behind what was read   *)
(* there are zeros.                                                        *)
(***************************************************************************)
Buffer(r, i) == IF i \in DOMAIN r THEN r[i] ELSE 0

Data(r) == SubSeq(r, 4, 3 + Buffer(r, 3))

Marked(r) ==
  /\ Buffer(r, 1) = Hash /\ Buffer(r, 2) = Hash
  /\ Buffer(r, 3) <= DataMax
  /\ Buffer(r, 3 + Buffer(r, 3) + 2) = CR
  /\ Buffer(r, 3 + Buffer(r, 3) + 3) = LF

verify_packet_bug(r) == Marked(r)      \* without the checksum

verify_packet(r) ==
  /\ Marked(r)
  /\ Buffer(r, 3 + Buffer(r, 3) + 1) = crc16(Data(r))
=============================================================================

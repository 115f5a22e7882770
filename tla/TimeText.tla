------------------------------ MODULE TimeText ------------------------------
(***************************************************************************)
(* Times as the database sees them: texts that it compares character by    *)
(* character.  A row's time is cut to the seconds ("%.17s00" of a text as  *)
(* 2014-05-06 07:08:09); the time in a message, seventeen digits, becomes  *)
(* a text that goes on with the milliseconds.                              *)
(*                                                                         *)
(* A moment is a number, for the digits down to the seconds: those of two  *)
(* moments compare as the moments.  A text is the sequence of its parts.   *)
(***************************************************************************)
EXTENDS Integers, Sequences

RowText(t) == <<t>>

reverse_time_bug(t) == <<t>>        \* without the milliseconds

reverse_time(t) == <<t, 0>>         \* a message's time ends with 000

TextLess(a, b) ==
  \/ \E k \in DOMAIN a \cap DOMAIN b :
       /\ a[k] < b[k]
       /\ \A j \in 1 .. k - 1 : a[j] = b[j]
  \/ Len(a) < Len(b) /\ a = SubSeq(b, 1, Len(a))

TextLeq(a, b) == ~TextLess(b, a)
=============================================================================

---------------------------- MODULE MCClockSync ----------------------------
(***************************************************************************)
(* ClockSync for TLC: two timers, the interval of one a multiple of the    *)
(* other's, as with ten seconds and five minutes.                          *)
(***************************************************************************)
EXTENDS ClockSync

MCInterval == {2, 6}
=============================================================================

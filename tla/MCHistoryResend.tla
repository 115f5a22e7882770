-------------------------- MODULE MCHistoryResend --------------------------
(***************************************************************************)
(* RETRY_COUNT is the code's 3.  Two packets, so that one can arrive while *)
(* the other is being resent, and one drop of the link.                    *)
(***************************************************************************)
EXTENDS HistoryResend
=============================================================================

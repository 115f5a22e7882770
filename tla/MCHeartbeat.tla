---------------------------- MODULE MCHeartbeat ----------------------------
(***************************************************************************)
(* The heartbeat of any release (FieldHeartbeat) for TLC, with the limits  *)
(* of config.h and client.c.                                               *)
(***************************************************************************)
EXTENDS FieldHeartbeat
=============================================================================

--------------------------- MODULE MCLinkControl ---------------------------
(***************************************************************************)
(* One client that reboots the terminal after its third failed attempt in  *)
(* a row.  (Link_proofs has the invariants for any set of clients.) *)
(***************************************************************************)
EXTENDS LinkControl
=============================================================================

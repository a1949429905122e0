--------------------------- MODULE MCBamAdminRpc ---------------------------
(* Model checking of BamAdminRpc. *)
EXTENDS BamAdminRpc
=============================================================================

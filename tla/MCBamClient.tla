----------------------------- MODULE MCBamClient -----------------------------
(* Model checking of BamClient. *)
EXTENDS BamClient
=============================================================================

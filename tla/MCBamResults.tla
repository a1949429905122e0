---------------------------- MODULE MCBamResults ----------------------------
(* Model checking of BamResults. *)
EXTENDS BamResults
=============================================================================

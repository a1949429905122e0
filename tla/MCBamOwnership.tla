--------------------------- MODULE MCBamOwnership ---------------------------
(***************************************************************************)
(* A small instance of BamOwnership.                                       *)
(***************************************************************************)
EXTENDS BamOwnership
=============================================================================

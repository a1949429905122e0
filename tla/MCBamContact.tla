---------------------------- MODULE MCBamContact ----------------------------
(***************************************************************************)
(* Small instances of BamContact.                                          *)
(***************************************************************************)
EXTENDS BamContact
=============================================================================

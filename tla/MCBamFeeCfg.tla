---- MODULE MCBamFeeCfg ----
(* A TLC instance of BamFeeCfg: two pubkey words, two builders, a version     *)
(* space of three so that it wraps while pack is reading.                     *)
EXTENDS BamFeeCfg
============================

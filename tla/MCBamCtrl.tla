---- MODULE MCBamCtrl ----
(* TLC instances of BamCtrlGet: the command lines of the set-bam processes.   *)
EXTENDS BamCtrlGet

Request(cmd, en, u, s) == [command |-> cmd, enable |-> en, url |-> u, sni |-> s]

CONSTANTS u1, u2, s1

MCUrls == {u1, u2}
MCSnis == {s1}
MCRequests ==
  { Request({"ENABLE"}, FALSE, Blank, Blank),
    Request({"URL"}, FALSE, u2, Blank),
    Request({"URL", "ENABLE"}, TRUE, Blank, Blank),
    Request({"URL", "ENABLE"}, TRUE, BadUrl, Blank),
    Request({"SNI", "ENABLE"}, TRUE, Blank, s1) }
==========================

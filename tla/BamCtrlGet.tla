----------------------------- MODULE BamCtrlGet -----------------------------
(***************************************************************************)
(* get-bam beside the set-bam commands of BamCtrl: get_bam_cmd_fn waits    *)
(* until the mailbox is settled and then prints enable, url and sni, which *)
(* it reads one after the other and without holding the mailbox.           *)
(***************************************************************************)
EXTENDS BamCtrl

VARIABLES
  get_pc,     \* "poll", "enable", "url", "sni", "printed", "gave_up"
  printed,    \* <<enable, url, sni>> as read so far
  surfaced,   \* history: configurations the tile had since the last poll
  updating    \* history: a set-bam took the mailbox since the last poll

getVars == <<get_pc, printed, surfaced, updating>>

\* The configuration as ctrl_update_current shows it.
Surface == <<enabled, server_url, IF server_url = Blank THEN Blank ELSE server_sni>>

GetInit ==
  /\ Init
  /\ get_pc = "poll"
  /\ printed = <<enable, url, sni>>
  /\ surfaced = {Surface}
  /\ updating = FALSE

\* Mutant: a request that is being applied counts as settled.
SettledWhileApplying == state \notin {"REQUEST", "LOCKED"}

Settled == state \notin {"REQUEST", "APPLYING", "LOCKED"}

GetBamPoll ==
  /\ get_pc = "poll"
  /\ \/ /\ Settled
        /\ get_pc' = "enable"
     \/ /\ ~Settled                      \* after two seconds
        /\ get_pc' = "gave_up"
  /\ surfaced' = {Surface}
  /\ updating' = FALSE
  /\ UNCHANGED <<vars, printed>>

GetBamReadEnable ==
  /\ get_pc = "enable"
  /\ printed' = <<enable, printed[2], printed[3]>>
  /\ get_pc' = "url"
  /\ UNCHANGED <<vars, surfaced, updating>>

GetBamReadUrl ==
  /\ get_pc = "url"
  /\ printed' = <<printed[1], url, printed[3]>>
  /\ get_pc' = "sni"
  /\ UNCHANGED <<vars, surfaced, updating>>

GetBamReadSni ==
  /\ get_pc = "sni"
  /\ printed' = <<printed[1], printed[2], sni>>
  /\ get_pc' = "printed"
  /\ UNCHANGED <<vars, surfaced, updating>>

\* The set-bam commands and the tile run on while get-bam reads.
Others ==
  /\ Next
  /\ IF get_pc = "printed"
       THEN UNCHANGED <<surfaced, updating>>
       ELSE /\ surfaced' = surfaced \cup {Surface'}
            /\ updating' = (updating \/ state' = "LOCKED")
  /\ UNCHANGED <<get_pc, printed>>

GetNext == Others \/ GetBamPoll \/ GetBamReadEnable \/ GetBamReadUrl \/ GetBamReadSni

GetSpec == GetInit /\ [][GetNext]_<<vars, getVars>>

GetFairSpec == GetSpec /\ WF_vars(HandleCtrl) /\ \A c \in Clis : WF_vars(SetBam(c))

\* get-bam prints the tile's configuration unless a set-bam took the mailbox
\* after the poll or an earlier one abandoned its request in it.
SnapshotUnlessUpdated ==
  get_pc = "printed" /\ ~updating /\ timed_out = {} => printed \in surfaced

\* get_bam.c: the poll is there "so this command prints a consistent snapshot":
\* what it prints is a configuration the tile had while the command ran (leaving
\* aside requests abandoned in the mailbox).
ConsistentSnapshot == get_pc = "printed" /\ timed_out = {} => printed \in surfaced
=============================================================================

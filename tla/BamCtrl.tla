------------------------------ MODULE BamCtrl ------------------------------
(***************************************************************************)
(* The runtime control mailbox fd_bam_ctrl_t: set-bam commands, each a     *)
(* process of its own, hand the BAM tile a configuration change through    *)
(* shared memory; the tile applies it in housekeeping.                     *)
(*                                                                         *)
(* A URL stands for a parsed (host, port, ssl) endpoint and, used as an    *)
(* SNI, for its host.  Blank is the empty string, BadUrl any URL           *)
(* fd_bam_tile_apply_ctrl_request refuses.                                 *)
(***************************************************************************)
EXTENDS Naturals

CONSTANTS
  Clis,      \* the set-bam processes
  Requests,  \* the command lines they are started with
  Urls, Snis, Blank, BadUrl, None

ASSUME CtrlConstants ==
  /\ Blank \notin Urls /\ BadUrl \notin Urls /\ Blank # BadUrl
  /\ None \notin Clis
  /\ \A r \in Requests : r.command # {}
  /\ Requests \subseteq [command : SUBSET {"ENABLE", "URL", "SNI"}, enable : BOOLEAN,
                         url : Urls \cup {Blank, BadUrl}, sni : Snis \cup {Blank}]

VARIABLES
  state,           \* mailbox: fd_bam_ctrl_t.state
  command,         \* mailbox: requested fields
  enable, url, sni,\* mailbox: requested, and afterwards current, values
  enabled,         \* tile: ctx->enabled
  server_url,      \* tile: server_fqdn, server_tcp_port, is_ssl
  server_sni,      \* tile: server_sni
  conn,            \* tile: endpoint of the live connection, or None
  work,            \* tile: endpoint whose scheduler work is still live, or None
  tile,            \* tile: progress of fd_bam_tile_handle_ctrl
  pc,              \* set-bam: where each process is
  req,             \* set-bam: its command line
  owner,           \* history: the process that locked the mailbox last
  applied,         \* history: processes whose request the tile has claimed
  timed_out,       \* history: processes that reported a claim timeout
  before           \* history: the tile's configuration before the claimed request

mailbox  == <<state, command, enable, url, sni>>
fields   == <<command, enable, url, sni>>
tileVars == <<enabled, server_url, server_sni, conn, work, tile>>
cliVars  == <<pc, req, timed_out>>
history  == <<owner, applied, before>>
vars     == <<mailbox, tileVars, cliVars, history>>

SniValues   == Snis \cup Urls \cup {Blank}
UrlValues   == Urls \cup {Blank}
Config      == <<enabled, server_url, server_sni>>
Configs     == BOOLEAN \X UrlValues \X SniValues

\* Every variable keeps its shape: in particular the tile's configuration never
\* takes a URL that it should have refused.
TypeOK ==
  /\ state \in {"IDLE", "LOCKED", "REQUEST", "APPLYING", "SUCCESS", "ERROR"}
  /\ command \in SUBSET {"ENABLE", "URL", "SNI"}
  /\ enable \in BOOLEAN
  /\ url \in UrlValues \cup {BadUrl}
  /\ sni \in SniValues
  /\ enabled \in BOOLEAN
  /\ server_url \in UrlValues
  /\ server_sni \in SniValues
  /\ conn \in (Urls \X SniValues) \cup {None}
  /\ work \in (Urls \X SniValues) \cup {None}
  /\ tile \in {"ready", "applying", "succeed", "fail"}
  /\ pc \in [Clis -> {"start", "write_enable", "write_url", "write_sni", "submit",
                      "wait", "done", "killed"}]
  /\ req \in [Clis -> Requests]
  /\ owner \in Clis \cup {None}
  /\ applied \in SUBSET Clis
  /\ timed_out \in SUBSET Clis
  /\ before \in Configs

\* privileged_init: an endpoint from the configuration file (or none), and the
\* mailbox showing it.
Init ==
  /\ state = "IDLE"
  /\ command = {}
  /\ \/ enabled \in BOOLEAN /\ server_url \in Urls /\ server_sni \in Snis \cup {server_url}
     \/ enabled = FALSE /\ server_url = Blank /\ server_sni = Blank
  /\ enable = enabled /\ url = server_url /\ sni = server_sni
  /\ conn = None
  /\ work = None
  /\ tile = "ready"
  /\ pc = [c \in Clis |-> "start"]
  /\ req \in [Clis -> Requests]
  /\ owner = None
  /\ applied = {}
  /\ timed_out = {}
  /\ before = Config

(***************************************************************************)
(* set-bam: set_bam_apply_request.                                         *)
(***************************************************************************)

\* Mutant: the mailbox is taken without looking at its state.
UnconditionalLock == TRUE

\* The compare-and-swap IDLE -> LOCKED.
LockFree == state = "IDLE"

\* Any other state ends the command with "update is in progress".
SetBamLock(c) ==
  /\ pc[c] = "start"
  /\ \/ /\ LockFree
        /\ state' = "LOCKED"
        /\ owner' = c
        /\ pc' = [pc EXCEPT ![c] = "write_enable"]
     \/ /\ ~LockFree
        /\ pc' = [pc EXCEPT ![c] = "done"]
        /\ UNCHANGED <<state, owner>>
  /\ UNCHANGED <<fields, tileVars, req, timed_out, applied, before>>

SetBamWriteEnable(c) ==
  /\ pc[c] = "write_enable"
  /\ command' = req[c].command
  /\ enable' = IF "ENABLE" \in req[c].command THEN req[c].enable ELSE enable
  /\ pc' = [pc EXCEPT ![c] = "write_url"]
  /\ UNCHANGED <<state, url, sni, tileVars, req, timed_out, history>>

SetBamWriteUrl(c) ==
  /\ pc[c] = "write_url"
  /\ url' = IF "URL" \in req[c].command THEN req[c].url ELSE url
  /\ pc' = [pc EXCEPT ![c] = "write_sni"]
  /\ UNCHANGED <<state, command, enable, sni, tileVars, req, timed_out, history>>

SetBamWriteSni(c) ==
  /\ pc[c] = "write_sni"
  /\ sni' = IF "SNI" \in req[c].command THEN req[c].sni ELSE sni
  /\ pc' = [pc EXCEPT ![c] = "submit"]
  /\ UNCHANGED <<state, command, enable, url, tileVars, req, timed_out, history>>

SetBamSubmit(c) ==
  /\ pc[c] = "submit"
  /\ state' = "REQUEST"
  /\ pc' = [pc EXCEPT ![c] = "wait"]
  /\ UNCHANGED <<fields, tileVars, req, timed_out, history>>

\* SUCCESS or ERROR: report and hand the mailbox back.
SetBamReport(c) ==
  /\ pc[c] = "wait"
  /\ state \in {"SUCCESS", "ERROR"}
  /\ state' = "IDLE"
  /\ pc' = [pc EXCEPT ![c] = "done"]
  /\ UNCHANGED <<fields, tileVars, req, timed_out, history>>

\* Mutant: gives up although the tile has claimed the request.
AbandonLate == state \in {"REQUEST", "APPLYING"}

\* The compare-and-swap REQUEST -> IDLE.
AbandonUnclaimed == state = "REQUEST"

\* After 15 seconds an unclaimed request is taken back and a claimed one is
\* waited for.  The last branch of the loop, for any other state, is never
\* taken: see WaiterOwnsMailbox.
SetBamTimeout(c) ==
  /\ pc[c] = "wait"
  /\ AbandonUnclaimed
  /\ state' = "IDLE"
  /\ timed_out' = timed_out \cup {c}
  /\ pc' = [pc EXCEPT ![c] = "done"]
  /\ UNCHANGED <<fields, tileVars, req, history>>

\* The operator or the system ends the command at any point.
SetBamKill(c) ==
  /\ pc[c] \notin {"done", "killed"}
  /\ pc' = [pc EXCEPT ![c] = "killed"]
  /\ UNCHANGED <<mailbox, tileVars, req, timed_out, history>>

SetBam(c) ==
  \/ SetBamLock(c) \/ SetBamWriteEnable(c) \/ SetBamWriteUrl(c) \/ SetBamWriteSni(c)
  \/ SetBamSubmit(c) \/ SetBamReport(c)

(***************************************************************************)
(* The BAM tile: fd_bam_tile_handle_ctrl, called by housekeeping.          *)
(***************************************************************************)

\* The compare-and-swap REQUEST -> APPLYING.
HandleCtrlClaim ==
  /\ tile = "ready"
  /\ state = "REQUEST"
  /\ state' = "APPLYING"
  /\ tile' = "applying"
  /\ applied' = applied \cup {owner}
  /\ before' = Config
  /\ UNCHANGED <<fields, enabled, server_url, server_sni, conn, work, cliVars, owner>>

\* The endpoint, SNI and enable flag a request asks for, given the current ones
\* cfg; an SNI left blank or not given with a URL is the host.
Requested(cmd, en, u, s, cfg) ==
  LET host == IF "URL" \in cmd THEN u ELSE cfg[2]
  IN IF "URL" \in cmd /\ u = Blank THEN <<FALSE, Blank, Blank>>
     ELSE << IF "ENABLE" \in cmd THEN en ELSE cfg[1],
             host,
             IF "SNI" \in cmd THEN (IF s = Blank THEN host ELSE s)
             ELSE IF "URL" \in cmd THEN host ELSE cfg[3] >>

\* Mutant: an SNI change alone keeps the connection.
ResetForUrlOnly(new) ==
  \/ "URL" \in command
  \/ new[1] # enabled

\* need_reset: clearing an endpoint that is set, any URL or SNI, a change of
\* the enable flag.
NeedReset(new) ==
  IF "URL" \in command /\ url = Blank
    THEN enabled \/ server_url # Blank \/ server_sni # Blank
    ELSE "URL" \in command \/ "SNI" \in command \/ new[1] # enabled

\* Mutant: an SNI change does not retire the old scheduler's work.
StaleWithoutSni(new) ==
  \/ "URL" \in command /\ url = Blank
  \/ new[2] # server_url
  \/ enabled /\ ~new[1]

\* scheduler_work_stale: the work of the old scheduler must be retired
\* (fd_bam_tile_begin_scheduler_generation).
WorkStale(new) ==
  \/ "URL" \in command /\ url = Blank
  \/ new[2] # server_url
  \/ new[3] # server_sni
  \/ enabled /\ ~new[1]

\* Mutant: mailbox fields that were not requested are applied too.
ApplyAllFields == Requested({"ENABLE", "URL", "SNI"}, enable, url, sni, Config)

ApplyFields == Requested(command, enable, url, sni, Config)

\* Every refusal comes before the first assignment.
Refused == "URL" \in command /\ url = BadUrl

\* fd_bam_tile_apply_ctrl_request and the first half of ctrl_update_current,
\* which blanks url and sni before it fills them in again.
ApplyCtrlRequest ==
  /\ tile = "applying"
  /\ IF Refused
       THEN UNCHANGED <<enabled, server_url, server_sni, conn, work>>
       ELSE LET new == ApplyFields
            IN /\ enabled' = new[1]
               /\ server_url' = new[2]
               /\ server_sni' = new[3]
               /\ work' = IF WorkStale(new) THEN None ELSE work
               /\ conn' = IF NeedReset(new) THEN None ELSE conn
  /\ enable' = enabled'
  /\ url' = Blank
  /\ sni' = Blank
  /\ tile' = IF Refused THEN "fail" ELSE "succeed"
  /\ UNCHANGED <<state, command, cliVars, history>>

\* Mutant: a refused request is not reported.
FinishSilently ==
  /\ tile \in {"succeed", "fail"}
  /\ url' = server_url
  /\ sni' = IF server_url = Blank THEN Blank ELSE server_sni
  /\ state' = IF tile = "fail" THEN state ELSE "SUCCESS"
  /\ tile' = "ready"
  /\ UNCHANGED <<command, enable, enabled, server_url, server_sni, conn, work,
                 cliVars, history>>

\* The second half of ctrl_update_current, and the final store of the state.
HandleCtrlFinish ==
  /\ tile \in {"succeed", "fail"}
  /\ url' = server_url
  /\ sni' = IF server_url = Blank THEN Blank ELSE server_sni
  /\ state' = IF tile = "fail" THEN "ERROR" ELSE "SUCCESS"
  /\ tile' = "ready"
  /\ UNCHANGED <<command, enable, enabled, server_url, server_sni, conn, work,
                 cliVars, history>>

\* The gRPC client connects to the configured endpoint, or loses it.
Connect ==
  /\ tile = "ready"
  /\ conn = None
  /\ enabled /\ server_url # Blank
  /\ conn' = <<server_url, server_sni>>
  /\ UNCHANGED <<mailbox, enabled, server_url, server_sni, work, tile, cliVars,
                 history>>

Disconnect ==
  /\ tile = "ready"
  /\ conn # None
  /\ conn' = None
  /\ UNCHANGED <<mailbox, enabled, server_url, server_sni, work, tile, cliVars,
                 history>>

\* A batch of the connected scheduler enters the pipeline.
ReceiveWork ==
  /\ tile = "ready"
  /\ conn # None
  /\ work' = conn
  /\ UNCHANGED <<mailbox, enabled, server_url, server_sni, conn, tile, cliVars, history>>

HandleCtrl == HandleCtrlClaim \/ ApplyCtrlRequest \/ HandleCtrlFinish

Next ==
  \/ \E c \in Clis : SetBam(c) \/ SetBamTimeout(c) \/ SetBamKill(c)
  \/ HandleCtrl
  \/ Connect
  \/ Disconnect
  \/ ReceiveWork

Spec == Init /\ [][Next]_vars

\* Housekeeping runs handle_ctrl forever, and a command that is not killed
\* keeps polling.
FairSpec == Spec /\ WF_vars(HandleCtrl) /\ \A c \in Clis : WF_vars(SetBam(c))

(***************************************************************************)
(* Properties.                                                             *)
(***************************************************************************)

\* A set-bam that is writing the request or polling owns the mailbox: no other
\* command is between its lock and its report, and the polling loop of
\* set_bam_apply_request never meets a state outside the request's own cycle.
WaiterOwnsMailbox ==
  \A c \in Clis :
    /\ pc[c] \in {"write_enable", "write_url", "write_sni", "submit"} =>
         owner = c /\ state = "LOCKED"
    /\ pc[c] = "wait" => owner = c /\ state \in {"REQUEST", "APPLYING", "SUCCESS", "ERROR"}

\* A command that told its operator "timed out waiting to be claimed" is never
\* applied by the tile, however the 15 s timeout races the claim.
TimedOutNeverApplied == timed_out \cap applied = {}

\* What the tile runs with after a request is what the command line of the
\* mailbox's owner asks for, applied to the configuration before it: nothing of
\* an abandoned or refused request leaks in, and a refused one changes nothing.
AppliesOwnersRequest ==
  tile \in {"succeed", "fail"} =>
    LET r == req[owner]
    IN Config = IF "URL" \in r.command /\ r.url = BadUrl THEN before
                ELSE Requested(r.command, r.enable, r.url, r.sni, before)

\* No sequence of requests leaves the client connected to an endpoint, or under
\* an SNI, other than the configured one, or connected while disabled.
ConnMatchesConfig == conn # None => enabled /\ conn = <<server_url, server_sni>>

\* Scheduler work that is still live always comes from the configured endpoint.
WorkMatchesConfig == work # None => enabled /\ work = <<server_url, server_sni>>

\* Every set-bam that submitted its request ends.
SetBamEnds == \A c \in Clis : pc[c] = "wait" ~> pc[c] # "wait"

\* fd_bam_ctrl.h on IDLE: "ctrl fields reflect current BAM runtime config".
IdleReflectsConfig ==
  state = "IDLE" =>
    /\ enable = enabled
    /\ url = server_url
    /\ sni = IF server_url = Blank THEN Blank ELSE server_sni
=============================================================================

--------------------------- MODULE BamCtrlProofs ---------------------------
(***************************************************************************)
(* Proofs about BamCtrl and BamCtrlGet, for any number of set-bam commands *)
(* and any command lines: who owns the mailbox, what the tile applies,     *)
(* what stays connected, and what get-bam prints.                          *)
(***************************************************************************)
EXTENDS BamCtrlGet, TLAPS

\* The parts of c's command line that have reached the mailbox.
EnableWritten(c) ==
  /\ command = req[c].command
  /\ "ENABLE" \in command => enable = req[c].enable
UrlWritten(c) == "URL" \in command => url = req[c].url
SniWritten(c) == "SNI" \in command => sni = req[c].sni
Written(c)    == EnableWritten(c) /\ UrlWritten(c) /\ SniWritten(c)

\* A command that has not started has left no trace; the owner of a request that
\* is not claimed yet is neither applied nor timed out.
OwnerInv ==
  /\ \A c \in Clis : pc[c] = "start" => c # owner /\ c \notin applied /\ c \notin timed_out
  /\ state # "IDLE" => owner \in Clis
  /\ state \in {"LOCKED", "REQUEST"} => owner \notin applied /\ owner \notin timed_out
  /\ tile # "ready" <=> state = "APPLYING"

\* The mailbox holds the owner's request from its submission to its application.
RequestInv ==
  /\ \A c \in Clis :
       /\ pc[c] \in {"write_url", "write_sni", "submit"} => EnableWritten(c)
       /\ pc[c] \in {"write_sni", "submit"} => UrlWritten(c)
       /\ pc[c] = "submit" => SniWritten(c)
  /\ state = "REQUEST" \/ tile = "applying" => Written(owner)
  /\ tile = "applying" => before = Config

CtrlInv ==
  TypeOK /\ WaiterOwnsMailbox /\ TimedOutNeverApplied /\ OwnerInv /\ RequestInv
         /\ AppliesOwnersRequest

EndpointInv == TypeOK /\ ConnMatchesConfig /\ WorkMatchesConfig

\* Outside a request the mailbox shows the configuration, unless a command that
\* timed out has left its request there; ctrl_update_current restores enable
\* before url and sni.
ShowsConfig ==
  /\ Settled /\ timed_out = {} => <<enable, url, sni>> = Surface
  /\ tile \in {"succeed", "fail"} => enable = enabled

\* While get-bam reads and no command locks the mailbox, the mailbox stays
\* settled and what has been read is the configuration.
ReadInv ==
  /\ get_pc \in {"poll", "enable", "url", "sni", "printed", "gave_up"}
  /\ printed \in BOOLEAN \X (UrlValues \cup {BadUrl}) \X SniValues
  /\ get_pc \in {"enable", "url", "sni"} /\ ~updating =>
       /\ Settled
       /\ Surface \in surfaced
       /\ timed_out = {} =>
            /\ get_pc \in {"url", "sni"} => printed[1] = enabled
            /\ get_pc = "sni" => printed[2] = server_url
  /\ SnapshotUnlessUpdated

USE CtrlConstants

\* A request that does not name a field does not look at it.
LEMMA RequestedSame ==
  ASSUME NEW cmd, NEW en1, NEW en2, NEW u1, NEW u2, NEW s1, NEW s2, NEW cfg,
         "ENABLE" \in cmd => en1 = en2,
         "URL" \in cmd => u1 = u2,
         "SNI" \in cmd => s1 = s2
  PROVE  Requested(cmd, en1, u1, s1, cfg) = Requested(cmd, en2, u2, s2, cfg)
BY DEF Requested

\* The configuration a request that is not refused leads to.
LEMMA RequestedType ==
  ASSUME TypeOK, ~Refused
  PROVE  /\ ApplyFields \in Configs
         /\ ApplyFields[1] \in BOOLEAN
         /\ ApplyFields[2] \in UrlValues
         /\ ApplyFields[3] \in SniValues
         /\ ApplyFields = <<ApplyFields[1], ApplyFields[2], ApplyFields[3]>>
BY DEF ApplyFields, Refused, Requested, Config, Configs, TypeOK, UrlValues, SniValues

(* Both invariants hold at boot. *)
LEMMA CtrlInit == Init => CtrlInv /\ EndpointInv
<1> SUFFICES ASSUME Init PROVE CtrlInv /\ EndpointInv
  OBVIOUS
<1>1. TypeOK
  BY DEF Init, TypeOK, UrlValues, SniValues, Config, Configs
<1> QED
  BY <1>1 DEF Init, CtrlInv, EndpointInv, WaiterOwnsMailbox, TimedOutNeverApplied, OwnerInv,
              RequestInv, AppliesOwnersRequest, ConnMatchesConfig, WorkMatchesConfig

(* Every step keeps the types. *)
LEMMA TypeStep == TypeOK /\ OwnerInv /\ [Next]_vars => TypeOK'
<1> SUFFICES ASSUME TypeOK, OwnerInv, [Next]_vars PROVE TypeOK'
  OBVIOUS
<1> USE DEF TypeOK
<1>1. ASSUME NEW c \in Clis, SetBam(c) \/ SetBamTimeout(c) \/ SetBamKill(c) PROVE TypeOK'
  <2>1. /\ req[c].command \in SUBSET {"ENABLE", "URL", "SNI"}
        /\ req[c].enable \in BOOLEAN
        /\ req[c].url \in UrlValues \cup {BadUrl}
        /\ req[c].sni \in SniValues
    BY DEF UrlValues, SniValues
  <2>2. CASE SetBamLock(c)
    BY <2>2 DEF SetBamLock, LockFree, fields, tileVars
  <2>3. CASE SetBamWriteEnable(c)
    BY <2>1, <2>3 DEF SetBamWriteEnable, tileVars, history
  <2>4. CASE SetBamWriteUrl(c)
    BY <2>1, <2>4 DEF SetBamWriteUrl, tileVars, history
  <2>5. CASE SetBamWriteSni(c)
    BY <2>1, <2>5 DEF SetBamWriteSni, tileVars, history
  <2>6. CASE SetBamSubmit(c) \/ SetBamReport(c)
    BY <2>6 DEF SetBamSubmit, SetBamReport, fields, tileVars, history
  <2>7. CASE SetBamTimeout(c) \/ SetBamKill(c)
    BY <2>7 DEF SetBamTimeout, SetBamKill, mailbox, fields, tileVars, history
  <2> QED
    BY <1>1, <2>2, <2>3, <2>4, <2>5, <2>6, <2>7 DEF SetBam
<1>2. CASE HandleCtrlClaim
  <2>1. owner \in Clis /\ before' \in Configs
    BY <1>2 DEF HandleCtrlClaim, OwnerInv, Config, Configs
  <2> QED
    BY <1>2, <2>1 DEF HandleCtrlClaim, fields, cliVars
<1>3. CASE ApplyCtrlRequest
  <2> USE <1>3 DEF ApplyCtrlRequest, cliVars, history
  <2>1. CASE Refused
    BY <2>1 DEF UrlValues, SniValues
  <2>2. CASE ~Refused
    BY <2>2, RequestedType DEF UrlValues, SniValues
  <2> QED
    BY <2>1, <2>2
<1>4. CASE HandleCtrlFinish
  BY <1>4 DEF HandleCtrlFinish, cliVars, history, SniValues
<1>5. CASE Connect
  <2>1. conn' \in Urls \X SniValues
    BY <1>5 DEF Connect, UrlValues
  <2> QED
    BY <1>5, <2>1 DEF Connect, mailbox, cliVars, history
<1>6. CASE Disconnect \/ ReceiveWork
  BY <1>6 DEF Disconnect, ReceiveWork, mailbox, cliVars, history
<1>7. CASE UNCHANGED vars
  BY <1>7 DEF vars, mailbox, tileVars, cliVars, history
<1> QED
  BY <1>1, <1>2, <1>3, <1>4, <1>5, <1>6, <1>7 DEF Next, HandleCtrl

\* The steps of a set-bam command keep the ownership facts.
LEMMA OwnerStep ==
  CtrlInv /\ [Next]_vars => WaiterOwnsMailbox' /\ TimedOutNeverApplied' /\ OwnerInv'
<1> SUFFICES ASSUME CtrlInv, [Next]_vars
             PROVE  WaiterOwnsMailbox' /\ TimedOutNeverApplied' /\ OwnerInv'
  OBVIOUS
<1> USE DEF CtrlInv, TypeOK, WaiterOwnsMailbox, TimedOutNeverApplied, OwnerInv
<1>1. ASSUME NEW c \in Clis, SetBamLock(c)
      PROVE  WaiterOwnsMailbox' /\ TimedOutNeverApplied' /\ OwnerInv'
  BY <1>1 DEF SetBamLock, LockFree, fields, tileVars
<1>2. ASSUME NEW c \in Clis, SetBamWriteEnable(c) \/ SetBamWriteUrl(c) \/ SetBamWriteSni(c)
      PROVE  WaiterOwnsMailbox' /\ TimedOutNeverApplied' /\ OwnerInv'
  BY <1>2 DEF SetBamWriteEnable, SetBamWriteUrl, SetBamWriteSni, tileVars, history
<1>3. ASSUME NEW c \in Clis, SetBamSubmit(c)
      PROVE  WaiterOwnsMailbox' /\ TimedOutNeverApplied' /\ OwnerInv'
  BY <1>3 DEF SetBamSubmit, fields, tileVars, history
<1>4. ASSUME NEW c \in Clis, SetBamReport(c)
      PROVE  WaiterOwnsMailbox' /\ TimedOutNeverApplied' /\ OwnerInv'
  BY <1>4 DEF SetBamReport, fields, tileVars, history
<1>5. ASSUME NEW c \in Clis, SetBamTimeout(c)
      PROVE  WaiterOwnsMailbox' /\ TimedOutNeverApplied' /\ OwnerInv'
  BY <1>5 DEF SetBamTimeout, AbandonUnclaimed, fields, tileVars, history
<1>6. ASSUME NEW c \in Clis, SetBamKill(c)
      PROVE  WaiterOwnsMailbox' /\ TimedOutNeverApplied' /\ OwnerInv'
  BY <1>6 DEF SetBamKill, mailbox, tileVars, history
<1>7. CASE HandleCtrlClaim
  BY <1>7 DEF HandleCtrlClaim, fields, cliVars
<1>8. CASE ApplyCtrlRequest
  <2>1. tile = "applying" /\ tile' # "ready" /\ UNCHANGED <<state, pc, owner, applied, timed_out>>
    BY <1>8 DEF ApplyCtrlRequest, cliVars, history
  <2> QED
    BY <2>1
<1>9. CASE HandleCtrlFinish
  BY <1>9 DEF HandleCtrlFinish, cliVars, history
<1>10. CASE Connect \/ Disconnect \/ ReceiveWork \/ UNCHANGED vars
  BY <1>10 DEF Connect, Disconnect, ReceiveWork, vars, mailbox, tileVars, cliVars, history
<1> QED
  BY <1>1, <1>2, <1>3, <1>4, <1>5, <1>6, <1>7, <1>8, <1>9, <1>10 DEF Next, SetBam, HandleCtrl

\* The mailbox carries the owner's request, and the tile applies that.
LEMMA RequestStep == CtrlInv /\ [Next]_vars => RequestInv' /\ AppliesOwnersRequest'
<1> SUFFICES ASSUME CtrlInv, [Next]_vars PROVE RequestInv' /\ AppliesOwnersRequest'
  OBVIOUS
<1> USE DEF CtrlInv, EnableWritten, UrlWritten, SniWritten, Written
<1>1. ASSUME NEW c \in Clis, SetBamLock(c) PROVE RequestInv' /\ AppliesOwnersRequest'
  BY <1>1 DEF SetBamLock, LockFree, fields, tileVars, RequestInv, AppliesOwnersRequest,
              OwnerInv, TypeOK, Config
<1>2. ASSUME NEW c \in Clis, SetBamWriteEnable(c) \/ SetBamWriteUrl(c) \/ SetBamWriteSni(c)
      PROVE  RequestInv' /\ AppliesOwnersRequest'
  <2>1. state = "LOCKED" /\ owner = c /\ tile = "ready"
    BY <1>2 DEF SetBamWriteEnable, SetBamWriteUrl, SetBamWriteSni, WaiterOwnsMailbox, OwnerInv
  <2>2. \A d \in Clis : d # c => pc'[d] = pc[d] /\ pc[d] \notin {"write_url", "write_sni", "submit"}
    BY <1>2, <2>1 DEF SetBamWriteEnable, SetBamWriteUrl, SetBamWriteSni, WaiterOwnsMailbox, TypeOK
  <2> QED
    BY <1>2, <2>1, <2>2 DEF SetBamWriteEnable, SetBamWriteUrl, SetBamWriteSni, tileVars, history,
       RequestInv, AppliesOwnersRequest, TypeOK
<1>3. ASSUME NEW c \in Clis, SetBamSubmit(c) PROVE RequestInv' /\ AppliesOwnersRequest'
  <2>1. state = "LOCKED" /\ owner = c /\ tile = "ready"
    BY <1>3 DEF SetBamSubmit, WaiterOwnsMailbox, OwnerInv
  <2> QED
    BY <1>3, <2>1 DEF SetBamSubmit, fields, tileVars, history, RequestInv, AppliesOwnersRequest,
       TypeOK, Config
<1>4. ASSUME NEW c \in Clis, SetBamReport(c) \/ SetBamTimeout(c) \/ SetBamKill(c)
      PROVE  RequestInv' /\ AppliesOwnersRequest'
  BY <1>4 DEF SetBamReport, SetBamTimeout, SetBamKill, mailbox, fields, tileVars, history,
              RequestInv, AppliesOwnersRequest, TypeOK, Config
<1>5. CASE HandleCtrlClaim
  BY <1>5 DEF HandleCtrlClaim, fields, cliVars, RequestInv, AppliesOwnersRequest, Config
<1>6. CASE ApplyCtrlRequest
  <2> USE <1>6 DEF ApplyCtrlRequest, cliVars, history
  <2>1. Written(owner) /\ before = Config /\ owner \in Clis /\ state = "APPLYING"
    BY DEF RequestInv, OwnerInv
  <2>2. Refused <=> "URL" \in req[owner].command /\ req[owner].url = BadUrl
    BY <2>1 DEF Refused
  <2>3. ~Refused => Config' = ApplyFields
    BY RequestedType DEF Config
  <2>4. ApplyFields = Requested(req[owner].command, req[owner].enable, req[owner].url,
                                req[owner].sni, before)
    BY <2>1, RequestedSame DEF ApplyFields
  <2>5. Refused => Config' = before
    BY <2>1 DEF Config
  <2>6. AppliesOwnersRequest'
    BY <2>2, <2>3, <2>4, <2>5 DEF AppliesOwnersRequest
  <2>7. RequestInv'
    BY <2>1 DEF RequestInv, WaiterOwnsMailbox, TypeOK
  <2> QED
    BY <2>6, <2>7
<1>7. CASE HandleCtrlFinish
  BY <1>7 DEF HandleCtrlFinish, cliVars, history, RequestInv, AppliesOwnersRequest, OwnerInv,
              WaiterOwnsMailbox
<1>8. CASE Connect \/ Disconnect \/ ReceiveWork \/ UNCHANGED vars
  BY <1>8 DEF Connect, Disconnect, ReceiveWork, vars, mailbox, fields, tileVars, cliVars, history,
              RequestInv, AppliesOwnersRequest, Config
<1> QED
  BY <1>1, <1>2, <1>3, <1>4, <1>5, <1>6, <1>7, <1>8 DEF Next, SetBam, HandleCtrl

\* Nothing but the configured endpoint stays connected or has live work.
LEMMA EndpointStep ==
  EndpointInv /\ [Next]_vars => ConnMatchesConfig' /\ WorkMatchesConfig'
<1> SUFFICES ASSUME EndpointInv, [Next]_vars PROVE ConnMatchesConfig' /\ WorkMatchesConfig'
  OBVIOUS
<1> USE DEF EndpointInv, ConnMatchesConfig, WorkMatchesConfig
<1>1. ASSUME NEW c \in Clis, SetBam(c) \/ SetBamTimeout(c) \/ SetBamKill(c)
      PROVE  ConnMatchesConfig' /\ WorkMatchesConfig'
  BY <1>1 DEF SetBam, SetBamLock, SetBamWriteEnable, SetBamWriteUrl, SetBamWriteSni,
              SetBamSubmit, SetBamReport, SetBamTimeout, SetBamKill, tileVars
<1>2. CASE ApplyCtrlRequest
  <2> USE <1>2 DEF ApplyCtrlRequest
  <2>1. CASE Refused
    BY <2>1
  <2>2. CASE ~Refused
    <3>1. ~NeedReset(ApplyFields) /\ conn # None =>
            enabled' = enabled /\ server_url' = server_url /\ server_sni' = server_sni
      BY <2>2, RequestedType DEF NeedReset, ApplyFields, Requested, Config, TypeOK
    <3>2. ~WorkStale(ApplyFields) /\ work # None =>
            enabled' = enabled /\ server_url' = server_url /\ server_sni' = server_sni
      BY <2>2, RequestedType DEF WorkStale, TypeOK
    <3> QED
      BY <2>2, <3>1, <3>2
  <2> QED
    BY <2>1, <2>2
<1>3. CASE HandleCtrlClaim \/ HandleCtrlFinish \/ Connect \/ Disconnect \/ ReceiveWork
  BY <1>3 DEF HandleCtrlClaim, HandleCtrlFinish, Connect, Disconnect, ReceiveWork
<1>4. CASE UNCHANGED vars
  BY <1>4 DEF vars, tileVars
<1> QED
  BY <1>1, <1>2, <1>3, <1>4 DEF Next, HandleCtrl

\* The inductive invariant of the mailbox and of the endpoint.
THEOREM CtrlInvariant == Spec => [](CtrlInv /\ EndpointInv)
<1>1. CtrlInv /\ EndpointInv /\ [Next]_vars => CtrlInv' /\ EndpointInv'
  BY TypeStep, OwnerStep, RequestStep, EndpointStep DEF CtrlInv, EndpointInv
<1> QED
  BY CtrlInit, <1>1, PTL DEF Spec

\* The mailbox, the commands and the tile's configuration keep their types: a
\* refused URL never becomes the configuration.
THEOREM CtrlTyped == Spec => []TypeOK
<1>1. CtrlInv => TypeOK
  BY DEF CtrlInv
<1> QED
  BY <1>1, CtrlInvariant, PTL

\* The mailbox protocol is correct for any number of set-bam commands, some of
\* them killed, some of them timing out: it has one owner at a time.
THEOREM MailboxOwnership == Spec => []WaiterOwnsMailbox
<1>1. CtrlInv => WaiterOwnsMailbox
  BY DEF CtrlInv
<1> QED
  BY <1>1, CtrlInvariant, PTL

\* A set-bam that reported a claim timeout is never applied.
THEOREM TimeoutThm == Spec => []TimedOutNeverApplied
<1>1. CtrlInv => TimedOutNeverApplied
  BY DEF CtrlInv
<1> QED
  BY <1>1, CtrlInvariant, PTL

\* The tile applies the owner's command line, all of it and nothing else.
THEOREM AppliesThm == Spec => []AppliesOwnersRequest
<1>1. CtrlInv => AppliesOwnersRequest
  BY DEF CtrlInv
<1> QED
  BY <1>1, CtrlInvariant, PTL

\* The connection belongs to the configured endpoint.
THEOREM EndpointThm == Spec => []ConnMatchesConfig
<1>1. EndpointInv => ConnMatchesConfig
  BY DEF EndpointInv
<1> QED
  BY <1>1, CtrlInvariant, PTL

\* The live scheduler work belongs to the configured endpoint.
THEOREM WorkThm == Spec => []WorkMatchesConfig
<1>1. EndpointInv => WorkMatchesConfig
  BY DEF EndpointInv
<1> QED
  BY <1>1, CtrlInvariant, PTL

(***************************************************************************)
(* What the mailbox shows and get-bam prints.                              *)
(***************************************************************************)

\* At start-up the mailbox shows the configuration.
LEMMA ShowsInit == Init => ShowsConfig
BY DEF Init, ShowsConfig, Settled, Surface

\* Only a command that holds the mailbox writes other values into it, and the
\* tile puts the configuration back before it settles the request.
LEMMA ShowsStep == CtrlInv /\ ShowsConfig /\ [Next]_vars => ShowsConfig'
<1> SUFFICES ASSUME CtrlInv, ShowsConfig, [Next]_vars PROVE ShowsConfig'
  OBVIOUS
<1> USE DEF ShowsConfig, Settled, Surface
<1>1. ASSUME NEW c \in Clis, SetBamLock(c) \/ SetBamKill(c) PROVE ShowsConfig'
  BY <1>1 DEF SetBamLock, LockFree, SetBamKill, mailbox, fields, tileVars
<1>2. ASSUME NEW c \in Clis, SetBamWriteEnable(c) \/ SetBamWriteUrl(c) \/ SetBamWriteSni(c)
      PROVE  ShowsConfig'
  <2>1. state = "LOCKED" /\ tile = "ready"
    BY <1>2 DEF SetBamWriteEnable, SetBamWriteUrl, SetBamWriteSni, CtrlInv, WaiterOwnsMailbox,
                OwnerInv
  <2> QED
    BY <1>2, <2>1 DEF SetBamWriteEnable, SetBamWriteUrl, SetBamWriteSni, tileVars
<1>3. ASSUME NEW c \in Clis, SetBamSubmit(c) \/ SetBamReport(c) \/ SetBamTimeout(c)
      PROVE  ShowsConfig'
  BY <1>3 DEF SetBamSubmit, SetBamReport, SetBamTimeout, AbandonUnclaimed, fields, tileVars
<1>4. CASE HandleCtrlClaim
  BY <1>4 DEF HandleCtrlClaim, fields
<1>5. CASE ApplyCtrlRequest
  <2>1. state' = "APPLYING" /\ enable' = enabled'
    BY <1>5 DEF ApplyCtrlRequest, CtrlInv, OwnerInv
  <2> QED
    BY <2>1
<1>6. CASE HandleCtrlFinish
  BY <1>6 DEF HandleCtrlFinish
<1>7. CASE Connect \/ Disconnect \/ ReceiveWork \/ UNCHANGED vars
  BY <1>7 DEF Connect, Disconnect, ReceiveWork, vars, mailbox, fields, tileVars, cliVars
<1> QED
  BY <1>1, <1>2, <1>3, <1>4, <1>5, <1>6, <1>7 DEF Next, SetBam, HandleCtrl

\* In a settled mailbox a step that does not lock it leaves it settled and
\* leaves the configuration alone.
LEMMA SettledStays ==
  ASSUME CtrlInv, [Next]_vars, Settled, state' # "LOCKED"
  PROVE  Settled' /\ UNCHANGED Surface
<1> USE DEF Settled, Surface
<1>1. ASSUME NEW c \in Clis, SetBam(c) \/ SetBamTimeout(c) \/ SetBamKill(c)
      PROVE  Settled' /\ UNCHANGED Surface
  <2>1. UNCHANGED tileVars
    BY <1>1 DEF SetBam, SetBamLock, SetBamWriteEnable, SetBamWriteUrl, SetBamWriteSni,
                SetBamSubmit, SetBamReport, SetBamTimeout, SetBamKill
  <2>2. Settled'
    BY <1>1 DEF SetBam, SetBamLock, SetBamWriteEnable, SetBamWriteUrl, SetBamWriteSni,
                SetBamSubmit, SetBamReport, SetBamTimeout, SetBamKill, mailbox, CtrlInv,
                WaiterOwnsMailbox
  <2> QED
    BY <2>1, <2>2 DEF tileVars
<1>2. tile = "ready" /\ ~HandleCtrl
  BY DEF CtrlInv, OwnerInv, TypeOK, HandleCtrl, HandleCtrlClaim, ApplyCtrlRequest,
         HandleCtrlFinish
<1>3. CASE Connect \/ Disconnect \/ ReceiveWork \/ UNCHANGED vars
  BY <1>3 DEF Connect, Disconnect, ReceiveWork, vars, mailbox, tileVars
<1> QED
  BY <1>1, <1>2, <1>3 DEF Next

\* No step takes a reported timeout back.
LEMMA TimedOutGrows == [Next]_vars => timed_out \subseteq timed_out'
BY DEF Next, SetBam, HandleCtrl, SetBamLock, SetBamWriteEnable, SetBamWriteUrl, SetBamWriteSni,
       SetBamSubmit, SetBamReport, SetBamTimeout, SetBamKill, HandleCtrlClaim, ApplyCtrlRequest,
       HandleCtrlFinish, Connect, Disconnect, ReceiveWork, vars, cliVars

(* Nothing has been read at boot. *)
LEMMA ReadInit == GetInit => ReadInv
<1> SUFFICES ASSUME GetInit PROVE ReadInv
  OBVIOUS
<1>1. TypeOK
  BY CtrlInit DEF GetInit, CtrlInv
<1> QED
  BY <1>1 DEF GetInit, ReadInv, SnapshotUnlessUpdated, TypeOK

\* Beside get-bam the commands and the tile still take only the steps of Next.
LEMMA GetStepIsStep == [GetNext]_<<vars, getVars>> => [Next]_vars
BY DEF GetNext, Others, GetBamPoll, GetBamReadEnable, GetBamReadUrl, GetBamReadSni

\* Each read of get-bam finds the configuration, and the steps between two reads
\* that do not lock the mailbox keep it.
LEMMA ReadStep ==
  CtrlInv /\ ShowsConfig /\ ReadInv /\ [GetNext]_<<vars, getVars>> => ReadInv'
<1> SUFFICES ASSUME CtrlInv, ShowsConfig, ReadInv, [GetNext]_<<vars, getVars>> PROVE ReadInv'
  OBVIOUS
<1> DEFINE printedType == BOOLEAN \X (UrlValues \cup {BadUrl}) \X SniValues
<1>0. /\ enable \in BOOLEAN /\ url \in UrlValues \cup {BadUrl} /\ sni \in SniValues
      /\ printed = <<printed[1], printed[2], printed[3]>>
      /\ printed[1] \in BOOLEAN /\ printed[2] \in UrlValues \cup {BadUrl}
      /\ printed[3] \in SniValues
  BY DEF CtrlInv, TypeOK, ReadInv
<1>1. CASE Others
  <2>1. [Next]_vars /\ Next
    BY <1>1 DEF Others
  <2>2. timed_out \subseteq timed_out'
    BY <2>1, TimedOutGrows
  <2>3. CASE get_pc = "printed"
    BY <1>1, <2>2, <2>3 DEF Others, ReadInv, SnapshotUnlessUpdated
  <2>4. CASE get_pc # "printed"
    <3>1. ASSUME get_pc \in {"enable", "url", "sni"}, ~updating'
          PROVE  Settled' /\ UNCHANGED Surface /\ Surface' \in surfaced'
      BY <1>1, <2>1, <2>4, <3>1, SettledStays DEF Others, ReadInv
    <3>2. updating => updating'
      BY <1>1, <2>4 DEF Others
    <3> QED
      BY <1>1, <2>2, <2>4, <3>1, <3>2 DEF Others, ReadInv, SnapshotUnlessUpdated, Surface
  <2> QED
    BY <2>3, <2>4
<1>2. CASE GetBamPoll
  <2>1. UNCHANGED <<state, timed_out, enabled, server_url, server_sni, printed>>
    BY <1>2 DEF GetBamPoll, vars, mailbox, tileVars, cliVars
  <2> QED
    BY <1>2, <2>1 DEF GetBamPoll, ReadInv, SnapshotUnlessUpdated, Settled, Surface
<1>3. CASE GetBamReadEnable \/ GetBamReadUrl \/ GetBamReadSni
  <2>1. UNCHANGED <<state, timed_out, enabled, server_url, server_sni, surfaced, updating>>
    BY <1>3 DEF GetBamReadEnable, GetBamReadUrl, GetBamReadSni, vars, mailbox, tileVars, cliVars
  <2>2. UNCHANGED <<Settled, Surface>>
    BY <2>1 DEF Settled, Surface
  <2>3. printed' \in printedType
    BY <1>0, <1>3 DEF GetBamReadEnable, GetBamReadUrl, GetBamReadSni
  <2>4. CASE ~updating /\ timed_out = {}
    <3>1. <<enable, url, sni>> = Surface /\ Surface \in surfaced
      BY <1>3, <2>4 DEF ReadInv, ShowsConfig, GetBamReadEnable, GetBamReadUrl, GetBamReadSni
    <3>2. CASE GetBamReadEnable
      BY <2>1, <2>2, <2>3, <3>1, <3>2 DEF GetBamReadEnable, ReadInv, SnapshotUnlessUpdated, Surface
    <3>3. CASE GetBamReadUrl
      BY <2>1, <2>2, <2>3, <2>4, <3>1, <3>3
         DEF GetBamReadUrl, ReadInv, SnapshotUnlessUpdated, Surface
    <3>4. CASE GetBamReadSni
      <4>1. printed' = Surface
        BY <2>4, <3>1, <3>4 DEF GetBamReadSni, ReadInv, Surface
      <4> QED
        BY <2>1, <2>3, <3>1, <3>4, <4>1 DEF GetBamReadSni, ReadInv, SnapshotUnlessUpdated
    <3> QED
      BY <1>3, <3>2, <3>3, <3>4
  <2>5. CASE updating \/ timed_out # {}
    BY <1>3, <2>1, <2>2, <2>3, <2>5
       DEF GetBamReadEnable, GetBamReadUrl, GetBamReadSni, ReadInv, SnapshotUnlessUpdated
  <2> QED
    BY <2>4, <2>5
<1>4. CASE UNCHANGED <<vars, getVars>>
  BY <1>4 DEF vars, mailbox, tileVars, cliVars, getVars, ReadInv, SnapshotUnlessUpdated, Settled,
              Surface
<1> QED
  BY <1>1, <1>2, <1>3, <1>4 DEF GetNext

\* Outside a request, and unless a request was abandoned in it, the mailbox shows
\* the tile's configuration: what fd_bam_ctrl.h says of IDLE fails only after a
\* claim timeout.
THEOREM MailboxShowsConfig == Spec => [](timed_out = {} => IdleReflectsConfig)
<1>1. ShowsConfig => (timed_out = {} => IdleReflectsConfig)
  BY DEF ShowsConfig, Settled, Surface, IdleReflectsConfig
<1>2. Init => ShowsConfig
  BY ShowsInit
<1> QED
  BY <1>1, <1>2, ShowsStep, CtrlInvariant, PTL DEF Spec

\* get-bam prints a configuration the tile had while it read, all three fields
\* of the same one, unless a set-bam locked the mailbox meanwhile or an abandoned
\* request was lying in it.
THEOREM SnapshotThm == GetSpec => []SnapshotUnlessUpdated
<1> DEFINE Inv == CtrlInv /\ EndpointInv /\ ShowsConfig /\ ReadInv
<1>1. GetInit => Inv
  BY CtrlInit, ShowsInit, ReadInit DEF GetInit
<1>2. Inv /\ [GetNext]_<<vars, getVars>> => Inv'
  BY GetStepIsStep, TypeStep, OwnerStep, RequestStep, EndpointStep, ShowsStep, ReadStep
     DEF CtrlInv, EndpointInv
<1>3. Inv => SnapshotUnlessUpdated
  BY DEF ReadInv
<1> QED
  BY <1>1, <1>2, <1>3, PTL DEF GetSpec
=============================================================================

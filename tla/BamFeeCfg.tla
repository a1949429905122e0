----------------------------- MODULE BamFeeCfg -----------------------------
(***************************************************************************)
(* The shared block-builder configuration fd_bam_fee_cfg_t.                *)
(*                                                                         *)
(* The BAM tile writes the (builder_pubkey, builder_commission) tuple of   *)
(* every ConfigResponse into shared memory under a version word (0 = no    *)
(* snapshot yet, bit 31 = write in progress).  The pack tile copies it     *)
(* without a lock when it assembles or cranks a bundle.  Both copies are   *)
(* word by word and, between two fences, in any order.                     *)
(***************************************************************************)
EXTENDS Naturals, FiniteSets

CONSTANTS
  PubkeyWords,    \* the memory words of fd_bam_fee_cfg_t.builder_pubkey
  CommissionWord, \* the memory word of fd_bam_fee_cfg_t.builder_commission
  Pubkeys,        \* the builder pubkeys a ConfigResponse can carry
  Commissions,    \* the commissions 0..100 a ConfigResponse can carry
  Zero,           \* contents of a word nobody has written
  BadPubkey,      \* a builder_pubkey that is not valid base58
  VERSION_MAX,    \* the last version before bit 31: 2^31 - 1 in the code
  ATTEMPT_MAX     \* attempts of one refresh: 4 in the code

ASSUME FeeCfgConstants ==
  /\ VERSION_MAX \in Nat /\ VERSION_MAX > 1
  /\ ATTEMPT_MAX \in Nat /\ ATTEMPT_MAX > 0
  /\ CommissionWord \notin PubkeyWords
  /\ PubkeyWords # {}
  /\ BadPubkey \notin Pubkeys
  /\ Zero \notin Pubkeys

VARIABLES
  version,                  \* shared: low 31 bits of fee_cfg->version
  busy,                     \* shared: bit 31 of fee_cfg->version
  word,                     \* shared: the words of fee_cfg
  fee_cfg_version,          \* BAM tile: last version published
  builder_pubkey,           \* BAM tile: decoded pubkey
  builder_commission,       \* BAM tile: commission
  builder_info_valid,       \* BAM tile: builder_info_valid_until # 0
  to_write,                 \* BAM tile: words not yet copied; {} also when idle
  writing,                  \* BAM tile: inside the seqlock write
  reader,                   \* pack: "idle", "load", "copy"
  attempt,                  \* pack: loop counter of the refresh
  v0,                       \* pack: version loaded by this attempt
  copy,                     \* pack: local copies of the words
  to_read,                  \* pack: words not yet copied
  bam_fee_meta,             \* pack: adopted words
  bam_fee_cfg_version,      \* pack: version of the adopted words
  published,                \* history: words of the last completed write
  lag,                      \* history: writes completed since pack's version
  overlap                   \* history: writes completed since v0 was loaded

writerVars == <<fee_cfg_version, builder_pubkey, builder_commission,
                builder_info_valid, to_write, writing>>
readerVars == <<reader, attempt, v0, copy, to_read, bam_fee_meta,
                bam_fee_cfg_version>>
fee_cfg == <<version, busy, word>>
vars == <<fee_cfg, writerVars, readerVars, published, lag, overlap>>

Words  == PubkeyWords \cup {CommissionWord}
Values == Pubkeys \cup Commissions \cup {Zero}

\* Every variable keeps its shape: in particular a version never leaves its
\* space and fewer writes than that space complete within one read.
TypeOK ==
  /\ version \in 0..VERSION_MAX
  /\ busy \in BOOLEAN
  /\ word \in [Words -> Values]
  /\ fee_cfg_version \in 0..VERSION_MAX
  /\ builder_pubkey \in Pubkeys \cup {Zero}
  /\ builder_commission \in Commissions \cup {Zero}
  /\ builder_info_valid \in BOOLEAN
  /\ to_write \in SUBSET Words
  /\ writing \in BOOLEAN
  /\ reader \in {"idle", "load", "copy"}
  /\ attempt \in 0..ATTEMPT_MAX
  /\ v0 \in 0..VERSION_MAX
  /\ copy \in [Words -> Values]
  /\ to_read \in SUBSET Words
  /\ bam_fee_meta \in [Words -> Values]
  /\ bam_fee_cfg_version \in 0..VERSION_MAX
  /\ published \in [Words -> Values]
  /\ lag \in 0..(VERSION_MAX - 1)
  /\ overlap \in 0..(VERSION_MAX - 1)

\* The tuple the BAM tile holds, word by word.
Tuple == [w \in Words |-> IF w = CommissionWord THEN builder_commission
                                               ELSE builder_pubkey]

Init ==
  /\ version = 0
  /\ busy = FALSE
  /\ word = [w \in Words |-> Zero]
  /\ fee_cfg_version = 0
  /\ builder_pubkey = Zero
  /\ builder_commission = Zero
  /\ builder_info_valid = FALSE
  /\ to_write = {}
  /\ writing = FALSE
  /\ reader = "idle"
  /\ attempt = 0
  /\ v0 = 0
  /\ copy = [w \in Words |-> Zero]
  /\ to_read = {}
  /\ bam_fee_meta = [w \in Words |-> Zero]
  /\ bam_fee_cfg_version = 0
  /\ published = [w \in Words |-> Zero]
  /\ lag = 0
  /\ overlap = 0

(***************************************************************************)
(* The BAM tile: fd_bam_handle_config and the expiry of builder info.      *)
(***************************************************************************)

\* fd_uint_clear_bit( v+1, 31 ), skipping 0.
NextVersion(v) == IF v = VERSION_MAX THEN 1 ELSE v + 1

\* Mutant: publishes although no pubkey was ever decoded.
PublishAlways(valid) == TRUE

\* A tuple is published once a pubkey is known; a version already published
\* stands for a pubkey decoded earlier.
PublishTuple(valid) == valid \/ fee_cfg_version # 0

\* Mutant: the version is rewritten without bit 31.
OpenUnmarked == version' = fee_cfg_version /\ UNCHANGED <<busy, word>>

\* The version word with bit 31 set opens the write.
OpenWrite == version' = fee_cfg_version /\ busy' = TRUE /\ UNCHANGED word

\* A ConfigResponse with a block_engine_config.  A commission above 100 leaves
\* everything alone, so only the valid ones appear here; an undecodable pubkey
\* keeps the previous one.
HandleConfig(commission, pubkey) ==
  /\ ~writing
  /\ builder_commission' = commission
  /\ builder_pubkey' = IF pubkey = BadPubkey THEN builder_pubkey ELSE pubkey
  /\ builder_info_valid' = (builder_info_valid \/ pubkey # BadPubkey)
  /\ IF PublishTuple(builder_info_valid')
       THEN OpenWrite /\ to_write' = Words /\ writing' = TRUE
       ELSE UNCHANGED <<fee_cfg, to_write, writing>>
  /\ UNCHANGED <<fee_cfg_version, readerVars, published, lag, overlap>>

WriteWord(w) ==
  /\ writing
  /\ w \in to_write
  /\ word' = [word EXCEPT ![w] = Tuple[w]]
  /\ to_write' = to_write \ {w}
  /\ UNCHANGED <<version, busy, fee_cfg_version, builder_pubkey,
                 builder_commission, builder_info_valid, writing, readerVars, published, lag, overlap>>

\* The second fence and the store of the new version.  The bound: fewer than
\* VERSION_MAX (2^31 - 1) writes complete between two refreshes of pack, so the
\* version does not come round to a value pack still holds.
PublishVersion ==
  /\ writing
  /\ to_write = {}
  /\ lag < VERSION_MAX - 1
  /\ fee_cfg_version' = NextVersion(fee_cfg_version)
  /\ version' = fee_cfg_version'
  /\ busy' = FALSE
  /\ writing' = FALSE
  /\ published' = Tuple
  /\ lag' = lag + 1
  /\ overlap' = IF reader = "copy" THEN overlap + 1 ELSE overlap
  /\ UNCHANGED <<word, builder_pubkey, builder_commission, builder_info_valid,
                 to_write, readerVars>>

\* builder_info_valid_until runs out (fd_bam_client_reset, step_reconnect).
ExpireBuilderInfo ==
  /\ ~writing
  /\ builder_info_valid
  /\ builder_info_valid' = FALSE
  /\ UNCHANGED <<fee_cfg, fee_cfg_version, builder_pubkey, builder_commission,
                 to_write, writing, readerVars, published, lag, overlap>>

(***************************************************************************)
(* The pack tile: pack_tile_refresh_bam_fee_meta.                          *)
(***************************************************************************)

StartRefresh ==
  /\ reader = "idle"
  /\ reader' = "load"
  /\ attempt' = 0
  /\ UNCHANGED <<fee_cfg, writerVars, v0, copy, to_read, bam_fee_meta,
                 bam_fee_cfg_version, published, lag, overlap>>

\* "continue": the next attempt, or the end of the loop.
Continue ==
  /\ attempt' = attempt + 1
  /\ reader' = IF attempt + 1 = ATTEMPT_MAX THEN "idle" ELSE "load"

LoadVersion ==
  /\ reader = "load"
  /\ \/ /\ version = 0 \/ busy
        /\ Continue
        /\ UNCHANGED <<v0, to_read, overlap>>
     \/ /\ version # 0 /\ ~busy
        /\ version = bam_fee_cfg_version
        /\ reader' = "idle"
        /\ UNCHANGED <<attempt, v0, to_read, overlap>>
     \/ /\ version # 0 /\ ~busy
        /\ version # bam_fee_cfg_version
        /\ v0' = version
        /\ reader' = "copy"
        /\ to_read' = Words
        /\ overlap' = 0
        /\ UNCHANGED attempt
  /\ UNCHANGED <<fee_cfg, writerVars, copy, bam_fee_meta, bam_fee_cfg_version,
                 published, lag>>

ReadWord(w) ==
  /\ reader = "copy"
  /\ w \in to_read
  /\ copy' = [copy EXCEPT ![w] = word[w]]
  /\ to_read' = to_read \ {w}
  /\ UNCHANGED <<fee_cfg, writerVars, reader, attempt, v0, bam_fee_meta,
                 bam_fee_cfg_version, published, lag, overlap>>

\* Mutant: compares the version number without bit 31.
UnchangedNumber == version = v0

\* The load of version after the second fence equals v0: bit 31 is part of
\* the word, so a write in progress does not compare equal.
Unchanged == version = v0 /\ ~busy

Recheck ==
  /\ reader = "copy"
  /\ to_read = {}
  /\ \/ /\ ~Unchanged
        /\ Continue
        /\ UNCHANGED <<bam_fee_meta, bam_fee_cfg_version, lag>>
     \/ /\ Unchanged
        /\ bam_fee_meta' = copy
        /\ bam_fee_cfg_version' = v0
        /\ lag' = overlap
        /\ reader' = "idle"
        /\ UNCHANGED attempt
  /\ UNCHANGED <<fee_cfg, writerVars, v0, copy, to_read, published, overlap>>

Next ==
  \/ \E c \in Commissions, p \in Pubkeys \cup {BadPubkey} : HandleConfig(c, p)
  \/ \E w \in Words : WriteWord(w)
  \/ PublishVersion
  \/ ExpireBuilderInfo
  \/ StartRefresh
  \/ LoadVersion
  \/ \E w \in Words : ReadWord(w)
  \/ Recheck

Spec == Init /\ [][Next]_vars

(***************************************************************************)
(* Properties.                                                             *)
(***************************************************************************)

\* When pack adopts a tuple (the last lines of the refresh), it is exactly the
\* tuple of the last completed write: never words of two writes, never a tuple
\* that was already replaced when the version was compared.
AdoptsPublishedTuple ==
  [][bam_fee_cfg_version' # bam_fee_cfg_version => bam_fee_meta' = published]_vars

\* The early return of the refresh is right: while the shared version equals
\* the one pack adopted and no write is open, pack already holds the tuple of
\* the last completed write.
FreshWhenVersionMatches ==
  version = bam_fee_cfg_version /\ ~busy => bam_fee_meta = published

\* Whatever sequence of partial updates and expiries the BAM tile goes through,
\* a tuple pack has adopted names one decoded builder pubkey in all its words.
BuilderKnown ==
  bam_fee_cfg_version # 0 =>
    \E p \in Pubkeys : \A w \in PubkeyWords : bam_fee_meta[w] = p
=============================================================================

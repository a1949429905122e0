-------------------------- MODULE BamFeeCfgProofs --------------------------
(***************************************************************************)
(* Proofs about BamFeeCfg, for every set of words, builders and versions.  *)
(*                                                                         *)
(* The three properties follow from one inductive invariant.  Its core is  *)
(* that the shared version is always the version pack holds, advanced by   *)
(* the number of writes since: a version that compares equal therefore     *)
(* means that no write completed in between.                               *)
(***************************************************************************)
EXTENDS BamFeeCfg, TLAPS

\* Version v after k further writes.
Advance(v, k) == IF v + k <= VERSION_MAX THEN v + k ELSE v + k - VERSION_MAX

\* A tuple whose pubkey words all hold one decoded pubkey.
Known(tuple) == \E p \in Pubkeys : \A w \in PubkeyWords : tuple[w] = p

\* What the writer has stored, relative to the tile's own state.
WriterInv ==
  /\ version = fee_cfg_version
  /\ busy = writing
  /\ ~writing => word = published
  /\ writing => \A w \in Words \ to_write : word[w] = Tuple[w]

\* Versions count the completed writes, modulo the version space.
VersionInv ==
  /\ fee_cfg_version = Advance(bam_fee_cfg_version, lag)
  /\ reader = "copy" => /\ v0 # 0
                        /\ fee_cfg_version = Advance(v0, overlap)
                        /\ overlap <= lag

\* What pack has copied and adopted is untouched while no write intervenes.
ReaderInv ==
  /\ reader = "copy" /\ overlap = 0 /\ ~writing =>
       \A w \in Words \ to_read : copy[w] = published[w]
  /\ lag = 0 => bam_fee_meta = published
  /\ reader \in {"load", "copy"} => attempt < ATTEMPT_MAX

\* Nothing is published before a pubkey is decoded.
KnownInv ==
  /\ builder_info_valid => builder_pubkey \in Pubkeys
  /\ writing => builder_pubkey \in Pubkeys
  /\ fee_cfg_version # 0 => builder_pubkey \in Pubkeys /\ Known(published)
  /\ bam_fee_cfg_version # 0 => Known(bam_fee_meta)

FeeCfgInv == TypeOK /\ WriterInv /\ VersionInv /\ ReaderInv /\ KnownInv

USE FeeCfgConstants

\* Facts about the version arithmetic of fd_bam_handle_config.
LEMMA AdvanceNext ==
  ASSUME NEW v \in 0..VERSION_MAX, NEW k \in 0..(VERSION_MAX - 1), k < VERSION_MAX - 1
  PROVE  NextVersion(Advance(v, k)) = Advance(v, k + 1)
BY DEF NextVersion, Advance

\* A version that compares equal after fewer than VERSION_MAX writes was not
\* written at all, and only version 0 before the first write is 0.
LEMMA AdvanceSame ==
  ASSUME NEW v \in 0..VERSION_MAX, NEW k \in 0..(VERSION_MAX - 1)
  PROVE  /\ Advance(v, k) = v => k = 0
         /\ Advance(v, 0) = v
         /\ v # 0 => Advance(v, k) # 0
BY DEF Advance

(* The invariant holds at boot. *)
LEMMA FeeCfgInit == Init => FeeCfgInv
<1> SUFFICES ASSUME Init PROVE FeeCfgInv
  OBVIOUS
<1>0. [w \in Words |-> Zero] \in [Words -> Values]
  BY DEF Values
<1>1. 0 \in 0..VERSION_MAX /\ 0 \in 0..(VERSION_MAX - 1) /\ 0 \in 0..ATTEMPT_MAX
  OBVIOUS
<1>2. TypeOK
  BY <1>0, <1>1, Zenon DEF Init, TypeOK
<1>3. WriterInv /\ ReaderInv /\ KnownInv
  BY DEF Init, WriterInv, ReaderInv, KnownInv
<1>4. VersionInv
  BY DEF Init, VersionInv, Advance
<1> QED
  BY <1>2, <1>3, <1>4 DEF FeeCfgInv

(* Every step keeps the invariant. *)
LEMMA FeeCfgStep == FeeCfgInv /\ [Next]_vars => FeeCfgInv'
<1> SUFFICES ASSUME FeeCfgInv, [Next]_vars PROVE FeeCfgInv'
  OBVIOUS
<1> USE DEF FeeCfgInv
<1>1. ASSUME NEW c \in Commissions, NEW p \in Pubkeys \cup {BadPubkey}, HandleConfig(c, p)
      PROVE  FeeCfgInv'
  <2> USE <1>1 DEF HandleConfig, readerVars, fee_cfg
  <2>1. builder_pubkey' \in Pubkeys \cup {Zero}
    BY DEF TypeOK
  <2>2. TypeOK'
    BY <2>1 DEF TypeOK, OpenWrite
  <2>3. WriterInv'
    BY DEF WriterInv, OpenWrite, PublishTuple, TypeOK, Tuple
  <2>4. VersionInv' /\ ReaderInv'
    BY DEF VersionInv, ReaderInv
  <2>5. KnownInv'
    BY DEF KnownInv, PublishTuple, Known
  <2> QED
    BY <2>2, <2>3, <2>4, <2>5
<1>2. ASSUME NEW w \in Words, WriteWord(w) PROVE FeeCfgInv'
  <2> USE <1>2 DEF WriteWord, readerVars
  <2>1. Tuple \in [Words -> Values] /\ Tuple' = Tuple
    BY DEF TypeOK, Tuple, Values
  <2>2. TypeOK'
    BY <2>1 DEF TypeOK
  <2>3. WriterInv'
    BY <2>1 DEF WriterInv, TypeOK
  <2>4. VersionInv' /\ ReaderInv' /\ KnownInv'
    BY DEF VersionInv, ReaderInv, KnownInv, Known
  <2> QED
    BY <2>2, <2>3, <2>4
<1>3. CASE PublishVersion
  <2> USE <1>3 DEF PublishVersion, readerVars
  <2>1. Tuple \in [Words -> Values]
    BY DEF TypeOK, Tuple, Values
  <2>2. word = Tuple
    BY <2>1 DEF WriterInv, TypeOK
  <2>3. fee_cfg_version' = Advance(bam_fee_cfg_version, lag + 1)
    BY AdvanceNext DEF VersionInv, TypeOK
  <2>4. reader = "copy" => overlap < VERSION_MAX - 1 /\ fee_cfg_version' = Advance(v0, overlap + 1)
    BY AdvanceNext DEF VersionInv, TypeOK
  <2>5. fee_cfg_version' \in 1..VERSION_MAX
    BY DEF TypeOK, NextVersion
  <2>6. TypeOK'
    <3>1. lag' \in 0..(VERSION_MAX - 1) /\ overlap' \in 0..(VERSION_MAX - 1)
      BY <2>4 DEF TypeOK
    <3>2. version' \in 0..VERSION_MAX /\ fee_cfg_version' \in 0..VERSION_MAX
      BY <2>5
    <3> QED
      BY <2>1, <3>1, <3>2 DEF TypeOK
  <2>7. WriterInv'
    BY <2>2 DEF WriterInv, TypeOK
  <2>8. VersionInv'
    BY <2>3, <2>4 DEF VersionInv, TypeOK
  <2>9. ReaderInv'
    BY DEF ReaderInv, TypeOK
  <2>10. Known(published')
    BY DEF KnownInv, Known, Tuple, Words
  <2>11. KnownInv'
    BY <2>10 DEF KnownInv, Known
  <2> QED
    BY <2>6, <2>7, <2>8, <2>9, <2>11
<1>4. CASE ExpireBuilderInfo
  BY <1>4 DEF ExpireBuilderInfo, readerVars, fee_cfg, TypeOK, WriterInv, VersionInv, ReaderInv,
              KnownInv, Known, Tuple
<1>5. CASE StartRefresh
  BY <1>5 DEF StartRefresh, writerVars, fee_cfg, TypeOK, WriterInv, VersionInv, ReaderInv,
              KnownInv, Known, Tuple
<1>6. CASE LoadVersion
  <2> USE <1>6 DEF LoadVersion, writerVars, fee_cfg
  <2>1. TypeOK'
    BY DEF TypeOK, Continue, ReaderInv
  <2>2. WriterInv' /\ KnownInv'
    BY DEF WriterInv, KnownInv, Known, Tuple
  <2>3. VersionInv'
    BY AdvanceSame DEF VersionInv, WriterInv, TypeOK, Continue
  <2>4. ReaderInv'
    BY DEF ReaderInv, Continue, TypeOK
  <2> QED
    BY <2>1, <2>2, <2>3, <2>4
<1>7. ASSUME NEW w \in Words, ReadWord(w) PROVE FeeCfgInv'
  <2> USE <1>7 DEF ReadWord, writerVars, fee_cfg
  <2>1. TypeOK'
    BY DEF TypeOK
  <2>2. WriterInv' /\ KnownInv' /\ VersionInv'
    BY DEF WriterInv, KnownInv, Known, Tuple, VersionInv
  <2>3. ReaderInv'
    BY DEF ReaderInv, WriterInv, TypeOK
  <2> QED
    BY <2>1, <2>2, <2>3
<1>8. CASE Recheck
  <2> USE <1>8 DEF Recheck, writerVars, fee_cfg
  <2>1. CASE ~Unchanged
    BY <2>1 DEF Continue, TypeOK, WriterInv, VersionInv, ReaderInv, KnownInv, Known, Tuple
  <2>2. CASE Unchanged
    <3>1. overlap = 0 /\ ~writing /\ v0 # 0 /\ fee_cfg_version = v0
      BY <2>2, AdvanceSame DEF Unchanged, VersionInv, WriterInv, TypeOK
    <3>2. copy = published
      BY <3>1 DEF ReaderInv, TypeOK
    <3>3. TypeOK' /\ WriterInv' /\ ReaderInv'
      BY <2>2, <3>2 DEF TypeOK, WriterInv, ReaderInv, Tuple
    <3>4. VersionInv'
      BY <2>2, <3>1, AdvanceSame DEF VersionInv, TypeOK
    <3>5. KnownInv'
      BY <2>2, <3>1, <3>2 DEF KnownInv, Known
    <3> QED
      BY <3>3, <3>4, <3>5
  <2> QED
    BY <2>1, <2>2
<1>9. CASE UNCHANGED vars
  BY <1>9 DEF vars, fee_cfg, writerVars, readerVars, TypeOK, WriterInv, VersionInv, ReaderInv,
              KnownInv, Known, Tuple
<1> QED
  BY <1>1, <1>2, <1>3, <1>4, <1>5, <1>6, <1>7, <1>8, <1>9 DEF Next

\* The invariant of the fee configuration holds in every reachable state.
THEOREM FeeCfgInvariant == Spec => []FeeCfgInv
BY FeeCfgInit, FeeCfgStep, PTL DEF Spec

\* The version and the words of the fee configuration keep their types.
THEOREM FeeCfgTyped == Spec => []TypeOK
<1>1. FeeCfgInv => TypeOK
  BY DEF FeeCfgInv
<1> QED
  BY <1>1, FeeCfgInvariant, PTL

\* pack_tile_refresh_bam_fee_meta returns early only when it is up to date.
THEOREM FreshThm == Spec => []FreshWhenVersionMatches
<1>1. FeeCfgInv => FreshWhenVersionMatches
  BY AdvanceSame DEF FeeCfgInv, TypeOK, WriterInv, VersionInv, ReaderInv, FreshWhenVersionMatches
<1> QED
  BY <1>1, FeeCfgInvariant, PTL

\* Every adopted tuple has one decoded builder pubkey.
THEOREM BuilderKnownThm == Spec => []BuilderKnown
<1>1. FeeCfgInv => BuilderKnown
  BY DEF FeeCfgInv, KnownInv, Known, BuilderKnown
<1> QED
  BY <1>1, FeeCfgInvariant, PTL

\* Pack adopts exactly the tuple of the last completed write.
THEOREM AdoptsPublishedThm == Spec => AdoptsPublishedTuple
<1>1. FeeCfgInv /\ [Next]_vars =>
        [bam_fee_cfg_version' # bam_fee_cfg_version => bam_fee_meta' = published]_vars
  <2> SUFFICES ASSUME FeeCfgInv, Next, bam_fee_cfg_version' # bam_fee_cfg_version
               PROVE  bam_fee_meta' = published
    OBVIOUS
  <2>1. Recheck /\ Unchanged
    BY DEF Next, HandleConfig, WriteWord, PublishVersion, ExpireBuilderInfo, StartRefresh,
           LoadVersion, ReadWord, Recheck, readerVars
  <2>2. overlap = 0 /\ ~writing
    BY <2>1, AdvanceSame DEF Recheck, Unchanged, FeeCfgInv, VersionInv, WriterInv, TypeOK
  <2> QED
    BY <2>1, <2>2 DEF Recheck, FeeCfgInv, ReaderInv, TypeOK
<1> QED
  BY <1>1, FeeCfgInvariant, PTL DEF Spec, AdoptsPublishedTuple
=============================================================================

------------------------- MODULE BamOwnershipProofs -------------------------
(***************************************************************************)
(* The hand-over invariants, for every set of batches and every GEN_MAX.   *)
(*                                                                         *)
(* AckedMeansRetired is not inductive: it says nothing about pack's own    *)
(* generation while a retirement is outstanding.  What is inductive is     *)
(* that pack only ever holds work stamped with its own generation, that    *)
(* this is the BAM tile's generation whenever nothing is outstanding, and  *)
(* that stamps tell retired work from fresh work (which needs that what is *)
(* still pending in the BAM tile is fresh).                                *)
(***************************************************************************)
EXTENDS BamOwnership, TLAPS

WordInv == gen = ownership_gen

PendingInv == \A b \in Batches : place[b] = "pending" => ~stale[b]

PackInv ==
  /\ ~req => pack_gen = gen
  /\ \A b \in Batches : place[b] \in {"assembly", "pack"} => stamp[b] = pack_gen

FragInv ==
  \A b \in taken :
    /\ pack_pc \in {"ack", "synced"}
    /\ place[b] \in {"link", "assembly", "tail"}
    /\ ~stale[b] => pack_gen = ownership_gen

OwnershipInv ==
  /\ TypeOK /\ WordInv /\ ClaimHeld
  /\ PendingInv /\ StampTellsStale /\ PackInv /\ FragInv

\* The next generation is a generation.
LEMMA NextGenType ==
  ASSUME NEW g \in Gens
  PROVE  NextGen(g) \in Gens /\ NextGen(g) # g
BY OwnershipConstants DEF Gens, NextGen

\* The boot state of the tiles satisfies the inductive invariant.
LEMMA OwnershipInit == Init => OwnershipInv
<1> SUFFICES ASSUME Init PROVE OwnershipInv
  OBVIOUS
<1>1. TypeOK
  <2>1. 0 \in Gens
    BY OwnershipConstants DEF Gens
  <2> QED
    BY <2>1, Zenon DEF Init, TypeOK, Places
<1>2. WordInv /\ ClaimHeld /\ PendingInv /\ StampTellsStale /\ PackInv /\ FragInv
  BY DEF Init, WordInv, ClaimHeld, PendingInv, StampTellsStale, InFlight, PackInv, FragInv
<1> QED
  BY <1>1, <1>2 DEF OwnershipInv

\* A new ownership generation keeps the invariant of the words and batches.
LEMMA BeginStep ==
  ASSUME OwnershipInv, BeginOwnershipGeneration, UNCHANGED <<stamp, packVars>>
  PROVE  /\ WordInv' /\ PendingInv' /\ StampTellsStale' /\ PackInv' /\ FragInv'
         /\ ownership_gen' \in Gens /\ gen' \in Gens /\ req' \in BOOLEAN
         /\ retired' \in BOOLEAN
         /\ place' \in [Batches -> Places] /\ stale' \in [Batches -> BOOLEAN]
<1>1. ownership_gen' \in Gens /\ gen' \in Gens /\ WordInv'
  BY NextGenType DEF OwnershipInv, TypeOK, BeginOwnershipGeneration, WordInv
<1>2. place' \in [Batches -> Places] /\ stale' \in [Batches -> BOOLEAN]
  BY DEF OwnershipInv, TypeOK, BeginOwnershipGeneration, DropPending, Places
<1>3. req' \in BOOLEAN /\ retired' \in BOOLEAN
  BY DEF BeginOwnershipGeneration
<1>4. PendingInv' /\ PackInv' /\ FragInv'
  BY DEF OwnershipInv, TypeOK, BeginOwnershipGeneration, DropPending, PendingInv,
         PackInv, FragInv, Places, packVars
<1>5. StampTellsStale'
  BY DEF OwnershipInv, TypeOK, BeginOwnershipGeneration, DropPending, GenFree,
         StampTellsStale, InFlight, Places
<1> QED
  BY <1>1, <1>2, <1>3, <1>4, <1>5

\* A new generation by request of the operator or of an identity change.
LEMMA RetireStep ==
  ASSUME OwnershipInv, BeginOwnershipGeneration,
         UNCHANGED <<bam_status, stamp, bundleVars, packVars>>,
         conn' \in {"down", "halted", "live", "healthy"}
  PROVE  OwnershipInv'
<1>1. WordInv' /\ PendingInv' /\ StampTellsStale' /\ PackInv' /\ FragInv'
  BY BeginStep
<1>2. TypeOK'
  <2>1. /\ ownership_gen' \in Gens /\ gen' \in Gens /\ req' \in BOOLEAN
        /\ retired' \in BOOLEAN
        /\ place' \in [Batches -> Places] /\ stale' \in [Batches -> BOOLEAN]
    BY BeginStep
  <2> QED
    BY <2>1, Zenon DEF OwnershipInv, TypeOK, bundleVars, packVars
<1>3. ClaimHeld'
  BY DEF OwnershipInv, ClaimHeld, bundleVars
<1> QED
  BY <1>1, <1>2, <1>3 DEF OwnershipInv

\* Every outcome of fd_bam_publish_active_state keeps it too: a take-over starts
\* from 0 and a release from OVERRIDE_ACTIVE, so a claim is never disturbed.
LEMMA PublishStep ==
  ASSUME NEW active \in BOOLEAN, NEW contact_ok \in BOOLEAN,
         OwnershipInv, PublishActiveState(active, contact_ok),
         UNCHANGED <<stamp, bundleVars, packVars>>, conn' \in {"down", "halted", "live", "healthy"}
  PROVE  OwnershipInv'
<1>1. CASE /\ BeginOwnershipGeneration
           /\ UNCHANGED bam_status
  BY <1>1, RetireStep
<1>2. CASE /\ bam_status' \in {"none", "active", bam_status}
           /\ bam_status' # bam_status => bam_status # "publishing"
           /\ retired' \in BOOLEAN
           /\ UNCHANGED <<gen, req, ownership_gen, place, stale>>
  <2>1. TypeOK'
    <3>1. bam_status' \in {"none", "active", "publishing"}
      BY <1>2 DEF OwnershipInv, TypeOK
    <3> QED
      BY <1>2, <3>1, Zenon DEF OwnershipInv, TypeOK, bundleVars, packVars
  <2>2. WordInv' /\ PendingInv' /\ StampTellsStale' /\ PackInv' /\ FragInv'
    BY <1>2 DEF OwnershipInv, WordInv, PendingInv, StampTellsStale, InFlight,
                PackInv, FragInv, packVars
  <2>3. ClaimHeld'
    BY <1>2 DEF OwnershipInv, TypeOK, ClaimHeld, bundleVars
  <2> QED
    BY <2>1, <2>2, <2>3 DEF OwnershipInv
<1> QED
  BY <1>1, <1>2 DEF PublishActiveState, OverrideFree, OwnershipInv, TypeOK, word

\* A step that moves batches only: the type invariant and what is said of the
\* words carry over, the batch invariants are the caller's.
LEMMA MoveStep ==
  ASSUME OwnershipInv, UNCHANGED <<word, bamVars, bundleVars, snapshot>>,
         pack_pc' \in {"idle", "ack", "synced", "dispatch"}, pack_gen' \in Gens,
         place' \in [Batches -> Places], stamp' \in [Batches -> Gens],
         taken' \subseteq Batches,
         stale' \in [Batches -> BOOLEAN],
         PendingInv', StampTellsStale', PackInv', FragInv'
  PROVE  OwnershipInv'
<1>1. TypeOK'
  BY Zenon DEF OwnershipInv, TypeOK, word, bamVars, bundleVars
<1>2. WordInv' /\ ClaimHeld'
  BY DEF OwnershipInv, WordInv, ClaimHeld, word, bamVars, bundleVars
<1> QED
  BY <1>1, <1>2 DEF OwnershipInv

\* Each batch operation of the BAM tile and of pack keeps the invariant.
LEMMA BatchStep ==
  ASSUME OwnershipInv, NEW b \in Batches,
         \/ ReceiveBatch(b) \/ DrainBatch(b) \/ PackFinish(b)
         \/ PackFirstFrag(b) \/ PackLastFrag(b) \/ PackDispatch(b)
  PROVE  OwnershipInv'
<1> USE DEF OwnershipInv
<1>1. CASE ReceiveBatch(b)
  <2>1. /\ place' \in [Batches -> Places] /\ stale' \in [Batches -> BOOLEAN]
        /\ PendingInv' /\ StampTellsStale' /\ PackInv' /\ FragInv'
    BY <1>1 DEF ReceiveBatch, TypeOK, Places, PendingInv, StampTellsStale, InFlight,
                PackInv, FragInv, word, bamVars, packVars
  <2> QED
    BY <1>1, <2>1, MoveStep DEF ReceiveBatch, TypeOK, packVars
<1>2. CASE DrainBatch(b)
  <2>1. /\ place' \in [Batches -> Places] /\ stamp' \in [Batches -> Gens]
        /\ PendingInv' /\ StampTellsStale' /\ PackInv' /\ FragInv'
    BY <1>2 DEF DrainBatch, TypeOK, Places, PendingInv, StampTellsStale, InFlight,
                PackInv, FragInv, word, bamVars, packVars
  <2> QED
    BY <1>2, <2>1, MoveStep DEF DrainBatch, TypeOK, packVars
<1>3. CASE PackFinish(b)
  <2>1. /\ place' \in [Batches -> Places]
        /\ PendingInv' /\ StampTellsStale' /\ PackInv' /\ FragInv'
    BY <1>3 DEF PackFinish, TypeOK, Places, PendingInv, StampTellsStale, InFlight,
                PackInv, FragInv, word, bamVars, packVars
  <2> QED
    BY <1>3, <2>1, MoveStep DEF PackFinish, TypeOK, packVars
<1>4. CASE PackFirstFrag(b)
  <2>1. /\ place' \in [Batches -> Places]
        /\ PendingInv' /\ StampTellsStale' /\ PackInv' /\ FragInv'
    BY <1>4 DEF PackFirstFrag, SameGeneration, TypeOK, Places, PendingInv,
                StampTellsStale, InFlight, PackInv, FragInv, word, bamVars
  <2> QED
    BY <1>4, <2>1, MoveStep DEF PackFirstFrag, TypeOK
<1>5. CASE PackLastFrag(b)
  <2>1. /\ place' \in [Batches -> Places]
        /\ PendingInv' /\ StampTellsStale' /\ PackInv' /\ FragInv'
    BY <1>5 DEF PackLastFrag, SameGeneration, TypeOK, Places, PendingInv,
                StampTellsStale, InFlight, PackInv, FragInv, word, bamVars
  <2> QED
    BY <1>5, <2>1, MoveStep DEF PackLastFrag, TypeOK
<1>6. CASE PackDispatch(b)
  <2>1. /\ place' \in [Batches -> Places]
        /\ PendingInv' /\ StampTellsStale' /\ PackInv' /\ FragInv'
    BY <1>6 DEF PackDispatch, TypeOK, Places, PendingInv, StampTellsStale, InFlight,
                PackInv, FragInv, word, bamVars
  <2> QED
    BY <1>6, <2>1, MoveStep DEF PackDispatch, TypeOK
<1> QED
  BY <1>1, <1>2, <1>3, <1>4, <1>5, <1>6

\* Loading the generation word, retiring and acknowledging keep the invariant.
LEMMA SyncStep ==
  ASSUME OwnershipInv,
         PackSync \/ PackAck \/ PackSnapshot \/ PackReturn \/ \E b \in Batches : PackTake(b)
  PROVE  OwnershipInv'
<1> USE DEF OwnershipInv
<1>1. CASE PackSync
  <2>1. /\ place' \in [Batches -> Places]
        /\ PendingInv' /\ StampTellsStale' /\ PackInv' /\ FragInv'
    BY <1>1 DEF PackSync, SyncGeneration, RetireOlder, TypeOK, Places, PendingInv,
                StampTellsStale, InFlight, PackInv, FragInv, WordInv, word, bamVars
  <2>2. pack_pc' \in {"idle", "ack", "synced", "dispatch"} /\ pack_gen' \in Gens
    BY <1>1 DEF PackSync, SyncGeneration, TypeOK
  <2> QED
    BY <1>1, <2>1, <2>2, MoveStep DEF PackSync, TypeOK
<1>2. CASE PackAck
  <2>1. TypeOK'
    <3>1. req' \in BOOLEAN
      BY <1>2, Zenon DEF PackAck
    <3> QED
      BY <1>2, <3>1, ZenonT(60) DEF PackAck, TypeOK, bamVars, batchVars, bundleVars
  <2>2. WordInv' /\ ClaimHeld' /\ PendingInv' /\ StampTellsStale' /\ PackInv' /\ FragInv'
    BY <1>2 DEF PackAck, WordInv, ClaimHeld, PendingInv, StampTellsStale, InFlight,
                PackInv, FragInv, bamVars, batchVars, bundleVars
  <2> QED
    BY <2>1, <2>2
<1>3. CASE PackSnapshot \/ PackReturn
  <2>1. TypeOK'
    <3>1. snapshot' \in BOOLEAN
      BY <1>3, Zenon DEF PackSnapshot, PackReturn, TypeOK
    <3> QED
      BY <1>3, <3>1, ZenonT(60) DEF PackSnapshot, PackReturn, TypeOK, word, bamVars,
                               batchVars, bundleVars
  <2>2. WordInv' /\ ClaimHeld' /\ PendingInv' /\ StampTellsStale' /\ PackInv' /\ FragInv'
    BY <1>3 DEF PackSnapshot, PackReturn, WordInv, ClaimHeld, PendingInv,
                StampTellsStale, InFlight, PackInv, FragInv, word, bamVars, batchVars,
                bundleVars
  <2> QED
    BY <2>1, <2>2
<1>4. ASSUME NEW b \in Batches, PackTake(b) PROVE OwnershipInv'
  <2>1. /\ place' \in [Batches -> Places]
        /\ PendingInv' /\ StampTellsStale' /\ PackInv' /\ FragInv'
    BY <1>4 DEF PackTake, SyncGeneration, RetireOlder, TypeOK, Places, PendingInv,
                StampTellsStale, InFlight, PackInv, FragInv, WordInv, word, bamVars
  <2>2. pack_pc' \in {"idle", "ack", "synced", "dispatch"} /\ pack_gen' \in Gens
    BY <1>4 DEF PackTake, SyncGeneration, TypeOK
  <2> QED
    BY <1>4, <2>1, <2>2, MoveStep DEF PackTake, TypeOK
<1> QED
  BY <1>1, <1>2, <1>3, <1>4

\* The bundle tile's operations keep the invariant: the word and the claim change
\* together.
LEMMA BundleStep ==
  ASSUME OwnershipInv, BundleBeforeCredit \/ BundleClaim \/ BundleRelease
  PROVE  OwnershipInv'
<1> USE DEF OwnershipInv
<1>1. /\ bundle_pending' \in BOOLEAN /\ bundle_override' \in BOOLEAN
  BY Zenon DEF BundleBeforeCredit, BundleClaim, BundleRelease, SyncBamOverride, Kept,
               TypeOK
<1>2. /\ bam_status' \in {"none", "active", "publishing"}
      /\ bundle_pc' \in {"idle", "claimed"}
      /\ ClaimHeld'
  BY DEF BundleBeforeCredit, BundleClaim, BundleRelease, TypeOK, ClaimHeld, word
<1>3. UNCHANGED <<gen, req, bamVars, batchVars, packVars>>
  BY DEF BundleBeforeCredit, BundleClaim, BundleRelease, word
<1>4. TypeOK'
  BY <1>1, <1>2, <1>3, Zenon DEF TypeOK, bamVars, batchVars, packVars
<1>5. WordInv' /\ PendingInv' /\ StampTellsStale' /\ PackInv' /\ FragInv'
  BY <1>3 DEF WordInv, PendingInv, StampTellsStale, InFlight, PackInv, FragInv, bamVars,
              batchVars, packVars
<1> QED
  BY <1>2, <1>4, <1>5

\* Every step of the composed tiles keeps the inductive invariant.
LEMMA OwnershipStep == OwnershipInv /\ [Next]_vars => OwnershipInv'
<1> SUFFICES ASSUME OwnershipInv, [Next]_vars PROVE OwnershipInv'
  OBVIOUS
<1>1. ASSUME NEW contact_ok \in BOOLEAN, Refresh(contact_ok)
      PROVE  OwnershipInv'
  <2>1. (conn = "healthy") \in BOOLEAN
    OBVIOUS
  <2> QED
    BY <1>1, <2>1, PublishStep DEF Refresh, OwnershipInv, TypeOK
<1>2. ASSUME NEW contact_ok \in BOOLEAN, ClientReset(contact_ok)
      PROVE  OwnershipInv'
  BY <1>2, PublishStep DEF ClientReset
<1>3. CASE CtrlReset \/ KeyswitchHalt
  BY <1>3, RetireStep DEF CtrlReset, KeyswitchHalt
<1>4. CASE KeyswitchUnhalt \/ ClientProgress
  <2>1. TypeOK'
    <3>1. conn' \in {"down", "halted", "live", "healthy"}
      BY <1>4 DEF KeyswitchUnhalt, ClientProgress
    <3> QED
      BY <1>4, <3>1, Zenon DEF KeyswitchUnhalt, ClientProgress, OwnershipInv, TypeOK,
                               word, batchVars, bundleVars, packVars
  <2>2. WordInv' /\ ClaimHeld' /\ PendingInv' /\ StampTellsStale' /\ PackInv' /\ FragInv'
    BY <1>4 DEF KeyswitchUnhalt, ClientProgress, OwnershipInv, WordInv, ClaimHeld,
                PendingInv, StampTellsStale, InFlight, PackInv, FragInv, word, batchVars,
                bundleVars, packVars
  <2> QED
    BY <2>1, <2>2 DEF OwnershipInv
<1>5. CASE BundleBeforeCredit \/ BundleClaim \/ BundleRelease
  BY <1>5, BundleStep
<1>6. CASE PackStep
  BY <1>6, SyncStep, BatchStep DEF PackStep, PackFrag
<1>7. ASSUME NEW b \in Batches, ReceiveBatch(b) \/ DrainBatch(b) \/ PackFinish(b)
      PROVE  OwnershipInv'
  BY <1>7, BatchStep
<1>8. CASE UNCHANGED vars
  <2>1. TypeOK'
    BY <1>8, ZenonT(60) DEF OwnershipInv, TypeOK, vars, word, bamVars, batchVars,
                       bundleVars, packVars
  <2>2. WordInv' /\ ClaimHeld' /\ PendingInv' /\ StampTellsStale' /\ PackInv' /\ FragInv'
    BY <1>8 DEF OwnershipInv, WordInv, ClaimHeld, PendingInv, StampTellsStale,
                InFlight, PackInv, FragInv, vars, word, bamVars, batchVars, bundleVars,
                packVars
  <2> QED
    BY <2>1, <2>2 DEF OwnershipInv
<1> QED
  BY <1>1, <1>2, <1>3, <1>4, <1>5, <1>6, <1>7, <1>8 DEF Next

\* The inductive invariant holds in every reachable state.
THEOREM OwnershipInvariant == Spec => []OwnershipInv
BY OwnershipInit, OwnershipStep, PTL DEF Spec

\* The bundle tile never loses its publication claim to BAM: the FD_LOG_ERR
\* after its drain is unreachable for every number of batches.
THEOREM ClaimThm == Spec => []ClaimHeld
<1>1. OwnershipInv => ClaimHeld
  BY DEF OwnershipInv
<1> QED
  BY <1>1, OwnershipInvariant, PTL

\* The generation stamped into a fragment at drain time says whether the batch
\* has been retired since it was received.
THEOREM StampThm == Spec => []StampTellsStale
<1>1. OwnershipInv => StampTellsStale
  BY DEF OwnershipInv
<1> QED
  BY <1>1, OwnershipInvariant, PTL

\* When pack has acknowledged a generation it holds no retired work.
THEOREM RetirementThm == Spec => []AckedMeansRetired
<1>1. OwnershipInv => AckedMeansRetired
  BY DEF OwnershipInv, WordInv, PackInv, StampTellsStale, InFlight, AckedMeansRetired
<1> QED
  BY <1>1, OwnershipInvariant, PTL

\* A fragment that pack drops for its generation belongs to retired work.
THEOREM FreshThm == Spec => []FreshIsLetIn
<1>1. OwnershipInv => FreshIsLetIn
  BY DEF OwnershipInv, TypeOK, FragInv, StampTellsStale, InFlight, SameGeneration,
         FreshIsLetIn
<1> QED
  BY <1>1, OwnershipInvariant, PTL

\* BAM releases the pipeline only when pack has retired its older work.
THEOREM ReleaseThm == Spec => ReleaseAfterRetirement
<1> DEFINE A == bam_status = "active" /\ bam_status' = "none"
                  => /\ pack_gen = ownership_gen
                     /\ \A b \in Batches : place[b] \in {"assembly", "pack"}
                                             => ~stale[b]
<1>1. OwnershipInv /\ [Next]_vars => [A]_vars
  <2> SUFFICES ASSUME OwnershipInv, [Next]_vars,
                      bam_status = "active", bam_status' = "none"
               PROVE  A
    BY DEF vars, word
  <2>1. ~req
    <3>1. ASSUME NEW active, NEW contact_ok, PublishActiveState(active, contact_ok)
          PROVE  ~req
      BY <3>1 DEF PublishActiveState, GenerationReady, word
    <3> QED
      BY <3>1 DEF Next, Refresh, ClientReset, CtrlReset, KeyswitchHalt,
            KeyswitchUnhalt, ClientProgress, BundleBeforeCredit, BundleClaim,
            BundleRelease, PackStep, PackFrag, PackSync, PackTake, PackAck, PackSnapshot,
            PackReturn, PackFirstFrag, PackLastFrag, PackDispatch, ReceiveBatch,
            DrainBatch, PackFinish, vars, word
  <2>2. AckedMeansRetired /\ pack_gen = ownership_gen
    BY <2>1 DEF OwnershipInv, WordInv, PackInv, StampTellsStale, InFlight,
                AckedMeansRetired
  <2> QED
    BY <2>1, <2>2 DEF AckedMeansRetired
<1> QED
  BY <1>1, OwnershipInvariant, PTL DEF Spec, ReleaseAfterRetirement
=============================================================================

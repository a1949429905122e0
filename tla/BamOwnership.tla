---------------------------- MODULE BamOwnership ----------------------------
(***************************************************************************)
(* Who may feed the leader pipeline: the hand-over of ownership between    *)
(* the BAM tile and the bundle (Block Engine) tile, and the retirement of  *)
(* the work BAM leaves behind in the pack tile.                            *)
(*                                                                         *)
(* Three tiles share two words.  bam_status says who owns the pipeline     *)
(* (0, OVERRIDE_ACTIVE, BUNDLE_PUBLISHING); bam_gen carries the ownership  *)
(* generation and a low bit that asks pack to retire older work.  Every    *)
(* access to a shared word by the bundle and pack tiles is a step of its   *)
(* own.  fd_bam_publish_active_state is one step: the other tiles can only *)
(* move bam_status between 0 and BUNDLE_PUBLISHING and can only clear the  *)
(* low bit, and each case below is decided by the last access to them.     *)
(*                                                                         *)
(* A batch is a scheduler batch of one or two fragments; its place says    *)
(* how far it has come.  The gRPC client is reduced to the health it       *)
(* reports, and the contact update inside publish_active_state to its      *)
(* outcome (module BamContact has the details).                            *)
(***************************************************************************)
EXTENDS Naturals, FiniteSets

CONSTANTS
  Batches,   \* scheduler batches that can be under way at once
  GEN_MAX    \* last ownership generation before the counter wraps: 65535

ASSUME OwnershipConstants == GEN_MAX \in Nat /\ GEN_MAX > 1

Gens == 0..GEN_MAX   \* 0 only until the first retirement

VARIABLES
  bam_status,         \* shared: "none", "active", "publishing"
  gen, req,           \* shared: bam_gen fseq, generation and low bit
  conn,               \* BAM: "down", "halted", "live", "healthy"
  ownership_gen,      \* BAM: ownership_gen
  retired,            \* BAM: ownership_gen_retired
  place,              \* where each batch is
  stamp,              \* ownership_gen written into the batch's fragments
  stale,              \* history: a generation began since the batch was received
  bundle_pc,          \* bundle: "idle" or "claimed"
  bundle_pending,     \* bundle: pending_txns is not empty
  bundle_override,    \* bundle: bam_override_active
  pack_pc,            \* pack: "idle", "ack", "synced", "dispatch"
  pack_gen,           \* pack: bam_ownership_gen, that of the gen_state it loaded last
  taken,              \* pack: the batch whose fragment is in hand, if any
  snapshot            \* pack: bam_override_snapshot

word       == <<bam_status, gen, req>>
bamVars    == <<conn, ownership_gen, retired>>
batchVars  == <<place, stamp, stale>>
bundleVars == <<bundle_pc, bundle_pending, bundle_override>>
packVars   == <<pack_pc, pack_gen, taken, snapshot>>
vars       == <<word, bamVars, batchVars, bundleVars, packVars>>

Places == {"none",       \* not under way
           "pending",    \* in the BAM tile's pending_txns
           "link",       \* both fragments on their way to pack
           "assembly",   \* first fragment in current_bundle, the other on its way
           "tail",       \* first fragment retired, the other on its way
           "pack",       \* in pack's pending work
           "scheduled"}  \* dispatched to an execution tile

\* Every variable keeps its shape.
TypeOK ==
  /\ bam_status \in {"none", "active", "publishing"}
  /\ gen \in Gens /\ req \in BOOLEAN
  /\ conn \in {"down", "halted", "live", "healthy"}
  /\ ownership_gen \in Gens
  /\ retired \in BOOLEAN
  /\ place \in [Batches -> Places]
  /\ stamp \in [Batches -> Gens]
  /\ stale \in [Batches -> BOOLEAN]
  /\ bundle_pc \in {"idle", "claimed"}
  /\ bundle_pending \in BOOLEAN
  /\ bundle_override \in BOOLEAN
  /\ pack_pc \in {"idle", "ack", "synced", "dispatch"}
  /\ pack_gen \in Gens
  /\ taken \subseteq Batches
  /\ snapshot \in BOOLEAN

\* privileged_init and unprivileged_init of the tiles.  The first owner's
\* generation is 0.
Init ==
  /\ bam_status = "none"
  /\ gen = 0 /\ req = FALSE
  /\ conn = "down"
  /\ ownership_gen = 0
  /\ retired = TRUE
  /\ place = [b \in Batches |-> "none"]
  /\ stamp = [b \in Batches |-> 0]
  /\ stale = [b \in Batches |-> TRUE]
  /\ bundle_pc = "idle"
  /\ bundle_pending = FALSE
  /\ bundle_override = FALSE
  /\ pack_pc = "idle"
  /\ pack_gen = 0
  /\ taken = {}
  /\ snapshot = FALSE

InFlight(b) == place[b] \in {"link", "assembly", "tail", "pack"}

(***************************************************************************)
(* The BAM tile.                                                           *)
(***************************************************************************)

\* ownership_gen++, which skips 0 when it wraps.
NextGen(g) == IF g = GEN_MAX THEN 1 ELSE g + 1

\* Bound: fewer than GEN_MAX (65535) generations begin while one batch is under
\* way, so the counter does not come round to a generation that is in use.
GenFree == \A b \in Batches : InFlight(b) => NextGen(ownership_gen) # stamp[b]

\* Mutant: pending transactions outlive the generation they came in.
KeepPending == UNCHANGED place

DropPending ==
  place' = [b \in Batches |-> IF place[b] = "pending" THEN "none" ELSE place[b]]

\* fd_bam_tile_begin_ownership_generation.
BeginOwnershipGeneration ==
  /\ GenFree
  /\ ownership_gen' = NextGen(ownership_gen)
  /\ retired' = TRUE
  /\ DropPending
  /\ stale' = [b \in Batches |-> TRUE]
  /\ gen' = ownership_gen'
  /\ req' = TRUE

\* Mutant: the retirement is taken as acknowledged without looking.
GenerationAssumedReady == TRUE

GenerationReady == gen = ownership_gen /\ ~req

\* Mutant: a Block Engine drain in progress is overridden.
OverrideAlways == bam_status # "active"

\* The compare-and-swap 0 -> OVERRIDE_ACTIVE.
OverrideFree == bam_status = "none"

\* fd_bam_publish_active_state.  contact_ok is the outcome of the contact
\* update: restored (when giving up ownership) or applied and seen by gossip
\* (when taking it).
PublishActiveState(active, contact_ok) ==
  LET prev     == bam_status = "active"
      retire   == prev /\ ~active /\ ~retired
      proceed  == ~retire /\ (retired => GenerationReady) /\ contact_ok
      release  == proceed /\ ~active /\ prev
      takeover == proceed /\ active /\ (prev \/ OverrideFree)
  IN  \/ /\ retire
         /\ BeginOwnershipGeneration
         /\ UNCHANGED bam_status
      \/ /\ release
         /\ bam_status' = "none"
         /\ UNCHANGED <<gen, req, ownership_gen, retired, place, stale>>
      \/ /\ takeover
         /\ bam_status' = "active"
         /\ retired' = FALSE
         /\ UNCHANGED <<gen, req, ownership_gen, place, stale>>
      \/ /\ ~retire /\ ~release /\ ~takeover
         /\ UNCHANGED <<word, ownership_gen, retired, place, stale>>

\* Mutant: only good health is published.
RefreshHealthy(contact_ok) ==
  /\ conn = "healthy"
  /\ PublishActiveState(TRUE, contact_ok)
  /\ UNCHANGED <<conn, stamp, bundleVars, packVars>>

\* Housekeeping, or a ConfigResponse, publishes the client's present health.
Refresh(contact_ok) ==
  /\ PublishActiveState(conn = "healthy", contact_ok)
  /\ UNCHANGED <<conn, stamp, bundleVars, packVars>>

\* fd_bam_client_reset: publishes inactivity, then closes the connection.
ClientReset(contact_ok) ==
  /\ conn \in {"live", "healthy"}
  /\ PublishActiveState(FALSE, contact_ok)
  /\ conn' = "down"
  /\ UNCHANGED <<stamp, bundleVars, packVars>>

\* A control request that changes the scheduler retires its work, and resets
\* the client; the reset publishes again but waits for the new generation.
CtrlReset ==
  /\ BeginOwnershipGeneration
  /\ conn' = IF conn = "halted" THEN "halted" ELSE "down"
  /\ UNCHANGED <<bam_status, stamp, bundleVars, packVars>>

\* The identity changes: signing halts, the scheduler's work is retired.
KeyswitchHalt ==
  /\ conn # "halted"
  /\ BeginOwnershipGeneration
  /\ conn' = "halted"
  /\ UNCHANGED <<bam_status, stamp, bundleVars, packVars>>

KeyswitchUnhalt ==
  /\ conn = "halted"
  /\ conn' = "down"
  /\ UNCHANGED <<word, ownership_gen, retired, batchVars, bundleVars, packVars>>

\* before_credit: the client is stepped when nothing is pending, or when what
\* is pending cannot drain and the client is not healthy.
MayStep ==
  /\ conn # "halted"
  /\ \/ \A b \in Batches : place[b] # "pending"
     \/ bam_status # "active" /\ conn # "healthy"

\* The scheduler stream opens; config and heartbeat make it healthy; silence
\* makes it unhealthy.
ClientProgress ==
  /\ \/ conn = "down" /\ MayStep /\ conn' = "live"
     \/ conn = "live" /\ MayStep /\ conn' = "healthy"
     \/ conn = "healthy" /\ conn' = "live"
  /\ UNCHANGED <<word, ownership_gen, retired, batchVars, bundleVars, packVars>>

\* A batch is committed to pending_txns.
ReceiveBatch(b) ==
  /\ conn \in {"live", "healthy"} /\ MayStep
  /\ place[b] = "none"
  /\ place' = [place EXCEPT ![b] = "pending"]
  /\ stale' = [stale EXCEPT ![b] = FALSE]
  /\ UNCHANGED <<word, bamVars, stamp, bundleVars, packVars>>

\* after_credit: a whole batch leaves pending_txns while the override bit is
\* set, stamped with the generation of the moment.
DrainBatch(b) ==
  /\ bam_status = "active"
  /\ place[b] = "pending"
  /\ place' = [place EXCEPT ![b] = "link"]
  /\ stamp' = [stamp EXCEPT ![b] = ownership_gen]
  /\ UNCHANGED <<word, bamVars, stale, bundleVars, packVars>>

(***************************************************************************)
(* The bundle tile.                                                        *)
(***************************************************************************)

\* fd_bundle_tile_sync_bam_override: the edge to override drops what is pending.
Kept == bundle_pending /\ (bam_status = "active" => bundle_override)

SyncBamOverride ==
  /\ bundle_override' = (bam_status = "active")
  /\ bundle_pending' = Kept

\* before_credit: follow the override, then step the Block Engine client when
\* nothing is pending and BAM is not active.
BundleBeforeCredit ==
  /\ bundle_pc = "idle"
  /\ \/ SyncBamOverride
     \/ /\ bam_status # "active" /\ ~Kept
        /\ bundle_override' = FALSE
        /\ bundle_pending' = TRUE
  /\ UNCHANGED <<word, bamVars, batchVars, bundle_pc, packVars>>

\* after_credit: the drain is claimed with a compare-and-swap 0 ->
\* BUNDLE_PUBLISHING; a failed claim only follows the override.
BundleClaim ==
  /\ bundle_pc = "idle" /\ bundle_pending
  /\ \/ /\ bam_status = "none"
        /\ bam_status' = "publishing"
        /\ bundle_pc' = "claimed"
        /\ UNCHANGED <<bundle_pending, bundle_override>>
     \/ /\ bam_status # "none"
        /\ SyncBamOverride
        /\ UNCHANGED <<bam_status, bundle_pc>>
  /\ UNCHANGED <<gen, req, bamVars, batchVars, packVars>>

\* One bundle is published and the claim given up; anything but
\* BUNDLE_PUBLISHING in the word is FD_LOG_ERR, which ends the tile.
BundleRelease ==
  /\ bundle_pc = "claimed"
  /\ bam_status = "publishing"
  /\ bam_status' = "none"
  /\ bundle_pc' = "idle"
  /\ bundle_pending' \in BOOLEAN
  /\ UNCHANGED <<gen, req, bamVars, batchVars, bundle_override, packVars>>

(***************************************************************************)
(* The pack tile.                                                          *)
(***************************************************************************)

\* Pending work and a foreign partial assembly are dropped; dispatched work
\* stays.
RetireOlder(g) ==
  [b \in Batches |-> IF place[b] = "pack" THEN "none"
                     ELSE IF place[b] = "assembly" /\ stamp[b] # g THEN "tail"
                     ELSE place[b]]

\* pack_tile_sync_bam_ownership_generation up to the compare-and-swap.
SyncGeneration ==
  /\ pack_gen' = gen
  /\ place' = IF gen # pack_gen THEN RetireOlder(gen) ELSE place
  /\ pack_pc' = IF req THEN "ack" ELSE "synced"

\* The top of after_credit.
PackSync ==
  /\ pack_pc = "idle"
  /\ SyncGeneration
  /\ UNCHANGED <<word, bamVars, stamp, stale, bundleVars, taken, snapshot>>

\* Mutant: a fragment is judged by the generation after_credit loaded.
PackTakeUnsynced(b) ==
  /\ pack_pc = "idle" /\ place[b] \in {"link", "assembly", "tail"}
  /\ taken' = {b}
  /\ pack_pc' = "synced"
  /\ UNCHANGED <<word, bamVars, batchVars, bundleVars, pack_gen, snapshot>>

\* during_frag: the next BAM fragment has arrived, and the generation is loaded
\* again before the fragment's own is compared with it.
PackTake(b) ==
  /\ pack_pc = "idle" /\ place[b] \in {"link", "assembly", "tail"}
  /\ taken' = {b}
  /\ SyncGeneration
  /\ UNCHANGED <<word, bamVars, stamp, stale, bundleVars, snapshot>>

\* Mutant: the low bit is left set.
PackAckForgotten ==
  /\ pack_pc = "ack"
  /\ pack_pc' = "synced"
  /\ UNCHANGED <<word, bamVars, batchVars, bundleVars, pack_gen, taken, snapshot>>

\* The compare-and-swap that clears the low bit.  It fails when a later
\* generation was requested since the load.
PackAck ==
  /\ pack_pc = "ack"
  /\ req' = (req /\ gen # pack_gen)
  /\ pack_pc' = "synced"
  /\ UNCHANGED <<bam_status, gen, bamVars, batchVars, bundleVars, pack_gen, taken, snapshot>>

\* Mutant: fragments of a retired generation are let in.
AcceptAnyGeneration(b) == TRUE

SameGeneration(b) == stamp[b] = pack_gen

\* The first fragment of a batch, which may be its only one.  It is dropped if
\* its generation is not pack's.  Otherwise an unfinished assembly is abandoned,
\* and the fragment starts one of its own or, being the whole batch, is admitted
\* or rejected.
PackFirstFrag(b) ==
  /\ pack_pc = "synced" /\ b \in taken
  /\ place[b] = "link"
  /\ \E dest \in IF SameGeneration(b) THEN {"assembly", "pack", "none"}
                                      ELSE {"tail", "none"} :
       place' = [c \in Batches |->
                   IF c = b THEN dest
                   ELSE IF SameGeneration(b) /\ place[c] = "assembly" THEN "tail"
                   ELSE place[c]]
  /\ pack_pc' = "idle" /\ taken' = {}
  /\ UNCHANGED <<word, bamVars, stamp, stale, bundleVars, pack_gen, snapshot>>

\* The last fragment: completes its assembly, and the batch is admitted or
\* rejected; without an assembly it is dropped.
PackLastFrag(b) ==
  /\ pack_pc = "synced" /\ b \in taken
  /\ \/ /\ place[b] = "assembly" /\ SameGeneration(b)
        /\ \E dest \in {"pack", "none"} : place' = [place EXCEPT ![b] = dest]
     \/ /\ place[b] = "tail"
        /\ place' = [place EXCEPT ![b] = "none"]
  /\ pack_pc' = "idle" /\ taken' = {}
  /\ UNCHANGED <<word, bamVars, stamp, stale, bundleVars, pack_gen, snapshot>>

\* pack_tile_snapshot_bam_override.
PackSnapshot ==
  /\ pack_pc = "synced" /\ taken = {}
  /\ snapshot' = (bam_status = "active")
  /\ pack_pc' = "dispatch"
  /\ UNCHANGED <<word, bamVars, batchVars, bundleVars, pack_gen, taken>>

\* Pending BAM work is dispatched only under the override that was observed.
PackDispatch(b) ==
  /\ pack_pc = "dispatch" /\ snapshot
  /\ place[b] = "pack"
  /\ place' = [place EXCEPT ![b] = "scheduled"]
  /\ pack_pc' = "idle"
  /\ UNCHANGED <<word, bamVars, stamp, stale, bundleVars, pack_gen, taken, snapshot>>

\* after_credit returns without BAM work to dispatch.
PackReturn ==
  /\ pack_pc \in {"synced", "dispatch"} /\ taken = {}
  /\ pack_pc' = "idle"
  /\ UNCHANGED <<word, bamVars, batchVars, bundleVars, pack_gen, taken, snapshot>>

\* Dispatched work completes; pending work expires or is evicted.
PackFinish(b) ==
  /\ \/ place[b] = "scheduled"
     \/ place[b] = "pack" /\ pack_pc = "synced"
  /\ place' = [place EXCEPT ![b] = "none"]
  /\ UNCHANGED <<word, bamVars, stamp, stale, bundleVars, packVars>>

PackFrag(b) == PackFirstFrag(b) \/ PackLastFrag(b)

PackStep ==
  \/ PackSync \/ PackAck \/ PackSnapshot \/ PackReturn
  \/ \E b \in Batches : PackTake(b) \/ PackFrag(b) \/ PackDispatch(b)

Next ==
  \/ \E contact_ok \in BOOLEAN : Refresh(contact_ok) \/ ClientReset(contact_ok)
  \/ CtrlReset \/ KeyswitchHalt \/ KeyswitchUnhalt
  \/ ClientProgress
  \/ BundleBeforeCredit \/ BundleClaim \/ BundleRelease
  \/ PackStep
  \/ \E b \in Batches : ReceiveBatch(b) \/ DrainBatch(b) \/ PackFinish(b)

Spec == Init /\ [][Next]_vars

\* Housekeeping runs for ever and the contact update eventually succeeds; pack
\* runs its loop for ever, and a loop that goes round polls the link from the
\* resolver again and again, which hands over the fragments in order, so that
\* each batch has its turn.
Fairness ==
  /\ WF_vars(Refresh(TRUE)) /\ WF_vars(PackStep)
  /\ \A b \in Batches : SF_vars(PackTake(b))

FairSpec == Spec /\ Fairness

(***************************************************************************)
(* Properties.                                                             *)
(***************************************************************************)

\* The bundle tile holds its claim for as long as it publishes: BAM never takes
\* the word from under it, so the FD_LOG_ERR after the drain is unreachable and
\* no Block Engine bundle is published under BAM ownership.
ClaimHeld == (bundle_pc = "claimed") <=> (bam_status = "publishing")

\* A batch on its way to or held by pack carries the present generation exactly
\* when no generation has begun since it was received, although the stamp is
\* written only when it drains, possibly long after: the stamp tells retired work
\* from work that may run.
StampTellsStale ==
  \A b \in Batches : InFlight(b) => (stale[b] <=> stamp[b] # ownership_gen)

\* Once pack has acknowledged a generation it holds no pending or partly
\* assembled work received before that generation began, whatever fragments were
\* on the way at the time.
AckedMeansRetired ==
  ~req => \A b \in Batches : place[b] \in {"assembly", "pack"} => ~stale[b]

\* Pack drops a fragment for its generation only when the batch was received
\* before the present one began: work received since then is let in, even when it
\* was published before pack had moved to the new generation.
FreshIsLetIn ==
  \A b \in taken : pack_pc = "synced" /\ ~SameGeneration(b) => stale[b]

\* BAM gives the pipeline back only after pack has moved to the generation that
\* retired its work, and has dropped that work.
ReleaseAfterRetirement ==
  [][bam_status = "active" /\ bam_status' = "none"
       => /\ pack_gen = ownership_gen
          /\ \A b \in Batches : place[b] \in {"assembly", "pack"} => ~stale[b]]_vars

\* A requested retirement does not stay unacknowledged: sooner or later pack has
\* cleared the low bit, unless generations keep beginning for ever.
RetirementAcked == []<>~req \/ []<><<gen' # gen>>_vars

\* A BAM that stays unhealthy gives the pipeline back, unless generations keep
\* beginning for ever.
OwnershipReleased ==
  \/ []<>(bam_status # "active" \/ conn = "healthy")
  \/ []<><<ownership_gen' # ownership_gen>>_vars
=============================================================================

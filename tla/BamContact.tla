----------------------------- MODULE BamContact -----------------------------
(***************************************************************************)
(* The address the validator advertises for transactions.  While BAM owns  *)
(* the pipeline it is the scheduler's; otherwise the validator's own.      *)
(* Full Firedancer sends contact updates to its gossip tile and waits for  *)
(* the tile's flow-control sequence to pass them before it takes           *)
(* ownership.  Frankendancer asks Agave over an admin RPC stream whose     *)
(* requests may fail, with or without having taken effect.                 *)
(*                                                                         *)
(* fd_bam_publish_active_state and fd_bam_gossip_update are here in full;  *)
(* of the hand-over (module BamOwnership) only the two shared words are    *)
(* kept.  A base port out of range is refused before it gets here, so an   *)
(* address is a model value.  Agave may not know its own address yet, and  *)
(* then answers with one that cannot be cached.                            *)
(***************************************************************************)
EXTENDS Integers, Sequences

CONSTANTS
  Contacts,       \* TPU addresses a scheduler may configure
  Own,            \* the validator's own TPU address
  Unset,          \* what Agave answers before it knows one: 0.0.0.0
  None,
  LINK_MAX        \* fragments under way to gossip: 128

Addrs    == Contacts \cup {Own}
Readback == (Addrs \cup {Unset}) \X (Addrs \cup {Unset})

ASSUME ContactConstants ==
  /\ Own \notin Contacts
  /\ Unset \notin Addrs
  /\ None \notin Addrs \cup {Unset} /\ None \notin Readback
  /\ LINK_MAX \in Nat \ {0}

VARIABLES
  admin_rpc,         \* admin_rpc_path is set: Frankendancer; fixed at boot
  bam_status,        \* shared: "none", "active", "publishing"
  acked,             \* shared: the bam_gen word shows the generation acknowledged
  conn,              \* "down", "live", "healthy"
  retired,           \* ownership_gen_retired
  bam_tpu,           \* bam_tpu and bam_tpu_fwd, which come as a pair
  shred_sock,        \* bam_shred_sock_cnt # 0
  published_shred,   \* published_shred_sock_cnt # 0
  default_tpu,       \* default_tpu and default_tpu_fwd, or None
  tpu_state,         \* tpu_update_state
  client_id_state,   \* client_id_update_state
  handoff_pending,   \* bam_gossip_handoff_pending
  handoff_left,      \* fragments the gossip sequence is short of handoff_target
  link,              \* contact updates not yet taken by gossip
  unreported,        \* updates taken, not yet in gossip's flow-control sequence
  advert,            \* address gossip advertises (full Firedancer)
  agave_tpu,         \* TPU and TPU-forwards addresses Agave advertises
  agave_client_id,   \* client id Agave advertises
  lent               \* history: whether Agave was given a contact while its own
                     \* address was not cached: "no", or the contact is still
                     \* "held" here, or was replaced or dropped: "mislaid"

owner    == <<bam_status, acked, retired>>
config   == <<conn, bam_tpu, shred_sock>>
states   == <<tpu_state, client_id_state>>
agave    == <<agave_tpu, agave_client_id>>
gossip   == <<unreported, advert>>
handoff  == <<handoff_pending, handoff_left>>
vars     == <<admin_rpc, owner, config, published_shred, default_tpu, states,
              handoff, link, gossip, agave, lent>>

UpdateStates == {"UNKNOWN", "APPLIED_DEFAULT", "APPLIED_BAM", "PENDING_DEFAULT",
                 "PENDING_BAM"}

\* Every variable keeps its shape: in particular what the hand-off still waits
\* for is a natural number, and the link to gossip never overfills.
TypeOK ==
  /\ admin_rpc \in BOOLEAN
  /\ bam_status \in {"none", "active", "publishing"}
  /\ acked \in BOOLEAN /\ retired \in BOOLEAN
  /\ conn \in {"down", "live", "healthy"}
  /\ bam_tpu \in Contacts \cup {None}
  /\ shred_sock \in BOOLEAN /\ published_shred \in BOOLEAN
  /\ default_tpu \in (Addrs \X Addrs) \cup {None}
  /\ tpu_state \in UpdateStates /\ client_id_state \in UpdateStates
  /\ handoff_pending \in BOOLEAN
  /\ handoff_left \in 0..LINK_MAX
  /\ link \in Seq(Addrs) /\ Len(link) <= LINK_MAX
  /\ unreported \in 0..LINK_MAX
  /\ advert \in Addrs
  /\ agave_tpu \in Readback
  /\ agave_client_id \in {"BAM", "DEFAULT"}
  /\ lent \in {"no", "held", "mislaid"}

\* Either deployment.  Full Firedancer has its own address from the
\* configuration.  Frankendancer has it from there if a bind address is given;
\* otherwise it learns it from Agave, which may not know it yet.
Init ==
  /\ admin_rpc \in BOOLEAN
  /\ bam_status = "none" /\ acked = TRUE /\ retired = TRUE
  /\ conn = "down" /\ bam_tpu = None
  /\ shred_sock = FALSE /\ published_shred = FALSE
  /\ default_tpu \in {<<Own, Own>>} \cup IF admin_rpc THEN {None} ELSE {}
  /\ tpu_state = "UNKNOWN" /\ client_id_state = "UNKNOWN"
  /\ handoff_pending = FALSE /\ handoff_left = 0
  /\ link = <<>> /\ unreported = 0 /\ advert = Own
  /\ agave_tpu \in {<<Own, Own>>} \cup IF admin_rpc THEN {<<Unset, Unset>>} ELSE {}
  /\ agave_client_id = "DEFAULT"
  /\ lent = "no"

Applied(use_bam) == IF use_bam THEN "APPLIED_BAM" ELSE "APPLIED_DEFAULT"
Pending(use_bam) == IF use_bam THEN "PENDING_BAM" ELSE "PENDING_DEFAULT"
ClientId(use_bam) == IF use_bam THEN "BAM" ELSE "DEFAULT"

BothAre(s) == tpu_state' = s /\ client_id_state' = s

(***************************************************************************)
(* fd_bam_gossip_update with a gossip tile.                                *)
(***************************************************************************)

GossipUpdate(use_bam) ==
  /\ BothAre(Applied(use_bam))
  /\ Len(link) + unreported < LINK_MAX
  /\ link' = Append(link, IF use_bam THEN bam_tpu' ELSE default_tpu[1])
  /\ handoff_left' = IF use_bam THEN Len(link) + unreported + 1 ELSE 0
  /\ UNCHANGED <<default_tpu, agave>>

(***************************************************************************)
(* fd_bam_gossip_update with the admin RPC.                                *)
(***************************************************************************)

\* fd_bam_try_apply_contact_info_client_id.  A request that fails may have
\* reached Agave all the same.
TryApplyClientId(use_bam) ==
  \/ /\ agave_client_id' = ClientId(use_bam)
     /\ client_id_state' = Applied(use_bam)
  \/ /\ agave_client_id' \in {agave_client_id, ClientId(use_bam)}
     /\ client_id_state' = Pending(use_bam)

\* The two setters, TPU and then TPU-forwards; the first failure ends it.
SetPublicTpu(use_bam, target) ==
  \/ /\ agave_tpu' = target
     /\ tpu_state' = Applied(use_bam)
  \/ /\ agave_tpu' \in {agave_tpu, <<target[1], agave_tpu[2]>>, target}
     /\ tpu_state' = Pending(use_bam)

\* Mutant: the address is cached although it is the scheduler's.
CacheAnyAddress ==
  IF default_tpu = None /\ agave_tpu \in Addrs \X Addrs THEN agave_tpu ELSE default_tpu

\* The readback is cached as the default unless it is incomplete or already BAM's.
CacheDefault ==
  IF default_tpu = None /\ agave_tpu \in (Addrs \X Addrs) \ {<<bam_tpu', bam_tpu'>>}
    THEN agave_tpu
    ELSE default_tpu

\* contactInfo does not answer.
ReadbackFails(use_bam) ==
  /\ tpu_state' = Pending(use_bam)
  /\ client_id_state' = IF client_id_state = Applied(use_bam)
                          THEN client_id_state ELSE Pending(use_bam)
  /\ UNCHANGED <<default_tpu, agave>>

UpdateTpu(use_bam, target) ==
  IF target = None
    THEN /\ tpu_state' = Pending(use_bam)
         /\ UNCHANGED agave_tpu
    ELSE IF agave_tpu = target
           THEN /\ tpu_state' = Applied(use_bam)
                /\ UNCHANGED agave_tpu
           ELSE SetPublicTpu(use_bam, target)

\* The client id follows the address to BAM, and is tried at once on the way
\* back.
UpdateClientId(use_bam) ==
  IF client_id_state = Applied(use_bam)
    THEN UNCHANGED <<client_id_state, agave_client_id>>
    ELSE IF use_bam /\ tpu_state' # Applied(TRUE)
           THEN /\ client_id_state' = Pending(TRUE)
                /\ UNCHANGED agave_client_id
           ELSE TryApplyClientId(use_bam)

AdminUpdate(use_bam, tpu_now) ==
  /\ IF tpu_now = Applied(use_bam) /\ client_id_state = Applied(use_bam)
       THEN BothAre(Applied(use_bam)) /\ UNCHANGED <<default_tpu, agave>>
       ELSE \/ ReadbackFails(use_bam)
            \/ /\ default_tpu' = CacheDefault
               /\ UpdateTpu(use_bam,
                            IF use_bam THEN <<bam_tpu', bam_tpu'>>
                                       ELSE default_tpu')
               /\ UpdateClientId(use_bam)
  /\ handoff_left' = 0
  /\ UNCHANGED link

\* bam_tpu' is the contact, tpu_now the update state at the time of the call.
ContactUpdate(use_bam, tpu_now) ==
  IF admin_rpc THEN AdminUpdate(use_bam, tpu_now) ELSE GossipUpdate(use_bam)

(***************************************************************************)
(* fd_bam_publish_active_state.                                            *)
(***************************************************************************)

\* fd_bam_tile_begin_ownership_generation: what it does to this state.
BeginOwnershipGeneration ==
  /\ retired' = TRUE /\ acked' = FALSE
  /\ bam_tpu' = None /\ shred_sock' = FALSE
  /\ BothAre("UNKNOWN")
  /\ UNCHANGED <<bam_status, published_shred, default_tpu, handoff, link, gossip,
                 agave>>

\* Mutant: only a change of ownership causes an update.
UpdateOnEdgeOnly(active, use_bam, tpu_now, handing_off) ==
  (bam_status = "active") # active /\ ~(use_bam /\ handing_off)

\* update_needed; handing_off is bam_gossip_handoff_pending at that point.
UpdateNeeded(active, use_bam, tpu_now, handing_off) ==
  LET Stale(s) == \/ s \in {"PENDING_DEFAULT", "PENDING_BAM"}
                  \/ s = Applied(~use_bam)
                  \/ use_bam /\ s = "UNKNOWN"
  IN  \/ /\ (bam_status = "active") # active
         /\ ~(use_bam /\ bam_status # "active" /\ handing_off)
      \/ Stale(tpu_now)
      \/ Stale(client_id_state)

\* Mutant: ownership is released without waiting for Agave.
ReleasedAtOnce == TRUE

\* Frankendancer restores Agave's contact information before it releases.
Restored == admin_rpc => BothAre("APPLIED_DEFAULT")

\* Mutant: a contact update that is still under way counts as seen.
SeenWhenSent(sent) == TRUE

\* The gossip tile's sequence has reached the target.
SeenByGossip(sent) == sent => handoff_left' = 0

\* Mutant: an address that could not be set does not hold up the take-over.
AnyContact == TRUE

ContactApplied == BothAre("APPLIED_BAM")

\* What follows once the generation is acknowledged.
Publish(active, tpu_now) ==
  LET prev        == bam_status = "active"
      use_bam     == active /\ bam_tpu' # None
      handing_off == active /\ handoff_pending
      needed      == UpdateNeeded(active, use_bam, tpu_now, handing_off)
      sent        == IF needed THEN use_bam /\ ~admin_rpc ELSE handing_off
      ready       == active /\ (use_bam => ContactApplied /\ SeenByGossip(sent))
      release     == ~active /\ prev /\ Restored
  IN  /\ IF needed THEN ContactUpdate(use_bam, tpu_now)
         ELSE /\ tpu_state' = tpu_now
              /\ UNCHANGED <<client_id_state, default_tpu, handoff_left, link, agave>>
      /\ handoff_pending' = (sent /\ ~ready)
      /\ bam_status' = IF release THEN "none"
                       ELSE IF ready /\ bam_status = "none" THEN "active"
                       ELSE bam_status
      /\ retired' = (retired /\ ~(ready /\ bam_status' = "active"))
      /\ published_shred' = IF ~active /\ prev /\ ~release THEN published_shred
                            ELSE active /\ shred_sock'
      /\ UNCHANGED <<acked, gossip>>

\* Called with the contact, the shred receivers and the TPU update state that the
\* caller has just stored.
PublishActiveState(active, tpu, shred, tpu_now) ==
  \/ /\ bam_status = "active" /\ ~active /\ ~retired
     /\ BeginOwnershipGeneration
  \/ /\ ~(bam_status = "active" /\ ~active /\ ~retired)
     /\ bam_tpu' = tpu /\ shred_sock' = shred
     /\ IF retired /\ ~acked
          THEN /\ tpu_state' = tpu_now
               /\ UNCHANGED <<owner, published_shred, default_tpu, client_id_state,
                              handoff, link, gossip, agave>>
          ELSE Publish(active, tpu_now)

\* What the call does to the history variable.
TrackLoan ==
  lent' = IF default_tpu = None /\ lent = "held" /\ bam_tpu' # bam_tpu THEN "mislaid"
          ELSE IF default_tpu' = None /\ lent = "no" /\ agave_tpu' # agave_tpu THEN "held"
          ELSE lent

(***************************************************************************)
(* Its callers, and the other parties.                                     *)
(***************************************************************************)

\* Housekeeping.
Refresh ==
  /\ PublishActiveState(conn = "healthy", bam_tpu, shred_sock, tpu_state)
  /\ TrackLoan
  /\ UNCHANGED <<conn, admin_rpc>>

\* Mutant: a new contact counts as applied.
KeepTpuState(c) == tpu_state

\* A contact that differs is to be applied afresh.
TpuStateFor(c) == IF c \in {None, bam_tpu} THEN tpu_state ELSE "UNKNOWN"

\* fd_bam_handle_config: a complete contact replaces the one held, an
\* incomplete one (None) is ignored.  Shred receivers are replaced, or cleared if
\* the response has none.
HandleConfig(c, shred) ==
  /\ conn # "down"
  /\ PublishActiveState(conn = "healthy",
                        IF c = None THEN bam_tpu ELSE c,
                        shred,
                        TpuStateFor(c))
  /\ TrackLoan
  /\ UNCHANGED <<conn, admin_rpc>>

\* fd_bam_client_reset.  The contact is left in place.
ClientReset ==
  /\ conn # "down"
  /\ PublishActiveState(FALSE, bam_tpu, shred_sock, tpu_state)
  /\ TrackLoan
  /\ conn' = "down"
  /\ UNCHANGED admin_rpc

\* A control request or an identity change retires the scheduler, then resets
\* the client.
OperatorReset ==
  /\ BeginOwnershipGeneration
  /\ TrackLoan
  /\ conn' = "down"
  /\ UNCHANGED admin_rpc

ClientProgress ==
  /\ \/ conn = "down" /\ conn' = "live"
     \/ conn = "live" /\ conn' = "healthy"
     \/ conn = "healthy" /\ conn' = "live"
  /\ UNCHANGED <<admin_rpc, owner, bam_tpu, shred_sock, published_shred,
                 default_tpu, states, handoff, link, gossip, agave, lent>>

\* Pack acknowledges the generation.
PackAck ==
  /\ ~acked
  /\ acked' = TRUE
  /\ UNCHANGED <<admin_rpc, bam_status, retired, config, published_shred,
                 default_tpu, states, handoff, link, gossip, agave, lent>>

\* The bundle tile claims and releases the pipeline.
BundleClaim ==
  /\ \/ bam_status = "none" /\ bam_status' = "publishing"
     \/ bam_status = "publishing" /\ bam_status' = "none"
  /\ UNCHANGED <<admin_rpc, acked, retired, config, published_shred,
                 default_tpu, states, handoff, link, gossip, agave, lent>>

\* fd_gossip_tile_apply_bam_contact.
GossipApply ==
  /\ link # <<>>
  /\ advert' = Head(link)
  /\ link' = Tail(link)
  /\ unreported' = unreported + 1
  /\ UNCHANGED <<admin_rpc, owner, config, published_shred, default_tpu, states,
                 handoff, agave, lent>>

\* What the sequence is short of the target once it is updated.
StillShort == IF handoff_left > unreported THEN handoff_left - unreported ELSE 0

\* The stem of the gossip tile updates its flow-control sequence now and then.
GossipReport ==
  /\ unreported > 0
  /\ handoff_left' = StillShort
  /\ unreported' = 0
  /\ UNCHANGED <<admin_rpc, owner, config, published_shred, default_tpu, states,
                 handoff_pending, link, advert, agave, lent>>

\* Agave has started up: external.
AgaveLearns ==
  /\ agave_tpu = <<Unset, Unset>>
  /\ agave_tpu' = <<Own, Own>>
  /\ UNCHANGED <<admin_rpc, owner, config, published_shred, default_tpu, states,
                 handoff, link, gossip, agave_client_id, lent>>

Next ==
  \/ Refresh \/ ClientReset \/ OperatorReset \/ ClientProgress
  \/ \E c \in Contacts \cup {None}, shred \in BOOLEAN : HandleConfig(c, shred)
  \/ PackAck \/ BundleClaim \/ GossipApply \/ GossipReport \/ AgaveLearns

Spec == Init /\ [][Next]_vars

\* A refresh in which every admin RPC request made is answered.
RefreshAnswered ==
  Refresh /\ {tpu_state', client_id_state'} \cap {"PENDING_BAM", "PENDING_DEFAULT"} = {}

\* Housekeeping, pack and gossip run for ever, and Agave starts up and answers in
\* the end.
FairSpec ==
  /\ Spec
  /\ WF_vars(RefreshAnswered) /\ WF_vars(PackAck)
  /\ WF_vars(GossipApply) /\ WF_vars(GossipReport) /\ WF_vars(AgaveLearns)

(***************************************************************************)
(* Properties.                                                             *)
(***************************************************************************)

\* What peers see.
Advertises(addr, id) ==
  IF admin_rpc THEN agave_tpu = <<addr, addr>> /\ agave_client_id = id
  ELSE advert = addr

\* The last address sent is the one an APPLIED state stands for, whatever
\* requests failed half-way, and whichever contact was held before.
AppliedIsTrue ==
  LET Sent(pair) == IF admin_rpc THEN agave_tpu = pair
                    ELSE IF link = <<>> THEN advert = pair[1]
                    ELSE link[Len(link)] = pair[1]
  IN  /\ tpu_state = "APPLIED_BAM" => Sent(<<bam_tpu, bam_tpu>>)
      /\ tpu_state = "APPLIED_DEFAULT" => Sent(default_tpu)
      /\ admin_rpc /\ client_id_state \in {"APPLIED_BAM", "APPLIED_DEFAULT"}
           => agave_client_id = ClientId(client_id_state = "APPLIED_BAM")

\* A scheduler's address is cached as the one to go back to only in one way: Agave
\* was given it before its own was known, and the tile has forgotten it since.
\* While the tile holds the contact, the comparison with the readback prevents it.
DefaultIsOwn == default_tpu \in {None, <<Own, Own>>} \/ lent = "mislaid"

\* BAM takes ownership with a contact only when peers already see that contact:
\* the wait for gossip's sequence, or for Agave's answers, is not fooled by a
\* contact that changes or is withdrawn while an update is under way.
TakeoverIsAdvertised ==
  [][bam_status # "active" /\ bam_status' = "active" /\ bam_tpu' # None
       => Advertises(bam_tpu, "BAM")']_vars

\* Frankendancer gives ownership back only when Agave advertises the cached
\* default, both addresses of it, and the validator's own client id again.
ReleaseIsRestored ==
  [][admin_rpc /\ bam_status = "active" /\ bam_status' = "none"
       => (agave_tpu = default_tpu /\ agave_client_id = "DEFAULT")']_vars

\* When BAM stays down, the tile does not forget what it last applied, and Agave's
\* own address was known before it was replaced, the validator comes to advertise
\* its own address and client id again, whatever requests failed, and however far
\* an update to the scheduler's contact had come when the connection was lost.
RestoredUnlessForgotten ==
  <>[](/\ conn # "healthy" /\ "UNKNOWN" \notin {tpu_state, client_id_state}
       /\ lent = "no" \/ default_tpu = <<Own, Own>>)
    => <>[]Advertises(Own, "DEFAULT")

\* fd_bam_tile.c: the default is kept "to restore it if BAM is
\* disabled/disconnects".  When BAM is down for good, the validator advertises
\* its own address again.
AdvertRestored == <>[](conn # "healthy") => <>[]Advertises(Own, "DEFAULT")
=============================================================================

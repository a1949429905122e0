-------------------------- MODULE BamContactProofs --------------------------
(***************************************************************************)
(* Proofs about BamContact: an APPLIED state is true of what was sent, the *)
(* cached default is the validator's own address with one exception,       *)
(* ownership is taken only with the contact advertised and, with Agave,    *)
(* released only with the default restored.                                *)
(***************************************************************************)
EXTENDS BamContact, TLAPS

\* Until a default is cached Agave has the validator's own address, none, or the
\* contact it was given, as long as the tile holds that contact; full Firedancer
\* has a default from the start.
DefaultInv ==
  /\ DefaultIsOwn
  /\ ~admin_rpc => default_tpu = <<Own, Own>>
  /\ admin_rpc /\ default_tpu = None /\ lent # "mislaid" =>
       \/ agave_tpu \in {<<Own, Own>>, <<Unset, Unset>>}
       \/ lent = "held" /\ agave_tpu \in {<<bam_tpu, Unset>>, <<bam_tpu, bam_tpu>>}

\* While a hand-off is pending its target is the last update sent.
HandoffInv ==
  /\ Len(link) + unreported <= LINK_MAX
  /\ handoff_pending => handoff_left = Len(link) + unreported

ContactInv == TypeOK /\ DefaultInv /\ HandoffInv /\ AppliedIsTrue

\* The last address sent is that of the pair.
Sent(pair) ==
  IF admin_rpc THEN agave_tpu = pair
  ELSE IF link = <<>> THEN advert = pair[1]
  ELSE link[Len(link)] = pair[1]

\* The TPU update state s is true of the contact tpu.
TrueOf(s, tpu) ==
  (s = "APPLIED_BAM" => Sent(<<tpu, tpu>>)) /\ (s = "APPLIED_DEFAULT" => Sent(default_tpu))

\* The client id update state is true.
IdTrue ==
  admin_rpc /\ client_id_state \in {"APPLIED_BAM", "APPLIED_DEFAULT"}
    => agave_client_id = ClientId(client_id_state = "APPLIED_BAM")

\* AppliedIsTrue speaks of the two update states separately.
LEMMA AppliedSplit == AppliedIsTrue <=> TrueOf(tpu_state, bam_tpu) /\ IdTrue
BY DEF AppliedIsTrue, TrueOf, Sent, IdTrue

\* At boot nothing is applied and peers see the validator's own address.
LEMMA ContactInit == Init => ContactInv
<1> SUFFICES ASSUME Init PROVE ContactInv
  OBVIOUS
<1>1. /\ <<Own, Own>> \in Addrs \X Addrs /\ Own \in Addrs
      /\ <<Own, Own>> \in Readback /\ <<Unset, Unset>> \in Readback
  BY DEF Addrs, Readback
<1>2. TypeOK
  <2>1. /\ link \in Seq(Addrs) /\ Len(link) <= LINK_MAX
        /\ handoff_left \in 0..LINK_MAX /\ unreported \in 0..LINK_MAX
    BY ContactConstants DEF Init
  <2>2. default_tpu \in (Addrs \X Addrs) \cup {None} /\ agave_tpu \in Readback
    BY <1>1 DEF Init
  <2>3. tpu_state \in UpdateStates /\ client_id_state \in UpdateStates
    BY DEF Init, UpdateStates
  <2> QED
    BY <1>1, <2>1, <2>2, <2>3, Zenon DEF Init, TypeOK
<1>3. DefaultInv /\ HandoffInv
  BY <1>1, ContactConstants DEF Init, DefaultInv, DefaultIsOwn, HandoffInv
<1>4. AppliedIsTrue
  BY DEF Init, AppliedIsTrue
<1> QED
  BY <1>2, <1>3, <1>4 DEF ContactInv

\* An update of the client id leaves a state that is true of Agave.
LEMMA ClientIdStep ==
  ASSUME TypeOK, IdTrue, admin_rpc, admin_rpc' = admin_rpc,
         NEW use_bam \in BOOLEAN, UpdateClientId(use_bam)
  PROVE  /\ IdTrue'
         /\ client_id_state' \in UpdateStates
         /\ agave_client_id' \in {"BAM", "DEFAULT"}
BY DEF TypeOK, IdTrue, UpdateClientId, TryApplyClientId, Applied, Pending, ClientId,
       UpdateStates

\* Setting the address at Agave leaves a state that is true of it, and Agave with
\* what it had, with the target, or with half of it.
LEMMA TpuStep ==
  ASSUME TypeOK, admin_rpc, admin_rpc' = admin_rpc,
         NEW use_bam \in BOOLEAN, NEW target \in (Addrs \X Addrs) \cup {None},
         use_bam => target = <<bam_tpu', bam_tpu'>>, ~use_bam => target = default_tpu',
         UpdateTpu(use_bam, target)
  PROVE  /\ TrueOf(tpu_state, bam_tpu)'
         /\ tpu_state' \in UpdateStates
         /\ agave_tpu' \in Readback
         /\ target = None => agave_tpu' = agave_tpu
         /\ agave_tpu' \in {agave_tpu, <<target[1], agave_tpu[2]>>, target}
<1>1. CASE target = None
  BY <1>1 DEF TypeOK, UpdateTpu, TrueOf, Pending, UpdateStates
<1>2. CASE target \in Addrs \X Addrs /\ target # None
  <2>1. target[1] \in Addrs /\ target \in Readback
    BY <1>2 DEF Readback
  <2>2. /\ agave_tpu = target => tpu_state' = Applied(use_bam) /\ agave_tpu' = target
        /\ agave_tpu # target => SetPublicTpu(use_bam, target)
    BY <1>2 DEF UpdateTpu
  <2>3. /\ tpu_state' = Applied(use_bam) => agave_tpu' = target
        /\ tpu_state' \in {Applied(use_bam), Pending(use_bam)}
    BY <2>2 DEF SetPublicTpu, Applied, Pending
  <2>4. agave_tpu' \in {agave_tpu, <<target[1], agave_tpu[2]>>, target}
    BY <2>2 DEF SetPublicTpu
  <2>5. agave_tpu' \in Readback
    BY <2>1, <2>4 DEF TypeOK, Readback
  <2>6. TrueOf(tpu_state, bam_tpu)' /\ tpu_state' \in UpdateStates
    BY <1>2, <2>3 DEF TrueOf, Sent, Applied, Pending, UpdateStates
  <2> QED
    BY <1>2, <2>4, <2>5, <2>6
<1> QED
  BY <1>1, <1>2

\* What is known of the default is kept by a call that asks nothing of Agave.
LEMMA DefaultKept ==
  ASSUME DefaultInv, TypeOK, TrackLoan, UNCHANGED <<admin_rpc, default_tpu, agave_tpu>>
  PROVE  DefaultInv'
BY DEF DefaultInv, DefaultIsOwn, TrackLoan, TypeOK

\* It is kept by a readback that may be cached and the setters that follow.
LEMMA CacheStep ==
  ASSUME DefaultInv, TypeOK, TrackLoan, admin_rpc, admin_rpc' = admin_rpc,
         NEW use_bam \in BOOLEAN, bam_tpu' \in Contacts \cup {None},
         use_bam => bam_tpu' # None, default_tpu' = CacheDefault,
         NEW target, target = (IF use_bam THEN <<bam_tpu', bam_tpu'>> ELSE default_tpu'),
         target = None => agave_tpu' = agave_tpu,
         agave_tpu' \in {agave_tpu, <<target[1], agave_tpu[2]>>, target}
  PROVE  DefaultInv'
<1>own. /\ <<Own, Own>> \in Addrs \X Addrs /\ <<Own, Own>> # <<bam_tpu', bam_tpu'>>
        /\ None \notin Addrs \X Addrs
  BY ContactConstants DEF Addrs, Readback
<1>1. CASE default_tpu # None
  BY <1>1, <1>own DEF DefaultInv, DefaultIsOwn, TrackLoan, CacheDefault
<1>2. CASE default_tpu = None /\ default_tpu' # None
  <2>1. /\ default_tpu' = agave_tpu /\ agave_tpu \in Addrs \X Addrs
        /\ agave_tpu # <<bam_tpu', bam_tpu'>>
    BY <1>2 DEF CacheDefault
  <2>2. agave_tpu # <<Unset, Unset>> /\ agave_tpu # <<bam_tpu, Unset>>
    BY <2>1, ContactConstants
  <2>3. lent' = "mislaid" \/ default_tpu' = <<Own, Own>>
    BY <1>2, <2>1, <2>2 DEF DefaultInv, TrackLoan, TypeOK
  <2> QED
    BY <1>2, <2>3, <1>own DEF DefaultInv, DefaultIsOwn
<1>3. CASE default_tpu = None /\ default_tpu' = None
  <2> SUFFICES ASSUME lent' # "mislaid"
               PROVE  \/ agave_tpu' \in {<<Own, Own>>, <<Unset, Unset>>}
                      \/ /\ lent' = "held"
                         /\ agave_tpu' \in {<<bam_tpu', Unset>>, <<bam_tpu', bam_tpu'>>}
    BY <1>3 DEF DefaultInv, DefaultIsOwn
  <2>1. lent # "mislaid" /\ (lent = "held" => bam_tpu' = bam_tpu)
    BY <1>3 DEF TrackLoan
  <2>2. agave_tpu # <<Own, Own>>
    BY <1>3, <1>own DEF CacheDefault
  <2>3. \/ agave_tpu = <<Unset, Unset>>
        \/ lent = "held" /\ agave_tpu \in {<<bam_tpu', Unset>>, <<bam_tpu', bam_tpu'>>}
    BY <1>3, <2>1, <2>2 DEF DefaultInv
  <2>4. agave_tpu' \in {agave_tpu, <<bam_tpu', agave_tpu[2]>>, <<bam_tpu', bam_tpu'>>}
    BY <1>3
  <2>5. /\ agave_tpu' # agave_tpu /\ lent = "no" => lent' = "held"
        /\ lent = "held" => lent' = "held"
        /\ lent \in {"no", "held"}
    BY <1>3, <2>1 DEF TrackLoan, TypeOK
  <2>6. CASE agave_tpu = <<Unset, Unset>>
    <3>1. agave_tpu' \in {<<Unset, Unset>>, <<bam_tpu', Unset>>, <<bam_tpu', bam_tpu'>>}
      BY <2>4, <2>6
    <3> QED
      BY <2>5, <2>6, <3>1
  <2>7. CASE lent = "held" /\ agave_tpu \in {<<bam_tpu', Unset>>, <<bam_tpu', bam_tpu'>>}
    <3>1. agave_tpu[2] \in {Unset, bam_tpu'}
      BY <2>7
    <3> QED
      BY <2>4, <2>5, <2>7, <3>1
  <2> QED
    BY <2>3, <2>6, <2>7
<1> QED
  BY <1>1, <1>2, <1>3

\* fd_bam_gossip_update with the admin RPC.
LEMMA AdminStep ==
  ASSUME ContactInv, admin_rpc, UNCHANGED <<admin_rpc, gossip>>,
         NEW use_bam \in BOOLEAN, NEW tpu_now \in UpdateStates,
         bam_tpu' \in Contacts \cup {None}, use_bam => bam_tpu' # None,
         TrueOf(tpu_now, bam_tpu'),
         AdminUpdate(use_bam, tpu_now), TrackLoan
  PROVE  /\ DefaultInv' /\ AppliedIsTrue'
         /\ tpu_state' \in UpdateStates /\ client_id_state' \in UpdateStates
         /\ default_tpu' \in (Addrs \X Addrs) \cup {None}
         /\ agave_tpu' \in Readback
         /\ agave_client_id' \in {"BAM", "DEFAULT"}
<1> USE DEF ContactInv
<1>0. TrueOf(tpu_state, bam_tpu) /\ IdTrue
  BY AppliedSplit
<1>1. CASE /\ tpu_now = Applied(use_bam) /\ client_id_state = Applied(use_bam)
           /\ BothAre(Applied(use_bam)) /\ UNCHANGED <<default_tpu, agave>>
  <2>1. DefaultInv'
    BY <1>1, DefaultKept DEF agave
  <2>2. TrueOf(tpu_state, bam_tpu)'
    BY <1>1 DEF BothAre, TrueOf, Sent, agave, gossip
  <2>3. IdTrue'
    BY <1>0, <1>1 DEF BothAre, IdTrue, agave
  <2>4. AppliedIsTrue'
    BY <2>2, <2>3, AppliedSplit, PTL
  <2> QED
    BY <1>1, <2>1, <2>4 DEF BothAre, agave, TypeOK
<1>2. CASE ReadbackFails(use_bam)
  <2>1. DefaultInv'
    BY <1>2, DefaultKept DEF ReadbackFails, agave
  <2>2. tpu_state' \in {"PENDING_BAM", "PENDING_DEFAULT"}
    BY <1>2 DEF ReadbackFails, Pending
  <2>3. client_id_state' \in {client_id_state, "PENDING_BAM", "PENDING_DEFAULT"}
    BY <1>2 DEF ReadbackFails, Pending
  <2>4. AppliedIsTrue'
    BY <1>0, <1>2, <2>2, <2>3 DEF ReadbackFails, AppliedIsTrue, IdTrue, agave
  <2> QED
    BY <1>2, <2>1, <2>2, <2>3, <2>4 DEF ReadbackFails, agave, TypeOK, UpdateStates
<1>3. CASE /\ default_tpu' = CacheDefault
           /\ UpdateTpu(use_bam, IF use_bam THEN <<bam_tpu', bam_tpu'>> ELSE default_tpu')
           /\ UpdateClientId(use_bam)
  <2> DEFINE target == IF use_bam THEN <<bam_tpu', bam_tpu'>> ELSE default_tpu'
  <2>1. default_tpu' \in (Addrs \X Addrs) \cup {None}
    BY <1>3 DEF CacheDefault, TypeOK
  <2>2. target \in (Addrs \X Addrs) \cup {None} /\ UpdateTpu(use_bam, target)
    BY <1>3, <2>1 DEF Addrs
  <2>3. /\ TrueOf(tpu_state, bam_tpu)'
        /\ tpu_state' \in UpdateStates /\ agave_tpu' \in Readback
        /\ target = None => agave_tpu' = agave_tpu
        /\ agave_tpu' \in {agave_tpu, <<target[1], agave_tpu[2]>>, target}
    <3>1. (use_bam => target = <<bam_tpu', bam_tpu'>>) /\ (~use_bam => target = default_tpu')
      OBVIOUS
    <3> HIDE DEF target
    <3> QED
      BY <2>2, <3>1, TpuStep
  <2>4. /\ IdTrue' /\ client_id_state' \in UpdateStates
        /\ agave_client_id' \in {"BAM", "DEFAULT"}
    BY <1>0, <1>3, ClientIdStep
  <2>5. AppliedIsTrue'
    BY <2>3, <2>4, AppliedSplit, PTL
  <2>6. DefaultInv'
    BY <1>3, <2>1, <2>3, CacheStep
  <2> QED
    BY <2>1, <2>3, <2>4, <2>5, <2>6
<1> QED
  BY <1>1, <1>2, <1>3 DEF AdminUpdate

\* fd_bam_gossip_update with a gossip tile: the update is the last one sent.
LEMMA GossipStep ==
  ASSUME ContactInv, ~admin_rpc, UNCHANGED <<admin_rpc, gossip>>,
         NEW use_bam \in BOOLEAN,
         bam_tpu' \in Contacts \cup {None}, use_bam => bam_tpu' # None,
         GossipUpdate(use_bam), TrackLoan
  PROVE  /\ DefaultInv' /\ AppliedIsTrue'
         /\ tpu_state' \in UpdateStates /\ client_id_state' \in UpdateStates
         /\ link' \in Seq(Addrs) /\ Len(link') + unreported <= LINK_MAX
         /\ handoff_left' = IF use_bam THEN Len(link') + unreported ELSE 0
<1> DEFINE addr == IF use_bam THEN bam_tpu' ELSE default_tpu[1]
<1>1. DefaultInv'
  BY DefaultKept DEF ContactInv, GossipUpdate, agave
<1>2. addr = (IF use_bam THEN bam_tpu' ELSE Own) /\ addr \in Addrs
  BY DEF ContactInv, DefaultInv, Addrs
<1>3. /\ link' = Append(link, addr)
      /\ link \in Seq(Addrs) /\ unreported \in 0..LINK_MAX
      /\ Len(link) + unreported < LINK_MAX
      /\ handoff_left' = IF use_bam THEN Len(link) + unreported + 1 ELSE 0
  BY DEF ContactInv, GossipUpdate, TypeOK
<1> HIDE DEF addr
<1>4. /\ link' \in Seq(Addrs) /\ Len(link') = Len(link) + 1
      /\ link' # <<>> /\ link'[Len(link')] = addr
  BY <1>2, <1>3
<1>5. tpu_state' = Applied(use_bam) /\ client_id_state' = Applied(use_bam)
  BY DEF GossipUpdate, BothAre
<1>6. AppliedIsTrue'
  <2>1. default_tpu'[1] = Own
    BY DEF ContactInv, DefaultInv, GossipUpdate
  <2> QED
    BY <1>2, <1>4, <1>5, <2>1 DEF AppliedIsTrue, Applied
<1>7. Len(link') + unreported <= LINK_MAX
  BY <1>3, <1>4, ContactConstants
<1>8. handoff_left' = IF use_bam THEN Len(link') + unreported ELSE 0
  BY <1>3, <1>4
<1> QED
  BY <1>1, <1>4, <1>5, <1>6, <1>7, <1>8 DEF Applied, UpdateStates

\* The history variable keeps its type.
LEMMA LoanType ==
  ASSUME TypeOK, TrackLoan
  PROVE  lent' \in {"no", "held", "mislaid"}
BY DEF TypeOK, TrackLoan

\* fd_bam_tile_begin_ownership_generation keeps the invariant.
LEMMA BeginStep ==
  ASSUME ContactInv, BeginOwnershipGeneration, TrackLoan, admin_rpc' = admin_rpc,
         conn' \in {"down", "live", "healthy"}
  PROVE  ContactInv'
<1> USE DEF ContactInv
<1>1. TypeOK'
  BY LoanType DEF BeginOwnershipGeneration, BothAre, TypeOK, UpdateStates, handoff, gossip,
                  agave
<1>2. DefaultInv'
  BY DefaultKept DEF BeginOwnershipGeneration, agave
<1>3. HandoffInv'
  BY DEF BeginOwnershipGeneration, HandoffInv, handoff, gossip
<1>4. AppliedIsTrue'
  BY DEF BeginOwnershipGeneration, BothAre, AppliedIsTrue
<1> QED
  BY <1>1, <1>2, <1>3, <1>4

\* What fd_bam_publish_active_state does once the generation is acknowledged.
LEMMA PublishStep ==
  ASSUME ContactInv, admin_rpc' = admin_rpc,
         conn' \in {"down", "live", "healthy"},
         NEW active \in BOOLEAN, NEW tpu_now \in UpdateStates,
         bam_tpu' \in Contacts \cup {None}, shred_sock' \in BOOLEAN,
         TrueOf(tpu_now, bam_tpu'),
         Publish(active, tpu_now), TrackLoan
  PROVE  ContactInv'
<1> DEFINE prev        == bam_status = "active"
           use_bam     == active /\ bam_tpu' # None
           handing_off == active /\ handoff_pending
           needed      == UpdateNeeded(active, use_bam, tpu_now, handing_off)
           sent        == IF needed THEN use_bam /\ ~admin_rpc ELSE handing_off
           ready       == active /\ (use_bam => ContactApplied /\ SeenByGossip(sent))
           release     == ~active /\ prev /\ Restored
<1>0. /\ IF needed THEN ContactUpdate(use_bam, tpu_now)
         ELSE /\ tpu_state' = tpu_now
              /\ UNCHANGED <<client_id_state, default_tpu, handoff_left, link, agave>>
      /\ handoff_pending' = (sent /\ ~ready)
      /\ bam_status' = IF release THEN "none"
                       ELSE IF ready /\ bam_status = "none" THEN "active"
                       ELSE bam_status
      /\ retired' = (retired /\ ~(ready /\ bam_status' = "active"))
      /\ published_shred' = IF ~active /\ prev /\ ~release THEN published_shred
                            ELSE active /\ shred_sock'
      /\ UNCHANGED <<acked, gossip>>
  BY DEF Publish
<1>t. use_bam \in BOOLEAN /\ (use_bam => bam_tpu' # None) /\ TypeOK
  BY DEF ContactInv
<1>f. /\ bam_status' \in {"none", "active", "publishing"}
      /\ acked' \in BOOLEAN /\ retired' \in BOOLEAN
      /\ published_shred' \in BOOLEAN /\ handoff_pending' \in BOOLEAN
      /\ unreported' \in 0..LINK_MAX /\ advert' \in Addrs
      /\ lent' \in {"no", "held", "mislaid"}
      /\ handoff_pending' => sent
      /\ UNCHANGED <<admin_rpc, gossip>>
  <2>1. bam_status' \in {bam_status, "none", "active"}
    BY <1>0
  <2>2. retired' \in BOOLEAN /\ published_shred' \in BOOLEAN
        /\ handoff_pending' \in BOOLEAN
    BY <1>0, <1>t, Zenon DEF TypeOK
  <2>3. acked' = acked /\ unreported' = unreported /\ advert' = advert
    BY <1>0 DEF gossip
  <2> HIDE DEF ready, sent, release, prev, needed
  <2> QED
    BY <1>0, <1>t, <2>1, <2>2, <2>3, LoanType DEF TypeOK
<1> HIDE DEF ready, release, prev, needed, handing_off, use_bam
<1>1. CASE needed /\ admin_rpc
  <2>1. AdminUpdate(use_bam, tpu_now)
    BY <1>0, <1>1 DEF ContactUpdate
  <2>2. /\ DefaultInv' /\ AppliedIsTrue'
        /\ tpu_state' \in UpdateStates /\ client_id_state' \in UpdateStates
        /\ default_tpu' \in (Addrs \X Addrs) \cup {None}
        /\ agave_tpu' \in Readback
        /\ agave_client_id' \in {"BAM", "DEFAULT"}
    BY <2>1, <1>1, <1>t, <1>f, AdminStep
  <2>3. ~handoff_pending' /\ handoff_left' = 0 /\ link' = link
    BY <1>1, <1>f, <2>1 DEF AdminUpdate
  <2>4. HandoffInv'
    BY <2>3, <1>f DEF HandoffInv, ContactInv, gossip
  <2>5. handoff_left' \in 0..LINK_MAX
    BY <2>3, ContactConstants
  <2>6. TypeOK'
    BY <2>2, <2>3, <2>5, <1>f, <1>t, Zenon DEF TypeOK
  <2> QED
    BY <2>2, <2>4, <2>6 DEF ContactInv
<1>2. CASE needed /\ ~admin_rpc
  <2>1. GossipUpdate(use_bam)
    BY <1>0, <1>2 DEF ContactUpdate
  <2>2. /\ DefaultInv' /\ AppliedIsTrue'
        /\ tpu_state' \in UpdateStates /\ client_id_state' \in UpdateStates
        /\ link' \in Seq(Addrs) /\ Len(link') + unreported <= LINK_MAX
        /\ handoff_left' = IF use_bam THEN Len(link') + unreported ELSE 0
    BY <2>1, <1>2, <1>t, <1>f, GossipStep
  <2>3. handoff_pending' => use_bam
    BY <1>2, <1>f
  <2>4. HandoffInv'
    BY <2>2, <2>3, <1>f DEF HandoffInv, gossip
  <2>5. handoff_left' \in 0..LINK_MAX /\ Len(link') <= LINK_MAX
    BY <2>2, <1>t, ContactConstants DEF TypeOK
  <2>6. default_tpu' = default_tpu /\ agave_tpu' = agave_tpu
        /\ agave_client_id' = agave_client_id
    BY <2>1 DEF GossipUpdate, agave
  <2>7. TypeOK'
    BY <2>2, <2>5, <2>6, <1>f, <1>t, Zenon DEF TypeOK
  <2> QED
    BY <2>2, <2>4, <2>7 DEF ContactInv
<1>3. CASE ~needed
  <2>1. /\ tpu_state' = tpu_now
        /\ UNCHANGED <<client_id_state, default_tpu, handoff_left, link, agave>>
    BY <1>0, <1>3
  <2>2. DefaultInv'
    BY <2>1, <1>f, DefaultKept DEF ContactInv, agave
  <2>3. handoff_pending' => handoff_pending
    BY <1>3, <1>f DEF handing_off
  <2>4. HandoffInv'
    BY <2>1, <2>3, <1>f DEF ContactInv, HandoffInv, gossip
  <2>5. TrueOf(tpu_state, bam_tpu)' /\ IdTrue'
    BY <2>1, <1>f, AppliedSplit DEF ContactInv, TrueOf, Sent, IdTrue, agave, gossip
  <2>6. AppliedIsTrue'
    BY <2>5, AppliedSplit, PTL
  <2>7. agave_tpu' = agave_tpu /\ agave_client_id' = agave_client_id
    BY <2>1 DEF agave
  <2>8. TypeOK'
    BY <2>1, <2>7, <1>f, <1>t, Zenon DEF TypeOK
  <2> QED
    BY <2>2, <2>4, <2>6, <2>8 DEF ContactInv
<1> QED
  BY <1>1, <1>2, <1>3

\* Every call of fd_bam_publish_active_state, with what its caller stored.
LEMMA ActiveStateStep ==
  ASSUME ContactInv, admin_rpc' = admin_rpc,
         conn' \in {"down", "live", "healthy"},
         NEW active \in BOOLEAN, NEW tpu \in Contacts \cup {None},
         NEW shred \in BOOLEAN, NEW tpu_now \in UpdateStates,
         TrueOf(tpu_now, tpu),
         PublishActiveState(active, tpu, shred, tpu_now), TrackLoan
  PROVE  ContactInv'
<1>1. CASE BeginOwnershipGeneration
  BY <1>1, BeginStep
<1>2. CASE /\ bam_tpu' = tpu /\ shred_sock' = shred /\ tpu_state' = tpu_now
           /\ UNCHANGED <<owner, published_shred, default_tpu, client_id_state,
                          handoff, link, gossip, agave>>
  <2> USE <1>2 DEF ContactInv, owner, handoff, gossip, agave
  <2>1. TypeOK'
    BY LoanType DEF TypeOK
  <2>2. DefaultInv' /\ HandoffInv'
    BY DefaultKept DEF HandoffInv
  <2>3. TrueOf(tpu_state, bam_tpu)' /\ IdTrue'
    BY AppliedSplit DEF TrueOf, Sent, IdTrue
  <2>4. AppliedIsTrue'
    BY <2>3, AppliedSplit, PTL
  <2> QED
    BY <2>1, <2>2, <2>4
<1>3. CASE bam_tpu' = tpu /\ shred_sock' = shred /\ Publish(active, tpu_now)
  BY <1>3, PublishStep
<1> QED
  BY <1>1, <1>2, <1>3 DEF PublishActiveState

\* The gossip tile takes the updates in the order they were sent.
LEMMA GossipTileStep ==
  ASSUME ContactInv, GossipApply \/ GossipReport
  PROVE  ContactInv'
<1> USE DEF ContactInv
<1>t. /\ link \in Seq(Addrs) /\ unreported \in 0..LINK_MAX
      /\ handoff_left \in 0..LINK_MAX /\ LINK_MAX \in Nat
      /\ Len(link) + unreported <= LINK_MAX
      /\ handoff_pending => handoff_left = Len(link) + unreported
  BY ContactConstants DEF TypeOK, HandoffInv
<1>1. CASE GossipApply
  <2>1. /\ link' \in Seq(Addrs) /\ Len(link') = Len(link) - 1
        /\ unreported' = unreported + 1 /\ advert' = link[1] /\ link[1] \in Addrs
        /\ Len(link) >= 1
        /\ link' # <<>> => Len(link') >= 1 /\ link'[Len(link')] = link[Len(link)]
        /\ link' = <<>> => Len(link) = 1
    <3>1. link # <<>> /\ link' = Tail(link) /\ advert' = Head(link)
          /\ unreported' = unreported + 1
      BY <1>1 DEF GossipApply
    <3>2. Len(link) \in Nat /\ Len(link) >= 1 /\ Head(link) = link[1] /\ link[1] \in Addrs
      BY <1>t, <3>1
    <3>3. link' \in Seq(Addrs) /\ Len(link') = Len(link) - 1
      BY <1>t, <3>1
    <3>4. \A i \in 1..Len(link') : link'[i] = link[i + 1]
      BY <1>t, <3>1
    <3>5. link' = <<>> => Len(link) = 1
      <4>1. link' = <<>> => Len(link') = 0
        OBVIOUS
      <4> QED
        BY <4>1, <3>2, <3>3
    <3>6. link' # <<>> => Len(link') >= 1
      BY <3>3
    <3>7. link' # <<>> => link'[Len(link')] = link[Len(link)]
      <4> SUFFICES ASSUME link' # <<>> PROVE link'[Len(link')] = link[Len(link)]
        OBVIOUS
      <4>1. Len(link') \in 1..Len(link')
        BY <3>2, <3>3, <3>6
      <4>2. link'[Len(link')] = link[Len(link') + 1] /\ Len(link') + 1 = Len(link)
        BY <3>2, <3>3, <3>4, <4>1
      <4> QED
        BY <4>2
    <3> QED
      BY <3>1, <3>2, <3>3, <3>5, <3>6, <3>7
  <2>2. UNCHANGED <<admin_rpc, owner, config, published_shred, default_tpu, states,
                    handoff, agave, lent>>
    BY <1>1 DEF GossipApply
  <2>3. unreported' \in 0..LINK_MAX /\ Len(link') <= LINK_MAX /\ HandoffInv'
    BY <1>t, <2>1, <2>2 DEF HandoffInv, handoff
  <2>4. TypeOK'
    BY <2>1, <2>2, <2>3 DEF TypeOK, owner, config, states, handoff, agave
  <2>5. DefaultInv'
    BY <2>2 DEF DefaultInv, DefaultIsOwn, config, agave
  <2>6. \A pair : (Sent(pair) => IF admin_rpc THEN agave_tpu' = pair
                                ELSE IF link' = <<>> THEN advert' = pair[1]
                                ELSE link'[Len(link')] = pair[1])
    BY <1>t, <2>1, <2>2 DEF Sent, agave
  <2>7. AppliedIsTrue'
    BY <2>2, <2>6 DEF AppliedIsTrue, Sent, config, states, agave
  <2> QED
    BY <2>3, <2>4, <2>5, <2>7
<1>2. CASE GossipReport
  <2>1. /\ unreported' = 0
        /\ handoff_left' = IF handoff_left > unreported THEN handoff_left - unreported
                           ELSE 0
        /\ UNCHANGED <<admin_rpc, owner, config, published_shred, default_tpu, states,
                       handoff_pending, link, advert, agave, lent>>
    BY <1>2 DEF GossipReport, StillShort
  <2>2. handoff_left' \in 0..LINK_MAX /\ unreported' \in 0..LINK_MAX /\ HandoffInv'
    BY <1>t, <2>1 DEF HandoffInv
  <2>3. TypeOK'
    BY <2>1, <2>2 DEF TypeOK, owner, config, states, agave
  <2>4. DefaultInv' /\ AppliedIsTrue'
    BY <2>1 DEF DefaultInv, DefaultIsOwn, AppliedIsTrue, config, states, agave
  <2> QED
    BY <2>2, <2>3, <2>4
<1> QED
  BY <1>1, <1>2

\* Every step keeps the invariant.
LEMMA ContactStep == ContactInv /\ [Next]_vars => ContactInv'
<1> SUFFICES ASSUME ContactInv, [Next]_vars PROVE ContactInv'
  OBVIOUS
<1>0. TypeOK /\ TrueOf(tpu_state, bam_tpu)
  BY AppliedSplit DEF ContactInv
<1>1. CASE Refresh
  <2>1. PublishActiveState(conn = "healthy", bam_tpu, shred_sock, tpu_state)
    BY <1>1 DEF Refresh
  <2> QED
    BY <1>0, <1>1, <2>1, ActiveStateStep DEF Refresh, TypeOK
<1>2. ASSUME NEW c \in Contacts \cup {None}, NEW shred \in BOOLEAN,
             HandleConfig(c, shred)
      PROVE  ContactInv'
  <2> DEFINE tpu == IF c = None THEN bam_tpu ELSE c
  <2>1. tpu \in Contacts \cup {None} /\ TpuStateFor(c) \in UpdateStates
    BY <1>0 DEF TypeOK, TpuStateFor, UpdateStates
  <2>2. TrueOf(TpuStateFor(c), tpu)
    BY <1>0 DEF TpuStateFor, TrueOf
  <2>3. PublishActiveState(conn = "healthy", tpu, shred, TpuStateFor(c))
    BY <1>2 DEF HandleConfig
  <2>4. TrackLoan /\ admin_rpc' = admin_rpc /\ conn' \in {"down", "live", "healthy"}
    BY <1>0, <1>2 DEF HandleConfig, TypeOK
  <2> HIDE DEF tpu
  <2> QED
    BY <2>1, <2>2, <2>3, <2>4, ActiveStateStep
<1>3. CASE ClientReset
  <2>1. PublishActiveState(FALSE, bam_tpu, shred_sock, tpu_state)
    BY <1>3 DEF ClientReset
  <2>2. TrackLoan /\ admin_rpc' = admin_rpc /\ conn' \in {"down", "live", "healthy"}
    BY <1>3 DEF ClientReset
  <2> QED
    BY <1>0, <2>1, <2>2, ActiveStateStep, Zenon DEF TypeOK
<1>4. CASE OperatorReset
  BY <1>4, BeginStep DEF OperatorReset
<1>5. CASE GossipApply \/ GossipReport
  BY <1>5, GossipTileStep
<1>6. CASE ClientProgress \/ PackAck \/ BundleClaim \/ UNCHANGED vars
  <2>1. /\ bam_status' \in {"none", "active", "publishing"}
        /\ acked' \in BOOLEAN /\ conn' \in {"down", "live", "healthy"}
        /\ UNCHANGED <<admin_rpc, retired, bam_tpu, shred_sock, published_shred,
                       default_tpu, states, handoff, link, gossip, agave, lent>>
    BY <1>0, <1>6 DEF ClientProgress, PackAck, BundleClaim, vars, owner, config, TypeOK
  <2>2. TypeOK'
    BY <1>0, <2>1 DEF TypeOK, states, handoff, gossip, agave
  <2>3. DefaultInv' /\ HandoffInv' /\ AppliedIsTrue'
    BY <2>1 DEF ContactInv, DefaultInv, DefaultIsOwn, HandoffInv, AppliedIsTrue, states,
                handoff, gossip, agave
  <2> QED
    BY <2>2, <2>3 DEF ContactInv
<1>7. CASE AgaveLearns
  <2>1. /\ agave_tpu = <<Unset, Unset>> /\ agave_tpu' = <<Own, Own>>
        /\ UNCHANGED <<admin_rpc, owner, config, published_shred, default_tpu, states,
                       handoff, link, gossip, agave_client_id, lent>>
    BY <1>7 DEF AgaveLearns
  <2>2. TypeOK'
    <3>1. agave_tpu' \in Readback
      BY <2>1 DEF Readback, Addrs
    <3> QED
      BY <1>0, <2>1, <3>1 DEF TypeOK, owner, config, states, handoff, gossip
  <2>3. DefaultInv' /\ HandoffInv'
    BY <2>1 DEF ContactInv, DefaultInv, DefaultIsOwn, HandoffInv, handoff, gossip
  <2>4. admin_rpc => tpu_state \notin {"APPLIED_BAM", "APPLIED_DEFAULT"}
    <3>1. \A tpu \in Contacts \cup {None} : <<tpu, tpu>> # <<Unset, Unset>>
      BY ContactConstants DEF Addrs
    <3>2. default_tpu # <<Unset, Unset>>
      BY <1>0, ContactConstants DEF TypeOK, Readback
    <3> QED
      BY <1>0, <2>1, <3>1, <3>2 DEF TypeOK, TrueOf, Sent
  <2>5. AppliedIsTrue'
    BY <2>1, <2>4 DEF ContactInv, AppliedIsTrue, config, states, gossip
  <2> QED
    BY <2>2, <2>3, <2>5 DEF ContactInv
<1> QED
  BY <1>1, <1>2, <1>3, <1>4, <1>5, <1>6, <1>7 DEF Next

\* Ownership is given back only by fd_bam_publish_active_state, past its wait for
\* the restored contact.
LEMMA ReleaseStep ==
  ASSUME [Next]_vars, admin_rpc, bam_status = "active", bam_status' = "none"
  PROVE  tpu_state' = "APPLIED_DEFAULT" /\ client_id_state' = "APPLIED_DEFAULT"
<1>1. ASSUME NEW active, NEW tpu, NEW shred, NEW tpu_now,
             PublishActiveState(active, tpu, shred, tpu_now)
      PROVE  BothAre("APPLIED_DEFAULT")
  BY <1>1 DEF PublishActiveState, BeginOwnershipGeneration, Publish, Restored, owner
<1>2. ~(UNCHANGED vars) /\ ~OperatorReset /\ ~ClientProgress /\ ~PackAck
      /\ ~BundleClaim /\ ~GossipApply /\ ~GossipReport /\ ~AgaveLearns
  BY DEF vars, owner, OperatorReset, BeginOwnershipGeneration, ClientProgress, PackAck,
         BundleClaim, GossipApply, GossipReport, AgaveLearns
<1>3. \/ Refresh \/ ClientReset
      \/ \E c \in Contacts \cup {None}, shred \in BOOLEAN : HandleConfig(c, shred)
  BY <1>2 DEF Next
<1>4. BothAre("APPLIED_DEFAULT")
  BY <1>1, <1>3 DEF Refresh, ClientReset, HandleConfig
<1> QED
  BY <1>4 DEF BothAre

\* Ownership is taken with a contact only when that contact is applied and, in
\* full Firedancer, the hand-off that was pending has nothing left to wait for.
LEMMA TakeoverStep ==
  ASSUME ContactInv, [Next]_vars,
         bam_status # "active", bam_status' = "active", bam_tpu' # None
  PROVE  /\ tpu_state' = "APPLIED_BAM" /\ client_id_state' = "APPLIED_BAM"
         /\ ~admin_rpc => handoff_pending /\ handoff_left = 0 /\ link' = link
<1>t. /\ Len(link) \in Nat /\ unreported \in Nat
  BY DEF ContactInv, TypeOK
<1>1. ASSUME NEW active \in BOOLEAN, NEW tpu, NEW shred, NEW tpu_now,
             PublishActiveState(active, tpu, shred, tpu_now)
      PROVE  /\ tpu_state' = "APPLIED_BAM" /\ client_id_state' = "APPLIED_BAM"
             /\ ~admin_rpc => handoff_pending /\ handoff_left = 0 /\ link' = link
  <2>1. Publish(active, tpu_now)
    BY <1>1 DEF PublishActiveState, BeginOwnershipGeneration, owner
  <2> DEFINE use_bam     == active /\ bam_tpu' # None
             handing_off == active /\ handoff_pending
             needed      == UpdateNeeded(active, use_bam, tpu_now, handing_off)
             sent        == IF needed THEN use_bam /\ ~admin_rpc ELSE handing_off
  <2>2. active /\ use_bam
    BY <2>1 DEF Publish
  <2>3. /\ ContactApplied /\ SeenByGossip(sent)
        /\ IF needed THEN ContactUpdate(use_bam, tpu_now)
           ELSE UNCHANGED <<handoff_left, link>>
    <3> HIDE DEF needed, sent
    <3> QED
      BY <2>1, <2>2 DEF Publish, needed, sent
  <2>4. ~needed => handing_off
    BY <2>2 DEF UpdateNeeded
  <2>5. CASE admin_rpc
    BY <2>3, <2>5 DEF ContactApplied, BothAre
  <2>6. CASE ~admin_rpc
    <3>1. sent
      <4> HIDE DEF needed
      <4> QED
        BY <2>2, <2>4, <2>6
    <3>2. handoff_left' = 0
      BY <2>3, <3>1 DEF SeenByGossip
    <3>3. ~needed
      <4> SUFFICES ASSUME needed PROVE FALSE
        OBVIOUS
      <4>0. GossipUpdate(use_bam)
        <5> HIDE DEF needed
        <5> QED
          BY <2>3, <2>6 DEF ContactUpdate
      <4>1. handoff_left' = Len(link) + unreported + 1
        BY <4>0, <2>2, <1>t DEF GossipUpdate
      <4> QED
        BY <4>1, <3>2, <1>t
    <3> QED
      BY <2>3, <2>4, <3>2, <3>3 DEF ContactApplied, BothAre
  <2> QED
    BY <2>5, <2>6
<1>2. ~(UNCHANGED vars) /\ ~OperatorReset /\ ~ClientProgress /\ ~PackAck
      /\ ~BundleClaim /\ ~GossipApply /\ ~GossipReport /\ ~AgaveLearns
  BY DEF vars, owner, OperatorReset, BeginOwnershipGeneration, ClientProgress, PackAck,
         BundleClaim, GossipApply, GossipReport, AgaveLearns
<1>3. \/ Refresh \/ ClientReset
      \/ \E c \in Contacts \cup {None}, shred \in BOOLEAN : HandleConfig(c, shred)
  BY <1>2 DEF Next
<1> QED
  BY <1>1, <1>3 DEF Refresh, ClientReset, HandleConfig

\* The inductive invariant of the contact protocol.
THEOREM ContactInvariant == Spec => []ContactInv
BY ContactInit, ContactStep, PTL DEF Spec

\* The update states and the link to gossip keep their types and bounds.
THEOREM ContactTyped == Spec => []TypeOK
<1>1. ContactInv => TypeOK
  BY DEF ContactInv
<1> QED
  BY <1>1, ContactInvariant, PTL

\* An APPLIED update state is true of the address that was sent last and of
\* Agave's client id, for any contacts and any length of the link to gossip.
THEOREM AppliedThm == Spec => []AppliedIsTrue
<1>1. ContactInv => AppliedIsTrue
  BY DEF ContactInv
<1> QED
  BY <1>1, ContactInvariant, PTL

\* fd_bam_gossip_update caches a scheduler's address as the default only if Agave
\* was given it before its own was known and the tile has forgotten it since.
THEOREM DefaultThm == Spec => []DefaultIsOwn
<1>1. ContactInv => DefaultIsOwn
  BY DEF ContactInv, DefaultInv
<1> QED
  BY <1>1, ContactInvariant, PTL

\* fd_bam_publish_active_state takes ownership with a contact only when peers see
\* that contact.
THEOREM TakeoverThm == Spec => TakeoverIsAdvertised
<1>1. ContactInv /\ ContactInv' /\ [Next]_vars =>
        [bam_status # "active" /\ bam_status' = "active" /\ bam_tpu' # None
           => Advertises(bam_tpu, "BAM")']_vars
  <2> SUFFICES ASSUME ContactInv, ContactInv', [Next]_vars,
                      bam_status # "active", bam_status' = "active", bam_tpu' # None
               PROVE  Advertises(bam_tpu, "BAM")'
    OBVIOUS
  <2>1. /\ tpu_state' = "APPLIED_BAM" /\ client_id_state' = "APPLIED_BAM"
        /\ ~admin_rpc => handoff_pending /\ handoff_left = 0 /\ link' = link
    BY TakeoverStep
  <2>2. AppliedIsTrue' /\ admin_rpc' = admin_rpc
    BY DEF ContactInv, Next, Refresh, ClientReset, HandleConfig, OperatorReset,
           ClientProgress, PackAck, BundleClaim, GossipApply, GossipReport,
           AgaveLearns, vars
  <2>3. ~admin_rpc => link' = <<>>
    <3>1. link \in Seq(Addrs) /\ unreported \in Nat
      BY DEF ContactInv, TypeOK
    <3>2. ~admin_rpc => Len(link) + unreported = 0
      BY <2>1 DEF ContactInv, HandoffInv
    <3>3. ~admin_rpc => Len(link) = 0
      BY <3>1, <3>2
    <3> QED
      BY <2>1, <3>1, <3>3
  <2> QED
    BY <2>1, <2>2, <2>3 DEF Advertises, AppliedIsTrue, ClientId
<1> QED
  BY <1>1, ContactInvariant, PTL DEF Spec, TakeoverIsAdvertised

\* In Frankendancer fd_bam_publish_active_state gives ownership back only when
\* Agave advertises the cached default and the validator's own client id.
THEOREM RestoredThm == Spec => ReleaseIsRestored
<1>1. ContactInv' /\ [Next]_vars =>
        [admin_rpc /\ bam_status = "active" /\ bam_status' = "none"
           => (agave_tpu = default_tpu /\ agave_client_id = "DEFAULT")']_vars
  <2> SUFFICES ASSUME ContactInv', [Next]_vars, admin_rpc, bam_status = "active",
                      bam_status' = "none"
               PROVE  (agave_tpu = default_tpu /\ agave_client_id = "DEFAULT")'
    OBVIOUS
  <2>1. tpu_state' = "APPLIED_DEFAULT" /\ client_id_state' = "APPLIED_DEFAULT"
    BY ReleaseStep
  <2>2. AppliedIsTrue' /\ admin_rpc' = admin_rpc
    BY DEF ContactInv, Next, Refresh, ClientReset, HandleConfig, OperatorReset,
           ClientProgress, PackAck, BundleClaim, GossipApply, GossipReport,
           AgaveLearns, vars
  <2> QED
    BY <2>1, <2>2 DEF AppliedIsTrue, ClientId
<1> QED
  BY <1>1, ContactInvariant, PTL DEF Spec, ReleaseIsRestored
=============================================================================

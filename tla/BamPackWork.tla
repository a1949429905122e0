---------------------------- MODULE BamPackWork ----------------------------
(***************************************************************************)
(* What becomes of a batch in the pack tile: assembly from its members,    *)
(* admission, the pending work record beside fd_pack's bundle, eviction,   *)
(* scheduling, and the queue of results on their way back to the BAM tile. *)
(*                                                                         *)
(* The tile's stem runs after_credit and then at most one fragment, and so *)
(* on; pc says where it is.  Only the BAM tile's word and the cluster's    *)
(* slot move in between.  An item is one dispatch of a batch, with a name  *)
(* that is used again once nothing holds it: the scheduler may send the    *)
(* same batch again.  Work records are sets: the array, the                *)
(* swap-removals and the signature index of the code only find members.    *)
(* Results are counted, not told apart by reason.                          *)
(*                                                                         *)
(* fd_pack is external: pool is the set of BAM bundles it holds.  It drops *)
(* one when it expires, when a member lands, or to make room for another   *)
(* bundle.  The initializer bundle appears only as an insertion that makes *)
(* it drop some.                                                           *)
(***************************************************************************)
EXTENDS Integers, Sequences, FiniteSets

CONSTANTS
  Names,          \* names of dispatches that can be under way at once
  Batches,        \* what the scheduler can dispatch: one per sequence id
  Txns,           \* transactions, by signature
  Members,        \* the transactions of each batch, in order
  Target,         \* max_schedule_slot of each batch
  Hash,           \* the slot of each batch's oldest blockhash
  None,           \* no item, no fragment
  Other,          \* a fragment that is not BAM's
  WORK_MAX,       \* bam_work_max: at most 8192
  LIFETIME,       \* TRANSACTION_LIFETIME_SLOTS: 160
  RESOLV_LIFETIME,\* the resolver's limit: 151
  SLOT_MAX, GEN_MAX   \* bounds of the instance

ASSUME PackConstants ==
  /\ Members \in [Batches -> Seq(Txns)]
  /\ \A b \in Batches : Len(Members[b]) > 0
  /\ Target \in [Batches -> Nat] /\ Hash \in [Batches -> Nat]
  /\ WORK_MAX \in Nat /\ WORK_MAX > 0
  /\ LIFETIME \in Nat /\ RESOLV_LIFETIME \in Nat
  /\ SLOT_MAX \in Nat /\ GEN_MAX \in Nat \ {0}

Gens  == 1..GEN_MAX
Items == [n : Names, batch : Batches, gen : Gens]

Lines      == [item : Items, next : Nat]
Assemblies == [item : Items, received : Nat, open : BOOLEAN, expired : BOOLEAN]
Frags      == [item : Items, idx : Nat, failed : BOOLEAN, expired : BOOLEAN]

ASSUME PackTokens ==
  /\ None \notin Lines \cup Assemblies \cup Frags
  /\ Other \notin Frags /\ Other # None

\* enqueue_bam_result's result_queue_cap.
QUEUE_CAP == 2 * WORK_MAX

VARIABLES
  pc,             \* where the stem is in its loop
  slot,           \* the cluster's slot, as PoH and the resolver see it
  own_gen,        \* shared: the ownership generation the BAM tile asks for
  line,           \* the batch under way to pack: its item and next member
  frag,           \* the fragment in hand
  pack_gen,       \* bam_ownership_gen
  leader,         \* leader_slot, 0 when not leader
  min_admission,  \* bam_min_admission_slot
  observed,       \* highest_observed_slot
  check_slot,     \* bam_pending_check_slot
  current,        \* current_bundle and current_bundle_bam while is_bam
  pool,           \* fd_pack's BAM bundles
  pending,        \* bam_work in state PENDING
  scheduled,      \* bam_work in state SCHEDULED
  live,           \* the signatures a scheduled record still waits for
  result_cnt,     \* bam_pending_result_cnt
  owed,           \* history: dispatches that pack has neither answered, nor
                  \* scheduled, nor been told to drop
  displaced       \* history: dispatches whose assembly gave way to a bundle of
                  \* the Block Engine

outside   == <<slot, own_gen, displaced>>
slots     == <<leader, min_admission, observed, check_slot>>
work      == <<current, pool, pending>>
done      == <<scheduled, live>>
queue     == <<result_cnt, owed>>
vars      == <<pc, outside, line, frag, pack_gen, slots, work, done, queue>>

\* Every variable keeps its shape: in particular the count of queued results
\* neither falls below 0 nor exceeds the queue's capacity.
TypeOK ==
  /\ pc \in {"credit", "sched", "limit", "poll", "lead", "member", "evict", "insert"}
  /\ slot \in Nat /\ own_gen \in Gens /\ pack_gen \in Gens
  /\ line \in Lines \cup {None}
  /\ frag \in Frags \cup {None, Other}
  /\ leader \in Nat /\ min_admission \in Nat /\ observed \in Nat /\ check_slot \in Nat
  /\ current \in Assemblies \cup {None}
  /\ pool \subseteq Items /\ pending \subseteq Items /\ scheduled \subseteq Items
  /\ live \in [Names -> SUBSET Txns]
  /\ result_cnt \in 0..QUEUE_CAP
  /\ owed \subseteq Names /\ displaced \subseteq Names

Init ==
  /\ pc = "credit"
  /\ slot = 1 /\ own_gen = 1
  /\ line = None /\ frag = None /\ pack_gen = 1
  /\ leader = 0 /\ min_admission = 0 /\ observed = 0 /\ check_slot = 0
  /\ current = None /\ pool = {} /\ pending = {} /\ scheduled = {}
  /\ live = [n \in Names |-> {}]
  /\ result_cnt = 0 /\ owed = {} /\ displaced = {}

(***************************************************************************)
(* Around the tile.                                                        *)
(***************************************************************************)

Larger(a, b) == IF a > b THEN a ELSE b

Smaller(a, b) == IF a < b THEN a ELSE b

NamesOf(S) == {i.n : i \in S}

Tick ==
  /\ slot < SLOT_MAX
  /\ slot' = slot + 1
  /\ UNCHANGED <<pc, own_gen, displaced, line, frag, pack_gen, slots, work, done, queue>>

\* The BAM tile publishes a batch, stamped with its ownership generation.  Its
\* members keep their order through verify, dedup and resolv.
Dispatch(b, n) ==
  /\ line = None /\ Hash[b] <= slot
  /\ n \notin owed \cup NamesOf(scheduled) \cup displaced
  /\ line' = [item |-> [n |-> n, batch |-> b, gen |-> own_gen], next |-> 0]
  /\ owed' = owed \cup {n}
  /\ UNCHANGED <<pc, outside, frag, pack_gen, slots, work, done, result_cnt>>

\* fd_bam_tile_begin_ownership_generation.
BeginGeneration ==
  /\ own_gen < GEN_MAX
  /\ own_gen' = own_gen + 1
  /\ UNCHANGED <<pc, slot, displaced, line, frag, pack_gen, slots, work, done, queue>>

(***************************************************************************)
(* Results.                                                                *)
(***************************************************************************)

\* pack_tile_enqueue_bam_result for each of the items S, while the items quiet
\* need no result: at the cap, a result is dropped.
EnqueueAnd(S, quiet) ==
  \E kept \in SUBSET S :
    /\ Cardinality(kept) = Smaller(Cardinality(S), QUEUE_CAP - result_cnt)
    /\ result_cnt' = result_cnt + Cardinality(kept)
    /\ owed' = owed \ NamesOf(kept \cup quiet)

Enqueue(S) == EnqueueAnd(S, {})

\* Mutant: a result is only published while no batch is pending.
DrainWhenIdle == result_cnt' = IF result_cnt > 0 /\ pending = {} THEN result_cnt - 1
                                                               ELSE result_cnt

\* pack_tile_drain_one_pending_bam_result: one per after_credit.
DrainOne == result_cnt' = IF result_cnt > 0 THEN result_cnt - 1 ELSE result_cnt

Assembling == IF current = None THEN {} ELSE {current.item}

StaleAssembly == current # None /\ current.item.gen # own_gen

\* pack_tile_sync_bam_ownership_generation.
Sync ==
  IF own_gen = pack_gen
  THEN UNCHANGED <<pack_gen, work, owed>>
  ELSE /\ pack_gen' = own_gen
       /\ current' = IF StaleAssembly THEN None ELSE current
       /\ pool' = pool \ pending
       /\ pending' = {}
       /\ owed' = owed \ NamesOf({i \in pending \cup Assembling : i.gen # own_gen})

\* The top of after_credit.
AfterCredit ==
  /\ pc = "credit"
  /\ Sync
  /\ DrainOne
  /\ pc' = "sched"
  /\ UNCHANGED <<outside, line, frag, slots, done>>

(***************************************************************************)
(* Validity of pending work.                                               *)
(***************************************************************************)

BlockhashExpired(b, now) == Hash[b] + LIFETIME < now

\* Mutant: a batch for the slot that has just ended is still good.
InvalidIgnoringFloor(b, now, min) ==
  IF now = 0 THEN Target[b] < Hash[b]
  ELSE BlockhashExpired(b, now) \/ Target[b] < Larger(now, Hash[b]) - 1

\* pack_tile_bam_admission_invalid_reason; now is 0 while no slot is known.
AdmissionInvalid(b, now, min) ==
  IF now = 0 THEN Target[b] < Larger(Hash[b], min)
  ELSE BlockhashExpired(b, now) \/ Target[b] < Larger(now, Larger(Hash[b], min))

\* pack_tile_bam_best_known_slot.
BestKnownSlot == IF leader # 0 THEN leader ELSE observed

\* pack_tile_evict_invalid_pending_bam_work.
EvictInvalidPending(now, min) ==
  LET bad == {i \in pending : AdmissionInvalid(i.batch, now, min)}
  IN  /\ pending' = pending \ bad
      /\ pool' = pool \ bad
      /\ Enqueue(bad)

\* fd_pack_expire_before (external): bundles older than the lifetime go.
Unexpired(now) == {i \in pool : ~BlockhashExpired(i.batch, now)}

\* An insertion makes fd_pack drop bundles; bundle_evicted_cnt has moved and
\* pack_tile_maybe_reconcile_pending_bam_work retires their records.
Reconcile(evicted) ==
  /\ pool' = pool \ evicted
  /\ pending' = pending \ evicted
  /\ Enqueue(pending \cap evicted)

(***************************************************************************)
(* The rest of after_credit.                                               *)
(***************************************************************************)

\* pack_tile_finish_leader_slot.  Of a batch in assembly only its identity and
\* count are kept: its last member decides the result.
FinishLeaderSlot ==
  /\ leader # 0
  /\ min_admission' = Larger(min_admission, leader + 1)
  /\ EvictInvalidPending(leader + 1, Larger(min_admission, leader + 1))
  /\ current' = IF current = None THEN None ELSE [current EXCEPT !.open = FALSE]
  /\ leader' = 0

\* The slot's time is up, or its last microblock has been scheduled.
SlotEnds ==
  /\ pc \in {"sched", "limit"}
  /\ FinishLeaderSlot
  /\ pc' = "poll"
  /\ UNCHANGED <<outside, line, frag, pack_gen, observed, check_slot, done>>

\* Nothing (more) to schedule: skip_cnt, draining, not leader, nothing ready.
GoOn ==
  /\ pc \in {"sched", "limit"}
  /\ pc' = "poll"
  /\ UNCHANGED <<outside, line, frag, pack_gen, slots, work, done, queue>>

\* An initializer bundle or a transaction from the extra storage goes in.
InsertInitializer ==
  /\ pc = "sched"
  /\ \E evicted \in SUBSET pool : Reconcile(evicted)
  /\ pc' = "limit"
  /\ UNCHANGED <<outside, line, frag, pack_gen, slots, current, done>>

\* pack_tile_bam_candidate_ready for a bundle of fd_pack: it has a pending
\* record of its own and its target is the leader slot.
CandidateReady(i) == i \in pending /\ Target[i.batch] = leader

\* A microblock with a batch goes to an execution tile, and
\* pack_tile_bam_work_mark_scheduled.
Schedule(i) ==
  /\ pc = "sched" /\ leader # 0
  /\ i \in pool /\ CandidateReady(i)
  /\ pool' = pool \ {i}
  /\ pending' = pending \ {i}
  /\ scheduled' = scheduled \cup {i}
  /\ live' = [live EXCEPT ![i.n] = {Members[i.batch][k] : k \in DOMAIN Members[i.batch]}]
  /\ owed' = owed \ {i.n}
  /\ pc' = "limit"
  /\ UNCHANGED <<outside, line, frag, pack_gen, slots, current, result_cnt>>

(***************************************************************************)
(* Fragments from replay, PoH and the execution tiles.                     *)
(***************************************************************************)

NoFrag ==
  /\ pc = "poll"
  /\ pc' = "credit"
  /\ UNCHANGED <<outside, line, frag, pack_gen, slots, work, done, queue>>

\* REPLAY_SIG_RESET while leader.
Reset ==
  /\ pc = "poll"
  /\ FinishLeaderSlot
  /\ pc' = "credit"
  /\ UNCHANGED <<outside, line, frag, pack_gen, observed, check_slot, done>>

\* BECAME_LEADER: an unfinished slot is ended first ...
BecameLeader ==
  /\ pc = "poll"
  /\ IF leader # 0 THEN FinishLeaderSlot
                   ELSE UNCHANGED <<leader, min_admission, work, queue>>
  /\ pc' = "lead"
  /\ UNCHANGED <<outside, line, frag, pack_gen, observed, check_slot, done>>

\* ... then pending work is checked against the new one, scheduled records of
\* older slots are forgotten and fd_pack is expired.
Lead ==
  /\ pc = "lead"
  /\ leader' = slot
  /\ LET bad == {i \in pending : AdmissionInvalid(i.batch, slot, min_admission)}
     IN  /\ pending' = pending \ bad
         /\ pool' = Unexpired(slot) \ bad
         /\ Enqueue(bad)
  /\ scheduled' = {i \in scheduled : Target[i.batch] >= slot}
  /\ pc' = "credit"
  /\ UNCHANGED <<outside, line, frag, pack_gen, min_admission, observed, check_slot,
                 current, live>>

Contains(i, t) == \E k \in DOMAIN Members[i.batch] : Members[i.batch][k] = t

\* Mutant: only a batch led by the landed transaction is retired.
RetireLeading(t) == {i \in pending : Members[i.batch][1] = t}

\* Pending records that pack_tile_retire_all_pending_bam_work_by_sig finds.
WithSignature(t) == {i \in pending : Contains(i, t)}

\* fd_pack_delete_transaction, and the records of the bundles it took along.
Landed(t) ==
  /\ pool' = {i \in pool : ~Contains(i, t)}
  /\ \E deleted \in {\E i \in pool : Contains(i, t), TRUE} :
       LET hit == IF deleted THEN WithSignature(t) ELSE {}
       IN  pending' = pending \ hit /\ Enqueue(hit)

\* REPLAY_SIG_TXN_EXECUTED: the transaction is in someone's block.
Replayed(t) ==
  /\ pc = "poll"
  /\ Landed(t)
  /\ pc' = "credit"
  /\ UNCHANGED <<outside, line, frag, pack_gen, slots, current, done>>

\* EXECUTED_TXN for a member of a scheduled record, or any landed transaction.
Executed(t, landed) ==
  /\ pc = "poll"
  /\ LET waiting == {i \in scheduled : t \in live[i.n]}
     IN  \/ /\ waiting = {} /\ landed
            /\ UNCHANGED done
         \/ \E i \in waiting :
              /\ live' = [live EXCEPT ![i.n] = @ \ {t}]
              /\ scheduled' = IF live[i.n] = {t} THEN scheduled \ {i} ELSE scheduled
  /\ IF landed THEN Landed(t) ELSE UNCHANGED <<pool, pending, queue>>
  /\ pc' = "credit"
  /\ UNCHANGED <<outside, line, frag, pack_gen, slots, current>>

(***************************************************************************)
(* Fragments from the resolver.                                            *)
(***************************************************************************)

\* The next member of a batch.  Verify, dedup and resolv flag a member that
\* fails and drop the members after it; the resolver flags an old blockhash.
\* The ownership generation is synchronised before anything else.
ReceiveMember(failed) ==
  /\ pc = "poll" /\ line # None
  /\ Sync
  /\ frag' = [item |-> line.item, idx |-> line.next, failed |-> failed,
              expired |-> Hash[line.item.batch] + RESOLV_LIFETIME < slot]
  /\ line' = IF failed \/ line.next + 1 = Len(Members[line.item.batch])
             THEN None ELSE [line EXCEPT !.next = @ + 1]
  /\ pc' = "member"
  /\ UNCHANGED <<outside, slots, done, result_cnt>>

\* A reference slot above the highest seen, while not leader, expires fd_pack
\* and has pending work checked in after_frag.
Observe(sig) ==
  IF leader = 0 /\ sig > observed
  THEN observed' = sig /\ check_slot' = sig /\ pool' = Unexpired(sig)
  ELSE UNCHANGED <<observed, check_slot, pool>>

\* A member of a Block Engine bundle, the override being off.  It takes the place
\* of the batch in assembly, which gets a result unless its slot has ended: then
\* its identity is overwritten.
ReceiveBundle(sig) ==
  /\ pc = "poll"
  /\ Observe(sig)
  /\ Enqueue({i \in Assembling : current.open})
  /\ displaced' = displaced \cup NamesOf(Assembling)
  /\ current' = None
  /\ frag' = Other
  /\ pc' = "evict"
  /\ UNCHANGED <<slot, own_gen, line, pack_gen, leader, min_admission, pending, done>>

\* Any other transaction, or a bundle under the override; sig is its reference
\* slot.
ReceiveOther(sig) ==
  /\ pc = "poll"
  /\ Observe(sig)
  /\ frag' = Other
  /\ pc' = "evict"
  /\ UNCHANGED <<outside, line, pack_gen, leader, min_admission, current, pending, done,
                 queue>>

\* during_frag for a BAM member, after the synchronisation: dropped when its
\* generation is over, ...
StaleMember ==
  /\ pc = "member" /\ frag.item.gen # pack_gen
  /\ owed' = IF frag.idx = 0 THEN owed \ {frag.item.n} ELSE owed
  /\ frag' = None
  /\ pc' = "evict"
  /\ UNCHANGED <<outside, line, pack_gen, slots, work, done, result_cnt>>

\* ... a result when it failed, which also ends the assembly under way, ...
FailedMember ==
  /\ pc = "member" /\ frag.item.gen = pack_gen /\ frag.failed
  /\ Enqueue(Assembling \cup {frag.item})
  /\ current' = None
  /\ frag' = None
  /\ pc' = "evict"
  /\ UNCHANGED <<outside, line, pack_gen, slots, pool, pending, done>>

\* ... the start of an assembly, abandoning an unfinished one, ...
FirstMember ==
  /\ pc = "member" /\ frag.item.gen = pack_gen /\ ~frag.failed
  /\ frag.idx = 0
  /\ Observe(Hash[frag.item.batch])
  /\ Enqueue(Assembling)
  /\ current' = [item |-> frag.item, received |-> 0, open |-> TRUE, expired |-> frag.expired]
  /\ pc' = "evict"
  /\ UNCHANGED <<outside, line, frag, pack_gen, leader, min_admission, pending, done>>

\* ... or the next of the assembly; without one it is dropped.
NextMember ==
  /\ pc = "member" /\ frag.item.gen = pack_gen /\ ~frag.failed
  /\ frag.idx > 0
  /\ Observe(Hash[frag.item.batch])
  /\ IF current # None /\ current.item = frag.item /\ current.received = frag.idx
     THEN current' = [current EXCEPT !.expired = @ \/ frag.expired] /\ UNCHANGED frag
     ELSE frag' = None /\ UNCHANGED current
  /\ pc' = "evict"
  /\ UNCHANGED <<outside, line, pack_gen, leader, min_admission, pending, done, queue>>

\* The top of after_frag's IN_KIND_RESOLV case.
CheckPending ==
  /\ pc = "evict"
  /\ IF leader = 0 /\ check_slot # 0
     THEN EvictInvalidPending(check_slot, min_admission) /\ check_slot' = 0
     ELSE UNCHANGED <<check_slot, pool, pending, queue>>
  /\ pc' = "insert"
  /\ UNCHANGED <<outside, line, frag, pack_gen, leader, min_admission, observed, current,
                 done>>

\* Nothing to insert, or another bundle that may make fd_pack drop some.
InsertOther ==
  /\ pc = "insert" /\ frag \in {None, Other}
  /\ \E evicted \in IF frag = Other THEN SUBSET pool ELSE {{}} : Reconcile(evicted)
  /\ frag' = None
  /\ pc' = "credit"
  /\ UNCHANGED <<outside, line, pack_gen, slots, current, done>>

Complete == current.received + 1 = Len(Members[current.item.batch])

\* A member that does not complete its batch is counted.
CountMember ==
  /\ pc = "insert" /\ frag \notin {None, Other} /\ ~Complete
  /\ current' = [current EXCEPT !.received = @ + 1]
  /\ frag' = None
  /\ pc' = "credit"
  /\ UNCHANGED <<outside, line, pack_gen, slots, pool, pending, done, queue>>

Sig0(i) == Members[i.batch][1]

\* Mutant: records of scheduled work are not looked at.
TakenByPending(i) ==
  {j \in pending : Sig0(j) = Sig0(i) /\ \E k \in pool : Sig0(k) = Sig0(i)}

\* Records led by the same transaction: scheduled and still waiting for it, or
\* pending while fd_pack holds a BAM bundle that it leads.
Duplicates(i) ==
  {j \in scheduled : Sig0(j) = Sig0(i) /\ Sig0(i) \in live[j.n]}
    \cup {j \in pending : Sig0(j) = Sig0(i) /\ \E k \in pool : Sig0(k) = Sig0(i)}

\* Mutant: a pending duplicate of any sequence is replaced.
ReplacesAny(j, i) == j \in pending

\* The scheduler sent the same batch again.
Replaces(j, i) == j \in pending /\ j.batch = i.batch

\* pack_tile_append_bam_work returns 0.
NoRoom(rest, lost) ==
  \/ Cardinality(rest) + Cardinality(scheduled) >= WORK_MAX
  \/ result_cnt + Cardinality(lost) + Cardinality(rest) + 1 >= QUEUE_CAP

\* The last member of a batch whose slot ended during assembly, or whose
\* blockhash or target is no longer good, or which duplicates another record.
Reject ==
  /\ pc = "insert" /\ frag \notin {None, Other} /\ Complete
  /\ LET i == current.item
     IN  \/ ~current.open
         \/ current.expired
         \/ AdmissionInvalid(i.batch, BestKnownSlot, min_admission)
         \/ \E j \in Duplicates(i) : ~Replaces(j, i)
  /\ Enqueue({current.item})
  /\ current' = None
  /\ frag' = None
  /\ pc' = "credit"
  /\ UNCHANGED <<outside, line, pack_gen, slots, pool, pending, done>>

\* The last member otherwise.  An earlier dispatch of the same batch is replaced.
\* fd_pack takes the bundle or not, dropping others for it; without room for a
\* record it is deleted again (pack_tile_publish_bam_tracking_reject).
Admit(evicted, taken) ==
  /\ pc = "insert" /\ frag \notin {None, Other} /\ Complete
  /\ LET i    == current.item
         old  == Duplicates(i)
         rest == pending \ (old \cup evicted)
         lost == (pending \cap evicted) \ old
         keep == taken /\ ~NoRoom(rest, lost)
     IN  /\ current.open /\ ~current.expired
         /\ ~AdmissionInvalid(i.batch, BestKnownSlot, min_admission)
         /\ \A j \in old : Replaces(j, i)
         /\ pool' = (pool \ (old \cup evicted)) \cup IF keep THEN {i} ELSE {}
         /\ pending' = rest \cup IF keep THEN {i} ELSE {}
         /\ EnqueueAnd(lost \cup IF keep THEN {} ELSE {i}, {j \in old : j.batch = i.batch})
  /\ current' = None
  /\ frag' = None
  /\ pc' = "credit"
  /\ UNCHANGED <<outside, line, pack_gen, slots, done>>

Next ==
  \/ Tick
  \/ \E b \in Batches, n \in Names : Dispatch(b, n)
  \/ BeginGeneration
  \/ AfterCredit
  \/ SlotEnds
  \/ GoOn
  \/ InsertInitializer
  \/ \E i \in pool : Schedule(i)
  \/ NoFrag
  \/ Reset
  \/ BecameLeader
  \/ Lead
  \/ \E t \in Txns : Replayed(t)
  \/ \E t \in Txns, landed \in BOOLEAN : Executed(t, landed)
  \/ \E failed \in BOOLEAN : ReceiveMember(failed)
  \/ \E sig \in 0..slot : ReceiveBundle(sig)
  \/ \E sig \in 0..slot : ReceiveOther(sig)
  \/ StaleMember
  \/ FailedMember
  \/ FirstMember
  \/ NextMember
  \/ CheckPending
  \/ InsertOther
  \/ CountMember
  \/ Reject
  \/ \E evicted \in SUBSET pool, taken \in BOOLEAN : Admit(evicted, taken)

Spec == Init /\ [][Next]_vars

(***************************************************************************)
(* Properties.                                                             *)
(***************************************************************************)

Count(P) == IF P THEN 1 ELSE 0

OnTheWay(n) ==
  \/ line # None /\ line.item.n = n /\ line.next = 0
  \/ pc = "member" /\ frag.item.n = n /\ frag.idx = 0

\* A dispatch is owed an end as long as it is in exactly one place: on its way,
\* in assembly, or pending; afterwards it is in none.  No batch falls silent,
\* none is answered twice, and none is answered by pack and executed too.  Of a
\* batch that a Block Engine bundle displaced only the last is promised: it is in
\* no place any more, but may go unanswered, or be answered again when a later
\* member comes in flagged.
Accounted ==
  \A n \in Names :
    LET places == Count(OnTheWay(n)) + Count(n \in NamesOf(Assembling))
                    + Count(n \in NamesOf(pending))
    IN  places = IF n \in displaced THEN 0 ELSE Count(n \in owed)

\* The queue of results never fills: with what may still become a result it
\* stays one above the work table's size, below the cap of twice that size, so
\* that pack_tile_enqueue_bam_result never drops one.
QueueBounded ==
  result_cnt + Cardinality(pending) + Cardinality(Assembling) <= WORK_MAX + 1

\* Pending records and fd_pack's BAM bundles are the same items whenever a
\* fragment or after_credit begins, and when a duplicate is looked for: every
\* bundle fd_pack drops by itself (expiry, room, a landed member) has its record
\* retired before the record is used.
RecordsMatchPool == pc # "evict" => pool = pending

\* Two records are never led by the same transaction while both wait for it, so
\* pack_tile_bam_work_find_by_sig0_state has one answer.
OneRecordPerTransaction ==
  \A i, j \in pending \cup {k \in scheduled : Sig0(k) \in live[k.n]} :
    Sig0(i) = Sig0(j) => i = j

\* A batch is dispatched to execution only while its blockhash is alive and its
\* target slot has not been closed before.
NeverForClosedSlot ==
  [][\A i \in scheduled' \ scheduled :
       min_admission <= leader /\ ~BlockhashExpired(i.batch, leader)]_vars
=============================================================================

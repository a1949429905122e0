----------------------------- MODULE BamResults -----------------------------
(***************************************************************************)
(* Batches and results in the BAM tile: a scheduler message is decoded and *)
(* its batches are rejected or queued for the pipeline, and every result,  *)
(* the tile's own and those of pack, execle and PoH, waits in a ring until *)
(* a scheduler stream accepts it.                                          *)
(*                                                                         *)
(* A message is handled batch by batch, but nothing else runs meanwhile.   *)
(* A result keeps the identity its deduplication looks at: the batch (slot *)
(* and sequence number) and the scheduler generation.  The pipeline after  *)
(* this tile yields a result for a batch, late and in any order, or none   *)
(* once the batch's ownership generation has ended; it may repeat a result *)
(* that is still queued.                                                   *)
(***************************************************************************)
EXTENDS Integers, Sequences, FiniteSets

CONSTANTS
  Batches,
  None,
  MAX_RESULTS,   \* FD_BAM_MAX_PENDING_RESULTS: 2048
  PER_MESSAGE,   \* FD_BAM_RESULTS_PER_MESSAGE: 64
  BATCH_MAX,     \* FD_BAM_MAX_ATOMIC_BATCHES_PER_MESSAGE: 8
  PENDING_MAX,   \* batches that pending_txns has room for
  DISPATCH_MAX,  \* batches sent by schedulers in a behaviour
  GEN_MAX        \* last scheduler generation of a behaviour

ASSUME ResultsConstants ==
  /\ {MAX_RESULTS, PER_MESSAGE, BATCH_MAX, GEN_MAX, DISPATCH_MAX} \subseteq Nat \ {0}
  /\ PENDING_MAX \in Nat

Gens    == 1..GEN_MAX
Results == [batch : Batches, gen : Gens]
Items   == [batch : Batches, gen : Gens, n : 1..DISPATCH_MAX]   \* the n-th dispatch

ASSUME NoneIsNoResult == None \notin Results

VARIABLES
  scheduler_gen,
  bam_results,      \* the ring's slots, 0 to MAX_RESULTS - 1
  head, tail,       \* bam_results_head, bam_results_tail
  depth,            \* feedback_queue_depth
  pending_txns,     \* batches accepted and not yet published
  pc,               \* "loop", and in the client: "client", "decode", "commit", "flush",
                    \* or "reset" when the step begins with one
  msg,              \* the message being handled
  stream,           \* bam_stream_live
  health,           \* the connection's: "starting" without config or heartbeat,
                    \* "healthy", "failing" once it has timed out
  halted,           \* halt_signing
  active,           \* bam_status has its override bit
  retired,          \* ownership_gen_retired
  downstream,       \* batches published, whose result is to come
  doomed,           \* those of them that belong to an ended ownership generation
  tx,               \* results the stream accepted, not yet at the scheduler
  dispatches,       \* batches sent so far
  sent,             \* of them, each batch by each scheduler
  delivered         \* results for it the scheduler has got

ring  == <<bam_results, head, tail, depth>>
owner == <<active, retired>>
work  == <<pending_txns, downstream, doomed>>
peer  == <<dispatches, sent, delivered>>
link  == <<stream, health, halted>>
net   == <<link, tx, peer>>
vars  == <<scheduler_gen, ring, pc, msg, owner, work, net>>

NoMessage == [tail |-> 0, depth |-> 0, staged |-> <<>>, seen |-> 0]

Init ==
  /\ scheduler_gen = 1
  /\ bam_results = [i \in 0..MAX_RESULTS - 1 |-> None]
  /\ head = 0 /\ tail = 0 /\ depth = 0
  /\ pc = "loop" /\ msg = NoMessage
  /\ active = FALSE /\ retired = TRUE
  /\ pending_txns = <<>> /\ downstream = {} /\ doomed = {}
  /\ stream = FALSE /\ health = "starting" /\ halted = FALSE /\ tx = <<>>
  /\ dispatches = 0
  /\ sent = [r \in Results |-> 0] /\ delivered = [r \in Results |-> 0]

ResultOf(item) == [batch |-> item.batch, gen |-> item.gen]

(***************************************************************************)
(* The ring.                                                               *)
(***************************************************************************)

\* The i-th oldest entry, counted from 1.
Entry(i) == bam_results[(head + i - 1) % MAX_RESULTS]

Queue(n) == [i \in 1..n |-> Entry(i)]

IsQueued(r) == \E i \in 1..depth : Entry(i) = r

\* Mutant: a full ring overwrites its oldest entry.
HasSlot == TRUE

HasRoom == depth < MAX_RESULTS

\* Mutant: a result of an earlier scheduler is accepted.
AnyGen(r) == TRUE

IsCurrent(r) == r.gen = scheduler_gen

Accepts(r) == IsCurrent(r) /\ ~IsQueued(r) /\ HasRoom

\* fd_bam_enqueue_result
EnqueueResult(r) ==
  IF Accepts(r)
    THEN /\ bam_results' = [bam_results EXCEPT ![tail] = r]
         /\ tail' = (tail + 1) % MAX_RESULTS
         /\ depth' = depth + 1
         /\ UNCHANGED head
    ELSE UNCHANGED ring

(***************************************************************************)
(* The client step.                                                        *)
(***************************************************************************)

\* Mutant: the client waits until all batches are published.
OnlyIfDrained == pending_txns = <<>>

\* fd_bam_client_status is CONNECTED_HEALTHY.
IsHealthy == stream /\ health = "healthy"

\* before_credit.  With batches waiting, only an inactive client whose connection
\* needs care is stepped.  (A step that sets defer_reset resets before it ends:
\* ClientReset.)
MayStep == ~halted /\ (pending_txns = <<>> \/ (~active /\ ~IsHealthy))

\* A step looks for a timeout before it reads or sends anything.
StepBegin ==
  /\ pc = "loop" /\ MayStep
  /\ pc' = IF health = "failing" THEN "reset" ELSE "client"
  /\ UNCHANGED <<scheduler_gen, ring, msg, owner, work, net>>

\* A ping goes unanswered, or no heartbeat has been read for
\* FD_BAM_ACTIVITY_TIMEOUT_NS.
Fails ==
  /\ pc = "loop" /\ stream
  /\ health' = "failing"
  /\ UNCHANGED <<scheduler_gen, ring, pc, msg, owner, work, stream, halted, tx, peer>>

\* fd_bam_client_grpc_rx_start
StreamUp ==
  /\ pc = "client" /\ ~stream
  /\ stream' = TRUE
  /\ UNCHANGED <<scheduler_gen, ring, pc, msg, owner, work, health, halted, tx, peer>>

\* The ConfigResponse and a BuilderHeartBeat have come.
HeartBeat ==
  /\ pc = "client" /\ stream
  /\ health' = "healthy"
  /\ UNCHANGED <<scheduler_gen, ring, pc, msg, owner, work, stream, halted, tx, peer>>

\* A MultipleAtomicTxnBatch arrives.
MessageBegin ==
  /\ pc = "client" /\ stream
  /\ pc' = "decode"
  /\ msg' = [NoMessage EXCEPT !.tail = tail, !.depth = depth]
  /\ UNCHANGED <<scheduler_gen, ring, owner, work, net>>

\* One of its batches decodes, or fails to: with a result if it can be told which
\* batch it is.
DecodeBatch(b) ==
  LET k    == [batch |-> b, gen |-> scheduler_gen]
      item == [batch |-> b, gen |-> scheduler_gen, n |-> dispatches']
  IN  /\ pc = "decode" /\ msg.seen < BATCH_MAX
      /\ dispatches < DISPATCH_MAX /\ dispatches' = dispatches + 1
      /\ sent' = [sent EXCEPT ![k] = @ + 1]
      /\ \/ /\ msg' = [msg EXCEPT !.staged = Append(@, item), !.seen = @ + 1]
            /\ UNCHANGED ring
         \/ /\ EnqueueResult(k)
            /\ msg' = [msg EXCEPT !.seen = @ + 1]
         \/ /\ msg' = [msg EXCEPT !.seen = @ + 1]
            /\ UNCHANGED ring
      /\ UNCHANGED <<scheduler_gen, pc, owner, work, link, tx, delivered>>

\* Mutant: the write position is not restored.
RestoreDepthOnly == depth' = msg.depth /\ UNCHANGED tail

Restore == tail' = msg.tail /\ depth' = msg.depth

\* The wrapper is malformed or has a batch too many: no part of it counts.
Rollback ==
  /\ pc = "decode"
  /\ Restore
  /\ pc' = "client" /\ msg' = NoMessage
  /\ UNCHANGED <<scheduler_gen, bam_results, head, owner, work, net>>

DecodeEnd ==
  /\ pc = "decode"
  /\ pc' = "commit"
  /\ UNCHANGED <<scheduler_gen, ring, msg, owner, work, net>>

\* fd_bam_validate_batch and fd_bam_publish_batch: a result at once if the batch
\* is late, malformed or finds pending_txns full.
CommitBatch ==
  /\ pc = "commit" /\ msg.staged # <<>>
  /\ \/ /\ EnqueueResult(ResultOf(Head(msg.staged)))
        /\ UNCHANGED pending_txns
     \/ /\ Len(pending_txns) < PENDING_MAX
        /\ pending_txns' = Append(pending_txns, Head(msg.staged))
        /\ UNCHANGED ring
  /\ msg' = [msg EXCEPT !.staged = Tail(@)]
  /\ UNCHANGED <<scheduler_gen, pc, owner, downstream, doomed, net>>

MessageEnd ==
  /\ pc = "commit" /\ msg.staged = <<>>
  /\ pc' = "client" /\ msg' = NoMessage
  /\ UNCHANGED <<scheduler_gen, ring, owner, work, net>>

MessageSize == IF depth < PER_MESSAGE THEN depth ELSE PER_MESSAGE

\* One round of fd_bam_flush_results: fd_bam_send_results succeeds.
FlushResults ==
  /\ pc \in {"client", "flush"} /\ stream /\ depth > 0
  /\ tx' = tx \o Queue(MessageSize)
  /\ head' = (head + MessageSize) % MAX_RESULTS
  /\ depth' = depth - MessageSize
  /\ pc' = "flush"
  /\ UNCHANGED <<scheduler_gen, bam_results, tail, msg, owner, work, link, peer>>

\* Everything is flushed, or the stream accepts no more.
StepEnd ==
  /\ pc \in {"client", "flush"}
  /\ pc' = "loop"
  /\ UNCHANGED <<scheduler_gen, ring, msg, owner, work, net>>

(***************************************************************************)
(* Ownership and scheduler generations.                                    *)
(***************************************************************************)

\* fd_bam_tile_begin_ownership_generation
BeginOwnershipGeneration ==
  /\ retired' = TRUE
  /\ pending_txns' = <<>>
  /\ doomed' = downstream

\* fd_bam_publish_active_state when BAM is not to own the pipeline.
Deactivate ==
  IF active /\ ~retired THEN BeginOwnershipGeneration /\ UNCHANGED active
  ELSE /\ active' \in IF retired THEN {active, FALSE} ELSE {active}
       /\ UNCHANGED <<retired, pending_txns, doomed>>

\* Housekeeping.
Unhealthy ==
  /\ pc = "loop"
  /\ Deactivate
  /\ UNCHANGED <<scheduler_gen, ring, pc, msg, downstream, net>>

Healthy ==
  /\ pc = "loop" /\ IsHealthy
  /\ active' = TRUE /\ retired' = FALSE
  /\ UNCHANGED <<scheduler_gen, ring, pc, msg, work, net>>

\* fd_bam_client_reset.  Results are kept; what the stream had accepted goes
\* with the connection.
ClientReset ==
  /\ pc \in {"client", "reset"}
  /\ Deactivate
  /\ pc' = "loop"
  /\ stream' = FALSE /\ health' = "starting" /\ tx' = <<>>
  /\ UNCHANGED <<scheduler_gen, ring, msg, downstream, halted, peer>>

ForgetFeedback == head' = tail /\ depth' = 0 /\ UNCHANGED <<bam_results, tail>>

\* A new identity or scheduler: fd_bam_tile_begin_scheduler_generation and a
\* client reset.  An identity switch also halts the tile.
NewScheduler ==
  /\ pc = "loop" /\ scheduler_gen < GEN_MAX
  /\ scheduler_gen' = scheduler_gen + 1
  /\ BeginOwnershipGeneration
  /\ ForgetFeedback
  /\ stream' = FALSE /\ health' = "starting" /\ tx' = <<>>
  /\ halted' \in {halted, TRUE}
  /\ UNCHANGED <<pc, msg, active, downstream, peer>>

\* FD_KEYSWITCH_STATE_UNHALT_PENDING
Unhalt ==
  /\ pc = "loop" /\ halted
  /\ halted' = FALSE
  /\ UNCHANGED <<scheduler_gen, ring, pc, msg, owner, work, stream, health, tx, peer>>

(***************************************************************************)
(* The rest of the pipeline and the network.                               *)
(***************************************************************************)

\* after_credit: the first batch goes to the pipeline.
Drain ==
  /\ pc = "loop" /\ active /\ pending_txns # <<>>
  /\ downstream' = downstream \cup {Head(pending_txns)}
  /\ pending_txns' = Tail(pending_txns)
  /\ UNCHANGED <<scheduler_gen, ring, pc, msg, owner, doomed, net>>

\* bam_after_frag: a result from pack, execle or PoH.
Feedback(item) ==
  /\ pc = "loop"
  /\ EnqueueResult(ResultOf(item))
  /\ downstream' = downstream \ {item}
  /\ doomed' = doomed \ {item}
  /\ UNCHANGED <<scheduler_gen, pc, msg, owner, pending_txns, net>>

\* The same for a result that is queued already.
Repeat(r) ==
  /\ pc = "loop" /\ IsQueued(r)
  /\ EnqueueResult(r)
  /\ UNCHANGED <<scheduler_gen, pc, msg, owner, work, net>>

\* Pack drops a batch of an ended ownership generation.
PackRetires(item) ==
  /\ downstream' = downstream \ {item}
  /\ doomed' = doomed \ {item}
  /\ UNCHANGED <<scheduler_gen, ring, pc, msg, owner, pending_txns, net>>

\* A result names its batch only: the scheduler takes it for its own.
Deliver ==
  /\ tx # <<>>
  /\ tx' = Tail(tx)
  /\ delivered' = [delivered EXCEPT
                     ![[batch |-> Head(tx).batch, gen |-> scheduler_gen]] = @ + 1]
  /\ UNCHANGED <<scheduler_gen, ring, pc, msg, owner, work, link, dispatches, sent>>

Next ==
  \/ StepBegin \/ Fails \/ StreamUp \/ HeartBeat \/ MessageBegin \/ Rollback \/ DecodeEnd \/ CommitBatch
  \/ MessageEnd \/ FlushResults \/ StepEnd
  \/ Unhealthy \/ Healthy \/ ClientReset \/ NewScheduler \/ Unhalt \/ Drain \/ Deliver
  \/ \E b \in Batches : DecodeBatch(b)
  \/ \E item \in downstream : Feedback(item)
  \/ \E r \in Results : Repeat(r)
  \/ \E item \in doomed : PackRetires(item)

Spec == Init /\ [][Next]_vars

\* The tile keeps running and finishes what it began, the pipeline takes batches
\* and answers them, and a live stream accepts a message now and again.  A client
\* that is not stepped reads no heartbeat, and time passes.
FairSpec ==
  /\ Spec
  /\ WF_vars(StepBegin) /\ WF_vars(StepEnd) /\ WF_vars(pc = "reset" /\ ClientReset)
  /\ WF_vars(~MayStep /\ Fails)
  /\ WF_vars(DecodeEnd) /\ WF_vars(CommitBatch) /\ WF_vars(MessageEnd)
  /\ WF_vars(Drain) /\ SF_vars(FlushResults)
  /\ \A item \in Items : WF_vars(item \in downstream /\ Feedback(item))

(***************************************************************************)
(* Properties.                                                             *)
(***************************************************************************)

\* Every variable keeps its shape: in particular the ring's indices stay inside
\* it, and neither it nor the queue of batches holds more than it has room for.
TypeOK ==
  /\ scheduler_gen \in Gens
  /\ bam_results \in [0..MAX_RESULTS - 1 -> Results \cup {None}]
  /\ head \in 0..MAX_RESULTS - 1 /\ tail \in 0..MAX_RESULTS - 1
  /\ depth \in 0..MAX_RESULTS
  /\ pc \in {"loop", "client", "decode", "commit", "flush", "reset"}
  /\ msg \in [tail : 0..MAX_RESULTS - 1, depth : 0..MAX_RESULTS,
              staged : Seq(Items), seen : 0..BATCH_MAX]
  /\ stream \in BOOLEAN /\ active \in BOOLEAN /\ retired \in BOOLEAN
  /\ health \in {"starting", "healthy", "failing"} /\ halted \in BOOLEAN
  /\ pending_txns \in Seq(Items) /\ Len(pending_txns) <= PENDING_MAX
  /\ downstream \subseteq Items /\ doomed \subseteq downstream
  /\ tx \in Seq(Results)
  /\ dispatches \in 0..DISPATCH_MAX
  /\ sent \in [Results -> 0..DISPATCH_MAX] /\ delivered \in [Results -> Nat]

\* While a message is decoded, what it adds to the ring does not count yet.
Promised == INSTANCE BamFeedback WITH
              gen   <- scheduler_gen,
              queue <- Queue(IF pc = "decode" THEN msg.depth ELSE depth)

\* The ring, its deduplication, the rollback of a rejected message and the
\* indices kept across resets implement BamFeedback: results reach the stream
\* in order, each once, and only a new scheduler makes the tile forget them.
RingIsFeedbackQueue == Promised!Spec

Occurs(r, s) == Cardinality({i \in DOMAIN s : s[i] = r})

\* Dispatches of r's batch that have no result yet.
Unanswered(r) ==
  LET Waiting == {item \in Items : ResultOf(item) = r}
      Held(s) == Cardinality({i \in DOMAIN s : s[i] \in Waiting})
  IN  Held(msg.staged) + Held(pending_txns) + Cardinality(Waiting \cap downstream)

\* A scheduler never gets, and never has coming, more results for a batch than it
\* sent that batch: not from a message that was rolled back, from a ring that
\* wrapped, nor from work done for the scheduler before it.
OneResultPerDispatch ==
  \A r \in Results :
    delivered[r] + Occurs(r, tx) + Occurs(r, Queue(depth)) + Unanswered(r) <= sent[r]

\* A stream that stays up gets every result queued: the tile never waits for the
\* client while the client waits for the tile.  Where a healthy client waits for
\* ownership with batches of its own unpublished, it gets it or loses the stream.
ResultsAreFlushed == <>[]stream => []<>(depth = 0)

\* fd_bam_client.c: "The server expects every dispatched atomic batch to
\* eventually produce a result".
EveryBatchAnswered ==
  \A item \in Items :
    (\E i \in DOMAIN pending_txns : pending_txns[i] = item)
      ~> IsQueued(ResultOf(item)) \/ scheduler_gen # item.gen
=============================================================================

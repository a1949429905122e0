# A verification of FireBAM's scheduler client

FireBAM is Firedancer with a client for the Blockspace Assembly Marketplace
(BAM). While a BAM scheduler is connected and healthy it feeds the leader
pipeline in place of the Block Engine, and peers are told to send their
transactions to it. This project models the protocols by which the BAM client
takes the pipeline, gives it back and is reconfigured, checks them with TLC on
small instances, and proves their safety properties with TLAPS.

## The system

A validator is a set of *tiles* (single-threaded processes) that exchange
fragments over links and share a few words of memory. Each tile runs a loop
(`src/src/disco/stem/fd_stem.c`) of callbacks: `during_housekeeping`,
`before_credit`, `after_credit`, and one callback per fragment. The parts that
deal with BAM, with their state, operations and difficulties:

| Part | State | Operations | What is hard |
|---|---|---|---|
| BAM tile, ownership (`disco/bam/fd_bam_tile.c`) | `ownership_gen`, `ownership_gen_retired`, the shared words `bam_status` and `bam_gen` | begin a generation, publish the active state, drain batches | three tiles race on two words; fragments are stamped late |
| Contact advertisement (`fd_bam_tile.c`) | TPU addresses, two update states, gossip hand-off target | `fd_bam_gossip_update`, `fd_bam_publish_active_state` | gossip lags behind; Agave's answers fail half-way |
| Admin RPC (`fd_bam_admin_rpc.c`) | stream, outstanding response | one request | late answers after a soft time-out |
| Runtime control (`app/shared/commands/set_bam.c`, `get_bam.c`, `fd_bam_tile.c`) | a mailbox in shared memory | lock, write, submit, claim, apply, report | several commands, time-outs, killed commands |
| Fee configuration (`fd_bam_client.c`, `fd_pack_tile.c`) | a seqlock | publish, refresh | torn reads, version wrap |
| gRPC client (`fd_bam_client.c`) | connection, authentication, streams, heartbeats | step, reset, callbacks | time-outs racing answers |
| Decoding (`fd_bam_client_decode.c`) | pending transactions | receive a scheduler message | all-or-nothing admission under a full queue |
| Result ring (`fd_bam_tile_private.h`, `fd_bam_client.c`) | ring of results | enqueue, flush, forget | a full ring across a disconnect |
| Pack, BAM work (`disco/pack/fd_pack_tile.c`) | work table, partial assembly, result queue, initializer | assemble, admit, dispatch, complete, evict, retire | two tables that must agree |
| Bundle tile (`disco/bundle/fd_bundle_tile.c`) | pending bundles, override flag | follow the override, claim, drain, release | BAM activates in mid-drain |
| Gossip tile (`discof/gossip/fd_gossip_tile.c`) | advertised contact | apply an update | its flow-control sequence lags |
| Execution and PoH (`discof/execle`, `discof/poh`) | results of a microblock | report, confirm | provisional results |
| Leader state (`fd_pack_tile.c`, `fd_bam_tile.c`) | latest leader slot | publish, forward | the latest value wins |

`PROJECT.json` lists every part with its status, and every hazard at its line.

## The modules

### BamOwnership

The word `bam_status` is 0 (`"none"`), OVERRIDE_ACTIVE (`"active"`) or
BUNDLE_PUBLISHING (`"publishing"`), changed by compare-and-swap. The word
`bam_gen` is a generation (`gen`) and a low bit (`req`): the BAM tile sets it to
ask pack to drop older work, pack clears it when it has.

| Action | Code |
|---|---|
| `Refresh`, `ClientReset` | `fd_bam_publish_active_state` from housekeeping (or a ConfigResponse) and from `fd_bam_client_reset` |
| `CtrlReset`, `KeyswitchHalt`, `KeyswitchUnhalt` | control requests and identity changes |
| `ClientProgress` | the health computed by `fd_bam_client_status_at` |
| `ReceiveBatch`, `DrainBatch` | commit to `pending_txns`; `after_credit` |
| `BundleBeforeCredit`, `BundleClaim`, `BundleRelease` | the bundle tile's callbacks |
| `PackSync`, `PackTake` | `pack_tile_sync_bam_ownership_generation` up to the compare-and-swap, from `after_credit` and when a BAM fragment has come |
| `PackAck` | the compare-and-swap |
| `PackFirstFrag`, `PackLastFrag`, `PackSnapshot`, `PackDispatch`, `PackReturn`, `PackFinish` | fragments, the observed override, dispatch, completion |

A batch is reduced to its place on the way and the generation stamped into it.
`stale` is a history variable: a generation began since the batch was received.
`taken` is the batch whose fragment pack has in hand. All generations are 0 at
boot, and never again.
`fd_bam_publish_active_state` is one step. Others can only move `bam_status`
between 0 and BUNDLE_PUBLISHING and can only clear the low bit. A call that
finds the bit cleared in its middle has the effect of two calls.

### BamContact

`fd_bam_gossip_update` and `fd_bam_publish_active_state` in full, for both
deployments (`admin_rpc`, fixed at boot). In full Firedancer the model has the
link to gossip, the updates gossip has taken and the ones its flow-control
sequence shows; `handoff_left` is what that sequence is short of the hand-off
target. In Frankendancer it has what Agave advertises, and every request may
fail with or without having taken effect. Pack's acknowledgement and the bundle
tile's claim are the only parts of the ownership protocol kept.

The default to go back to is known from the start where a bind address is
configured, as it is in full Firedancer; the code copies it at the first update.
Otherwise it is cached from what Agave reports (`CacheDefault`). Agave may still
report no address (`Unset`), which is not cached, until it has started up
(`AgaveLearns`, external). An Agave that was given a contact before that is taken
to keep it. `lent` is a history variable: whether a contact was sent while no
default was cached, and whether the tile still holds that contact.

### BamCtrl and BamCtrlGet

The mailbox of `fd_bam_ctrl.h`. A `set-bam` command locks it, writes the fields
one at a time, submits, polls, and may time out or be killed at any point. The
tile claims a request, applies it and reports. The connection and the scheduler's
work are tagged with the endpoint they belong to. BamCtrlGet adds a `get-bam`
that polls once and then reads field by field.

### BamFeeCfg

The seqlock through which the BAM tile gives pack the builder's pubkey and
commission. Writer and reader copy word by word, in any order between fences.
`lag` and `overlap` are history variables that count writes; they state the
bound that fewer than the version space of writes complete during one read.

### BamAdminRpc

One call of `fd_bam_admin_rpc_request`: discard an answer that is still owed,
send, then read parts until the answer is whole or the polls are used up. The
buffer, the pending flag and the stream outlive the call. Agave answers in
`PARTS` parts, at any time or never. BamContact keeps only the outcome of a call.

### BamFeedback and BamResults

BamFeedback is the promise: an ordered queue of results without duplicates,
sent a message at a time. BamResults is the code: the ring with `head`, `tail`
and `depth`, the decoding of a message batch by batch with its rollback
(`DecodeBatch`, `Rollback`, `DecodeEnd`, `CommitBatch`), the hand-over to the
pipeline (`Drain`), results that come back (`Feedback`), flushing
(`FlushResults`), and what a reset or a new scheduler does. `before_credit`'s
condition for stepping the client is `MayStep`: not halted by an identity switch,
and nothing pending unless the client is inactive and not healthy. `health` is what
`fd_bam_client_status_at` sees of a live stream: no configuration or heartbeat yet
(`"starting"`), `"healthy"`, or timed out (`"failing"`), in which case the next step
begins with a reset. A healthy client that waits for ownership with batches of its
own unpublished is therefore not stepped; it gets ownership, or its heartbeat goes
stale and the step that follows resets it. A result is named by its batch and
scheduler generation. That is exact for results made by the BAM tile and pack;
those of execution carry the slot of execution in place of the latest slot allowed.
The pipeline may repeat a result that is still queued (`Repeat`), which the ring
drops. One repeated after the first was flushed would be sent again. A comment in
`fd_bam_tile_private.h:321` gives the depth as below
`FD_BAM_MAX_PENDING_RESULTS`; the code also allows it to be equal, and so does
the model.

### BamPackWork

What pack does with a batch. `pc` follows the stem: `after_credit` (slot end,
draining one result, the initializer, scheduling), then at most one fragment.
`AfterCredit`, `SlotEnds`, `Schedule`, `BecameLeader`, `Replayed`, `Executed`,
`FirstMember`, `NextMember`, `Reject` and `Admit` are the branches of the tile's
callbacks. `pending` and `scheduled` are the two halves of the work table,
`pool` is what fd_pack holds (external), `owed` a history variable: the dispatches
that still need an end. Points where the model is narrower than the code's text:

* Members of a batch arrive in order and those of two batches do not mix: verify,
  dedup and resolve keep the order of a link. The branches of `during_frag` for a
  new BAM sequence in mid-assembly are therefore not reached.
* The size check on appending (`results + pending + 1 >= 2 * max`) cannot be true
  when the table has at least two records.
* The -1 answer of `candidate_ready` (a missed target) is not reached, since such
  work is evicted before. `drain_execle` only means that nothing is scheduled.
* `remove_ib` deletes by signature; an initializer's signature is not a batch's.
* Results are counted, not told apart by reason.

A bundle of the Block Engine can come between two members of a BAM batch
(`ReceiveBundle`). A scheduler that reconnects while its earlier generation is being
retired has its batches published as long as the override is on. The override is
then released, and the bundle tile publishes before the batch is complete. The
bundle displaces the assembly. A batch displaced this way is the exception in
`Accounted`, recorded in the history variable `displaced`: it is in no place any
more, it is answered when its assembly was still open and not answered when its slot
had ended, and a later member that comes in flagged as failed is answered again.

### BamClient

One step of `fd_bam_client_step1`: `StepBegin` (gate, back-off, dialling,
watchdogs), then any number of gRPC callbacks (`Callbacks`), then `StepEnd`, which
sends at most one request. Beside it run housekeeping with control requests and
identity switches (`Housekeeping`, `SetIdentity`, `SignerSwitches`), fragments
that bring leader states and replayed slots, and clocks. `streams` counts the
stream objects of the gRPC client by kind of request and by how far it has come;
objects of one kind and phase are alike to the callbacks. `node` is a history
variable: what the node has done on this connection. Clocks are reduced to what a
comparison with them says. Simplifications:

* Queued results are an input of a step; the backlog condition is in BamResults.
* The throttle of configuration polls and the builder information's lifetime are
  one flag, `config.due`; an unanswered ping is one flag, `ping_late`.
* The first request of a step fills the transmit buffer, so there is one per step.
* A missing endpoint, validator heartbeats, scheduler pings and round-trip times
  are left out.
* A leader state without an end of its slot, which `fd_bam_client_grpc_rx_start`
  would keep without sending it, does not occur: replay and PoH always set the end.
* The first test of `defer_reset` in a step, the failure of the signature check
  and the heartbeat reset when headers arrive are defensive: no reachable state
  of the model needs them.

The modules named `MC...` give the constants their values. The modules named
`...Proofs` hold the theorems. FiniteFacts lists facts about finite sets that
BamResultsProofs counts with.

## The runs

| Run | Instance | Checks |
|---|---|---|
| `ownership` | 2 batches, generations 0 to 2 | `FreshIsLetIn`, `ClaimHeld`, `StampTellsStale`, `AckedMeansRetired`, `ReleaseAfterRetirement`, `RetirementAcked`, `OwnershipReleased` |
| `contact` | 2 contacts, link of 3, both deployments | `AppliedIsTrue`, `DefaultIsOwn`, `TakeoverIsAdvertised`, `ReleaseIsRestored`, `RestoredUnlessForgotten` |
| `contact_disable` | 1 contact, link of 2 | `AdvertRestored` is violated |
| `ctrl` | 2 commands, 5 kinds of request, a `get-bam` | `WaiterOwnsMailbox`, `TimedOutNeverApplied`, `AppliesOwnersRequest`, `ConnMatchesConfig`, `WorkMatchesConfig`, `SnapshotUnlessUpdated`, `SetBamEnds` |
| `ctrl_idle` | the same | `IdleReflectsConfig` is violated |
| `ctrl_get_race` | the same | `ConsistentSnapshot` is violated |
| `fee_cfg` | 2 pubkey words, 2 builders, 3 versions, 2 attempts | `FreshWhenVersionMatches`, `BuilderKnown`, `AdoptsPublishedTuple` |
| `admin_rpc` | 5 requests, answers of 3 parts, 4 polls | `AnswersOwnRequest`, `PendingIsOwed`, `CallEnds` |
| `results` | 3 batches, 3 dispatches, a ring of 2, 2 schedulers | `TypeOK`, `OneResultPerDispatch`, `RingIsFeedbackQueue`, `ResultsAreFlushed` |
| `results_answered` | see the configuration | `EveryBatchAnswered` is violated |
| `packwork` | 3 names, 3 batches of 2 transactions, a table of 2, 3 slots, 2 generations | `Accounted`, `QueueBounded`, `RecordsMatchPool`, `OneRecordPerTransaction`, `NeverForClosedSlot` |
| `client` | 2 identities, 3 stream objects, 2 faults, a refused leader slot | `TypeOK`, `WaitsForSomething`, `ProofIsOurs`, `HealthyIsCurrent`, `LeaderStateTold`, `Recovers` |

### Bounds

* **Generations (2, for 65535).** The generation is 0 at boot and goes 1, 2, 1, so
  both its start and its wrap are met. `GenFree` states the bound: fewer than 65535
  generations begin while one batch is on its way.
* **Batches in BamOwnership (2).** One can be abandoned by the other, and the two
  can belong to different generations.
* **Contacts (2), link (3, for 128).** A contact can change while an update for
  the earlier one is on the link and another is taken but not reported. A full
  link holds up the BAM tile, as its credits do.
* **Commands (2).** One can take the mailbox after another timed out or was
  killed. The theorems hold for any number.
* **Versions (3, for 2^31-1), attempts (2, for 4).** The version wraps while pack
  reads, and an attempt can fail and be followed by another.
* **Answers of 3 parts, 4 polls (as in the code), 5 requests.** A call can end
  with part of an answer read, discard the rest in the next call, and use up its
  polls while discarding.
* **Ring (2, for 2048), message (1 result, for 64; 2 batches, for 8), 3
  dispatches, 2 scheduler generations.** The ring wraps, fills in the middle of a
  message and is rolled back there; a batch can be sent again to be answered
  twice. `PENDING_MAX` 1 makes admission fail for want of room.
* **Work table (2, for at most 8192), 3 names, 3 batches that share
  transactions, 3 slots, lifetime 1 (for 160), 2 generations.** The table is full
  when a third batch arrives; blockhashes expire and slots end while work is
  pending. Names are symmetric. `RESOLV_LIFETIME` stands for the resolver's 151.
* **Streams (3, for 8), faults (2), 1 leader slot that the node refuses, 2
  replayed slots, 2 slots per epoch.** Faults, time-outs, operator acts and the
  loss of a known leader schedule share one budget; two of them meet in every order.
* The `ctrl` runs and `admin_rpc` do not check deadlock: a killed command leaves
  the mailbox locked for good, and the number of requests is bounded. The others
  do.

### Fairness

Housekeeping, pack's loop and gossip's loop run for ever, so `Refresh`, pack's
steps, `GossipApply` and `GossipReport` are weakly fair. Pack's polling of the
resolver link (`PackTake`) is strongly fair: the loop polls again and again, although
between polls the step is not enabled. Agave starts up in the end (`AgaveLearns`).
`Refresh(TRUE)` and `RefreshAnswered` assume that the contact update succeeds in
the end. For Agave that means its admin RPC answers. After a hard failure of the
stream the code gives up on it (`FD_BAM_ADMIN_RPC_FD_DEAD`), and the liveness
properties then do not apply.

`CallEnds` assumes of the tile that `send`, `ppoll` and `read` return, and nothing
of Agave. `ResultsAreFlushed` assumes that the tile's loop runs, that the
pipeline takes and answers batches, and that a live stream accepts a message now
and again, hence strong fairness of `FlushResults`. `Fails` is weakly fair only
while the client may not be stepped: it then reads no heartbeat, and the clock goes
on to `FD_BAM_ACTIVITY_TIMEOUT_NS`. That BAM is given the pipeline, or that a halted
tile is resumed, is not assumed: a halt or a reset takes the stream down, and the
property speaks of one that stays up.

`Recovers` assumes that the loop runs, clocks go on, a command that switches
identities finishes, and the node between faults answers what it is asked. The
node's steps are strongly fair, since they are enabled only while the client
serves its connection. The code has no deadline for the TCP, TLS and HTTP/2
handshakes nor for the headers of the scheduler stream, so that the node
completes these is an assumption: the six seconds of the heartbeat watchdog
count only on a live stream.

### What the violated properties show

* `contact_disable`. The contact is sent before ownership is taken. If a control
  request or an identity change begins a generation in between,
  `fd_bam_tile_begin_ownership_generation` sets the update states to UNKNOWN, and
  an inactive client with UNKNOWN states never updates. The scheduler's address
  stays advertised until BAM next takes and gives up ownership. No operator is
  needed: a ConfigResponse that changes the contact while BAM is not healthy and
  a restore is pending has the same effect (`fd_bam_client.c:555`). The run
  `contact` shows that the validator's own address comes back unless this
  happened or Agave was given a contact before a default was known:
  `RestoredUnlessForgotten`.
* `ctrl_idle`. A `set-bam` that times out leaves its request in the idle mailbox,
  where `get-bam` prints it as the configuration. The theorem
  `MailboxShowsConfig` shows that this is the only way.
* `ctrl_get_race`. `get-bam` can print a mixture of two configurations.
* `results_answered`. A reset keeps the results in the ring, as its comment says,
  but the new ownership generation drops the accepted batches that were not yet
  handed on, and these never get a result.

## The proofs

All hold for every value of the constants that satisfies the named assumptions
(`OwnershipConstants`, `ContactConstants`, `CtrlConstants`, `FeeCfgConstants`,
`AdminRpcConstants`, `ResultsConstants`, `NoneIsNoResult`, `PackConstants`,
`PackTokens`, `ClientConstants`), which TLC evaluates in the runs. Every safety
property that a passing run checks is proved. The type invariant of each module
is proved too, and is checked by a run only where a slip of the code's arithmetic
would break it.

**BamOwnershipProofs.** `ClaimHeld`, `StampTellsStale`, `AckedMeansRetired`,
`FreshIsLetIn` and `ReleaseAfterRetirement`. `AckedMeansRetired` is not inductive. `OwnershipInv`
adds that the shared word carries the tile's generation (`WordInv`), that pending
transactions were received in the present generation (`PendingInv`, which is why
a new generation must drop them), and that pack holds only work stamped with its
own generation, which is the present one once the low bit is clear (`PackInv`).
`FragInv` says of the fragment in hand that pack has the present generation if the
batch is not stale, since pack loaded the word after the fragment had come; this
gives `FreshIsLetIn`.
The step from there is short: what pack holds carries the present stamp, so by
`StampTellsStale` it is not stale.

**BamContactProofs.** `AppliedIsTrue`, `DefaultIsOwn`, `TakeoverIsAdvertised` and
`ReleaseIsRestored`. `ContactInv` adds that until a default is cached Agave has the
validator's own address, none, or the contact it was given as long as the tile holds
that contact (`DefaultInv`), and that a pending hand-off
waits for exactly the updates on the link and those not yet reported
(`HandoffInv`). A take-over in full Firedancer never coincides with sending the
contact, since the target would be ahead of the gossip tile. So the hand-off was
pending, nothing is left of it, the link is empty, and by `AppliedIsTrue` the
address gossip holds is the contact. `ReleaseIsRestored` needs only
`AppliedIsTrue` after the step.

**BamCtrlProofs.** `WaiterOwnsMailbox`, `TimedOutNeverApplied`,
`AppliesOwnersRequest`, and `ConnMatchesConfig` with `WorkMatchesConfig`. The
strengthening says which commands can have been applied or timed out
(`OwnerInv`), and that the mailbox holds what its owner has written so far
(`RequestInv`). `MailboxShowsConfig`: as long as no command has timed out, an idle
mailbox shows the configuration (`ShowsConfig`). The tile restores the fields one
at a time after a refused request, so the invariant says which of them are right
at each point. `SnapshotUnlessUpdated`, of BamCtrlGet, rests on it: while `get-bam`
reads and no command takes the mailbox, the mailbox stays settled and the fields
already read are the configuration's (`ReadInv`).

**BamFeeCfgProofs.** `FreshWhenVersionMatches`, `BuilderKnown` and
`AdoptsPublishedTuple`. The invariant says that versions count completed writes
modulo the version space (`VersionInv`) and that a copy made without an
intervening write is the published tuple (`ReaderInv`); two lemmas about the
version arithmetic give the rest.

**BamAdminRpcProofs.** `AnswersOwnRequest` and `PendingIsOwed`. That an answer is
one's own has to be known before there is one: whatever is owed on the stream,
unwritten, in flight or buffered, is one answer to one request, and that request
is the caller's once the caller waits for it (`OwedInv`).

**BamResultsProofs.** `RingIsFeedbackQueue`: the ring implements BamFeedback. The
mapping reads `depth` entries from `head`, or as many as there were before the
message while one is decoded. `RingInv` ties `tail` to `head` and `depth`, before
and during a message: what a message adds lies behind the earlier entries, so
moving `tail` and `depth` back undoes it, and the slot written next is never one
in use. `OneResultPerDispatch` needs to know where every answer may come from:
`CountInv` says of each result that the ones delivered, on the stream, in the ring
or staged by a message, together with the batches pending and in the pipeline that
will bring one, are at most the batches sent. It needs in turn that the ring and
the stream hold only results for the present scheduler (`CurrentInv`), or a new
scheduler could be given an old one's, and that the pipeline is finite. The
counting lemmas assume the facts about finite sets listed in FiniteFacts, which the
module derives from the library's theorems before it states its result.

**BamPackWorkProofs.** `RecordsMatchPool` and `NeverForClosedSlot` come first: `RInv`
adds the order of members on the link, the stamps of an assembly that is gone, the
agreement of records and bundles during an eviction, and that pending work is
good for the leader slot. `QueueBounded`, `Accounted` and
`OneRecordPerTransaction` are proved on top of it. A fragment adds at most one to
the results there are or may still be, and `after_credit` takes one away. With no
result dropped, a dispatch leaves pack's hands exactly when it is answered,
scheduled or retired, unless it was displaced.

**BamClientProofs.** `TypeOK`, `WaitsForSomething`, `ProofIsOurs`, `HealthyIsCurrent`
and `LeaderStateTold`. The inductive invariant is `Sound`. Three of these properties
are inductive only together: a callback of a scheduler stream clears the right
flags because the flag and the stream object agree, and the agreement is kept
because what ends a stream or a session clears both. `HealthyIsCurrent` is not
inductive even so, since the client computes its health from its own flags;
`Evidence` says of each flag that the node did what the flag stands for on this
connection, and `HealthyEarned` puts them together. The counts of streams are
handled by lemmas of their own (what acquiring, advancing and releasing an object
does to each count and to the number in use).

Only model-checked: the liveness properties (`RetirementAcked`, `OwnershipReleased`,
`RestoredUnlessForgotten`, `SetBamEnds`, `CallEnds`, `ResultsAreFlushed`,
`Recovers`), since fairness is outside the prover's reach.

## Not modelled

* Parsing and formatting (URLs, protobuf, JSON), port arithmetic, metrics, GUI.
* The bytes of a connection: sockets, TLS, HTTP/2 frames and flow control.
* Pack's publication of leader states, and their contents other than the slot.
* The initializer bundle's contents and generation in pack; it appears only as
  an insertion that may evict others.
* Provisional results of execution and their confirmation at PoH, which need the
  bank and block state of these tiles. They appear as a result that comes late.
* Verify, dedup and resolve beyond the order of their links and their verdicts.
* The rest of Firedancer, which the BAM client runs beside.

Work of a scheduler that reconnects while an earlier generation is still being
retired can reach pack before ownership is released; it belongs to the present
generation, so the properties of BamOwnership about retired work do not speak of
it, and pack does not dispatch it without the override. What a Block Engine bundle
can do to it in mid-assembly is in BamPackWork.

The modules are composed by their interfaces, not in one specification: each
keeps of its neighbours what it reads from them. BamOwnership has a client that
is healthy or not, which BamClient computes; BamResults has a pipeline that
answers a batch once, or again while the answer is queued. `Accounted` says that
pack answers once, with the exception of a displaced batch.

------------------------------ MODULE BamClient ------------------------------
(***************************************************************************)
(* The gRPC client of the BAM tile: it dials the BAM node, asks for a      *)
(* challenge, opens the scheduler stream with the signed proof, polls the  *)
(* builder configuration, watches heartbeats and pings, and starts over    *)
(* when something goes wrong.  The tile calls a node healthy, and hands    *)
(* the leader pipeline to it, by the state kept here.                      *)
(*                                                                         *)
(* One step of the client (fd_bam_client_step1) checks its timers, serves  *)
(* the connection, during which any number of gRPC callbacks run, and then *)
(* sends at most one request; pc is "io" while the callbacks run.  Clocks  *)
(* are kept as what a comparison with them says: a back-off is over or     *)
(* not, an activity is recent or stale.                                    *)
(***************************************************************************)
EXTENDS Integers, FiniteSets

CONSTANTS
  Keys,           \* validator identities
  FirstKey,       \* the identity at boot
  None,
  STREAM_MAX,     \* FD_GRPC_CLIENT_MAX_STREAMS: 8
  LEADER_MAX,     \* leader slots are 1 to LEADER_MAX
  Rejected,       \* the leader slots the node refuses
  STAGE_MAX,      \* leader states pack sends in a behaviour
  REPLAY_MAX,     \* replayed slots are 1 to REPLAY_MAX
  RECHECK_DELTA,  \* FD_BAM_LEADER_SCHEDULE_RECHECK_SLOT_DELTA: 64
  SLOTS_PER_EPOCH,
  FAULT_MAX       \* faults, time-outs and operator acts in a behaviour

DUE  == 0     \* FD_BAM_LEADER_SCHEDULE_RECHECK_DUE_SLOT
NONE == -1    \* FD_BAM_LEADER_SCHEDULE_RECHECK_NONE_SLOT, and no leader slot

ASSUME ClientConstants ==
  /\ {STREAM_MAX, LEADER_MAX, REPLAY_MAX, RECHECK_DELTA, SLOTS_PER_EPOCH} \subseteq Nat \ {0}
  /\ {STAGE_MAX, FAULT_MAX} \subseteq Nat
  /\ Rejected \subseteq 1..LEADER_MAX
  /\ IsFiniteSet(Keys) /\ FirstKey \in Keys /\ None \notin Keys

Kinds  == {"challenge", "config", "scheduler"}
Phases == {"open", "answered", "live"}

VARIABLES
  enabled,
  pc,
  conn,        \* none, dialing, dialed, refused, handshake, ready, dead
  defer_reset,
  backoff,     \* now < backoff_until
  ping_late,   \* a ping is past its deadline (fd_keepalive_is_timeout)
  streams,     \* the gRPC client's stream objects: how many of a kind in a phase
  stream,      \* bam_stream and what is known of it
  auth,
  config,
  active,      \* the value last given to fd_bam_publish_active_state
  leader,      \* bam_leader_state, bam_leader_pending
  gate,        \* leader_schedule_gate_start_ns, leader_schedule_recheck_slot
  next_leader, \* next_leader_slot is known
  identity,    \* bam_identity_pubkey
  signer,      \* the key of the sign tile
  keyswitch,   \* unlocked, switch, switched, unhalt
  halt_signing,
  node,        \* what the node has seen: see SessionNone
  faults, stages

NoStreams == [kind \in Kinds |-> [phase \in Phases |-> 0]]

tile    == <<enabled, identity, signer, keyswitch, halt_signing>>
session == <<conn, defer_reset, streams, stream, auth, config, active, leader, node>>
hints   == <<gate, next_leader>>
budget  == <<faults, stages>>
vars    == <<tile, session, hints, budget, pc, backoff, ping_late>>

AuthNone    == [inflight |-> FALSE, ready |-> FALSE, challenge |-> None]
StreamNone  == [open |-> FALSE, connecting |-> FALSE, live |-> FALSE,
                heartbeat |-> FALSE, activity |-> "none"]
ConfigNone  == [inflight |-> FALSE, received |-> FALSE, due |-> TRUE]
(* What the node did on this connection (a configuration) and on its last  *)
(* scheduler stream (a heartbeat; the key of the proof that opened it; the *)
(* leader slot it was told, and whether that was the state now kept).      *)
SessionNone == [config |-> FALSE, heartbeat |-> FALSE, key |-> None,
                slot |-> NONE, told |-> FALSE]
LeaderNone  == [slot |-> NONE, expired |-> FALSE, pending |-> FALSE]

Init ==
  /\ enabled \in BOOLEAN
  /\ pc = "idle" /\ conn = "none" /\ ping_late = FALSE
  /\ defer_reset = FALSE /\ backoff = FALSE /\ active = FALSE
  /\ streams = NoStreams
  /\ stream = StreamNone /\ auth = AuthNone /\ config = ConfigNone
  /\ leader = LeaderNone
  /\ gate = [timer |-> "off", recheck |-> NONE]
  /\ next_leader = FALSE
  /\ identity = FirstKey /\ signer = FirstKey
  /\ keyswitch = "unlocked" /\ halt_signing = FALSE
  /\ node = SessionNone
  /\ faults = 0 /\ stages = 0

Fault == faults < FAULT_MAX /\ faults' = faults + 1

(***************************************************************************)
(* Status and gates                                                        *)
(***************************************************************************)
(* Mutant: the activity clock, which starts with the stream, stands for a
   heartbeat. *)
HealthyOnceLive(received) ==
  /\ enabled /\ conn = "ready"
  /\ stream.live /\ ~ping_late
  /\ received
  /\ stream.activity = "recent"

(* fd_bam_client_status_at: CONNECTED_HEALTHY. *)
HealthyIf(received) ==
  /\ enabled /\ conn = "ready"
  /\ stream.live /\ ~ping_late
  /\ received
  /\ stream.heartbeat /\ stream.activity = "recent"

Healthy == HealthyIf(config.received)

(* fd_bam_tile_leader_schedule_gate_active; queued says whether results
   wait for the scheduler (feedback_queue_depth). *)
GateActive(queued) ==
  ~next_leader /\ ~leader.pending /\ ~queued /\ conn = "none"

Outstanding(kind) ==
  streams[kind]["open"] + streams[kind]["answered"] + streams[kind]["live"]

InUse == Outstanding("challenge") + Outstanding("config") + Outstanding("scheduler")

(* Mutant: no limit on streams. *)
BlockedUntilReady == conn # "ready"

(* fd_grpc_client_request_is_blocked, but for bytes still to be sent. *)
Blocked == conn # "ready" \/ InUse >= STREAM_MAX

(***************************************************************************)
(* Resets                                                                  *)
(***************************************************************************)
DropPending == [leader EXCEPT !.pending = FALSE]

(* fd_bam_client_reset, but for the back-off and the leader-schedule gate:
   c is the connection's next state, kept what remains of the leader state. *)
Close(c, kept) ==
  /\ conn' = c /\ defer_reset' = FALSE
  /\ streams' = NoStreams
  /\ stream' = StreamNone /\ auth' = AuthNone /\ config' = ConfigNone
  /\ active' = FALSE
  /\ leader' = kept
  /\ node' = SessionNone

ResetTo(c) ==
  /\ Close(c, DropPending)
  /\ backoff' = TRUE
  /\ gate' = [timer |-> "off", recheck |-> NONE]

ClientReset == ResetTo("none")

(***************************************************************************)
(* The start of a step: fd_bam_client_step1 down to the I/O                *)
(***************************************************************************)
(* A socket is made and connects in the background; the keepalive starts
   over.  Resolving, connecting or allocating TLS state may fail. *)
CreateConn ==
  \/ ClientReset /\ Fault /\ UNCHANGED ping_late
  \/ ResetTo("dialing") /\ ping_late' = FALSE /\ UNCHANGED faults

Gated(queued) == GateActive(queued) /\ gate.recheck # DUE /\ gate.timer # "over"

PassedGate(queued) ==
  CASE ~GateActive(queued) -> [gate EXCEPT !.timer = "off"]
    [] gate.recheck = DUE  -> gate
    [] OTHER               -> [timer |-> "off", recheck |-> DUE]

TimedOut == ping_late \/ (stream.live /\ stream.activity = "stale")

StepDisabled ==
  /\ ~enabled
  /\ gate' = [timer |-> "off", recheck |-> NONE]
  /\ UNCHANGED <<session, faults, pc, backoff, ping_late>>

StepGated(queued) ==
  /\ enabled /\ ~defer_reset /\ Gated(queued)
  /\ gate' = [gate EXCEPT !.timer = "running"]
  /\ UNCHANGED <<session, faults, pc, backoff, ping_late>>

StepDial(queued) ==
  /\ enabled /\ ~defer_reset /\ ~Gated(queued) /\ conn = "none"
  /\ \/ backoff /\ gate' = PassedGate(queued) /\ UNCHANGED <<session, faults, backoff, ping_late>>
     \/ ~backoff /\ CreateConn
  /\ UNCHANGED pc

(* The socket is polled: nothing yet, connected, or the connect failed. *)
StepConnect ==
  /\ enabled /\ ~defer_reset
  /\ \/ conn = "dialing" /\ gate' = [gate EXCEPT !.timer = "off"] /\ UNCHANGED <<session, backoff>>
     \/ /\ conn = "dialed"
        /\ conn' = "handshake" /\ gate' = [gate EXCEPT !.timer = "off"]
        /\ UNCHANGED <<defer_reset, streams, stream, auth, config, active, leader, node, backoff>>
     \/ conn = "refused" /\ ClientReset
  /\ UNCHANGED <<faults, pc, ping_late>>

StepWatch ==
  /\ enabled /\ ~defer_reset /\ conn \in {"handshake", "ready"} /\ TimedOut
  /\ ClientReset
  /\ ping_late' = FALSE
  /\ UNCHANGED <<faults, pc>>

StepDrive ==
  /\ enabled /\ ~defer_reset /\ conn \in {"handshake", "ready"} /\ ~TimedOut
  /\ pc' = "io" /\ gate' = [gate EXCEPT !.timer = "off"]
  /\ UNCHANGED <<session, faults, backoff, ping_late>>

(* before_credit: a halted tile does not step its client.  The check of
   defer_reset at the top of a step is left out: no step ends with it set
   (WaitsForSomething). *)
StepBegin ==
  /\ pc = "idle" /\ ~halt_signing
  /\ \/ StepDisabled \/ StepConnect \/ StepWatch \/ StepDrive
     \/ \E queued \in BOOLEAN : StepGated(queued) \/ StepDial(queued)
  /\ UNCHANGED <<tile, next_leader, stages>>

(***************************************************************************)
(* Callbacks of the gRPC client, while the connection is served            *)
(***************************************************************************)
Has(kind, phase) == streams[kind][phase] > 0

Release(kind, phase) ==
  Has(kind, phase) /\ streams' = [streams EXCEPT ![kind][phase] = @ - 1]

Advance(kind, from, to) ==
  /\ Has(kind, from)
  /\ streams' = [streams EXCEPT ![kind][from] = @ - 1, ![kind][to] = @ + 1]

GrpcConnEstablished ==
  /\ conn = "handshake" /\ conn' = "ready"
  /\ UNCHANGED <<defer_reset, streams, stream, auth, config, active, leader, node,
                 backoff, ping_late, faults>>

GrpcConnDead ==
  /\ Fault /\ conn \in {"handshake", "ready"}
  /\ conn' = "dead" /\ defer_reset' = TRUE
  /\ UNCHANGED <<streams, stream, auth, config, active, leader, node, backoff, ping_late>>

(* fd_bam_handle_auth_challenge: the sign tile signs; a signature that the
   cached identity does not verify is dropped. *)
SignedChallenge ==
  IF signer = identity
  THEN [inflight |-> FALSE, ready |-> TRUE, challenge |-> signer]
  ELSE AuthNone

HandleAuthChallenge ==
  /\ Advance("challenge", "open", "answered")
  /\ \/ auth' = SignedChallenge /\ UNCHANGED <<backoff, faults>>
     \/ Fault /\ auth' = AuthNone /\ backoff' = TRUE
  /\ UNCHANGED <<conn, defer_reset, stream, config, active, leader, node, ping_late>>

(* fd_bam_handle_config: a response that decodes counts, with or without
   usable builder information, and the active state is published anew. *)
HandleConfig ==
  /\ Advance("config", "open", "answered")
  /\ \/ /\ config' = [config EXCEPT !.inflight = FALSE, !.received = TRUE]
        /\ active' = HealthyIf(TRUE)
        /\ node' = [node EXCEPT !.config = TRUE]
        /\ UNCHANGED faults
     \/ /\ Fault
        /\ config' = [config EXCEPT !.inflight = FALSE]
        /\ UNCHANGED <<active, node>>
  /\ UNCHANGED <<conn, defer_reset, stream, auth, leader, backoff, ping_late>>

(* Mutant: a retained leader state is not sent again on a new stream. *)
KeepLeader == IF leader.slot # NONE /\ ~leader.expired THEN leader ELSE LeaderNone

(* fd_bam_client_grpc_rx_start of the scheduler stream. *)
LeaderAtStart ==
  IF leader.slot # NONE /\ ~leader.expired THEN [leader EXCEPT !.pending = TRUE] ELSE LeaderNone

StreamAtStart ==
  [stream EXCEPT !.live = TRUE, !.connecting = FALSE,
                 !.heartbeat = FALSE, !.activity = "recent"]

RxStart ==
  /\ Advance("scheduler", "open", "live")
  /\ stream' = StreamAtStart
  /\ leader' = LeaderAtStart
  /\ UNCHANGED <<conn, defer_reset, auth, config, active, node, backoff, ping_late, faults>>

RxHeartbeat ==
  /\ Has("scheduler", "live")
  /\ stream' = [stream EXCEPT !.heartbeat = TRUE, !.activity = "recent"]
  /\ node' = [node EXCEPT !.heartbeat = TRUE]
  /\ UNCHANGED <<conn, defer_reset, streams, auth, config, active, leader, backoff, ping_late, faults>>

(* fd_bam_handle_scheduler_response: a response of an unknown version. *)
RxUnsupported ==
  /\ Has("scheduler", "live") /\ Fault
  /\ defer_reset' = TRUE
  /\ UNCHANGED <<conn, streams, stream, auth, config, active, leader, node, backoff, ping_late>>

(* Mutant: the stream is forgotten, but not that it was connecting. *)
ForgetStream == [stream EXCEPT !.open = FALSE, !.live = FALSE]

ClearStream == [stream EXCEPT !.open = FALSE, !.live = FALSE, !.connecting = FALSE]

(* fd_bam_client_request_failed, by the kind of the request. *)
RequestFailed(kind, kept) ==
  /\ backoff' = TRUE
  /\ auth' = CASE kind = "challenge" -> AuthNone
               [] kind = "scheduler" -> [auth EXCEPT !.ready = FALSE, !.challenge = None]
               [] OTHER              -> auth
  /\ config' = IF kind = "config" THEN [config EXCEPT !.inflight = FALSE] ELSE config
  /\ stream' = IF kind = "scheduler" THEN ClearStream ELSE stream
  /\ leader' = IF kind = "scheduler" THEN [kept EXCEPT !.pending = FALSE] ELSE kept

(* The node answers with an HTTP error, or resets a stream before it
   answers: no reset of the connection. *)
RxEndHttp(kind) ==
  /\ Fault /\ Release(kind, "open")
  /\ RequestFailed(kind, leader)
  /\ UNCHANGED <<conn, defer_reset, active, node, ping_late>>

(* A gRPC failure; an authentication failure also drops the proof. *)
RxEndFailed(kind, phase) ==
  /\ Fault /\ Release(kind, phase)
  /\ \/ RequestFailed(kind, leader)
     \/ /\ kind = "config"
        /\ backoff' = TRUE
        /\ config' = [config EXCEPT !.inflight = FALSE]
        /\ auth' = [auth EXCEPT !.ready = FALSE, !.challenge = None]
        /\ UNCHANGED <<stream, leader>>
  /\ defer_reset' = (defer_reset \/ kind = "scheduler")
  /\ UNCHANGED <<conn, active, node, ping_late>>

(* Mutant: a refused leader state is retained. *)
RetainRejected(slot) == leader

(* The node refuses the leader slot it was told, and says which: a retained
   leader state of that slot is dropped before the failure is handled. *)
UnlessRejected(slot) == IF leader.slot = slot THEN LeaderNone ELSE leader

RxEndRejected ==
  /\ node.slot \in Rejected /\ Release("scheduler", "live")
  /\ RequestFailed("scheduler", UnlessRejected(node.slot))
  /\ defer_reset' = TRUE
  /\ UNCHANGED <<conn, active, node, ping_late, faults>>

(* A good end: expected of an answered request, else a fault. *)
RxEndOk(kind, phase) ==
  /\ Release(kind, phase)
  /\ IF phase = "answered" THEN UNCHANGED faults ELSE Fault
  /\ CASE kind = "challenge" ->
            auth' = [auth EXCEPT !.inflight = FALSE] /\ UNCHANGED <<config, stream, leader, backoff, defer_reset>>
       [] kind = "config" ->
            config' = [config EXCEPT !.inflight = FALSE] /\ UNCHANGED <<auth, stream, leader, backoff, defer_reset>>
       [] OTHER ->
            /\ stream' = ClearStream /\ leader' = DropPending
            /\ backoff' = TRUE /\ defer_reset' = TRUE
            /\ UNCHANGED <<auth, config>>
  /\ UNCHANGED <<conn, active, node, ping_late>>

(* The 8 s deadline of a challenge or a configuration request. *)
RxTimeout(kind, phase) ==
  /\ Fault /\ kind # "scheduler" /\ Release(kind, phase)
  /\ defer_reset' = TRUE
  /\ IF kind = "challenge"
     THEN auth' = AuthNone /\ UNCHANGED config
     ELSE config' = [config EXCEPT !.inflight = FALSE] /\ UNCHANGED auth
  /\ UNCHANGED <<conn, stream, active, leader, node, backoff, ping_late>>

GrpcPingAck ==
  /\ ping_late /\ ping_late' = FALSE
  /\ UNCHANGED <<session, backoff, faults>>

Callback(A) ==
  /\ pc = "io" /\ conn # "dead" /\ A
  /\ UNCHANGED <<tile, hints, stages, pc>>

(***************************************************************************)
(* The end of a step                                                       *)
(***************************************************************************)
RequestStart(kind) == streams' = [streams EXCEPT ![kind]["open"] = @ + 1]

Challenges == ~auth.ready /\ ~auth.inflight /\ ~stream.open

RequestAuthChallenge ==
  /\ RequestStart("challenge")
  /\ auth' = [auth EXCEPT !.inflight = TRUE]
  /\ UNCHANGED <<stream, config, leader, node>>

(* fd_bam_try_start_stream: the proof is the stream's first message, and
   the challenge is spent. *)
SpendChallenge == [auth EXCEPT !.ready = FALSE, !.challenge = None]

Starts == auth.ready /\ ~stream.open /\ ~stream.connecting

TryStartStream ==
  /\ RequestStart("scheduler")
  /\ stream' = [stream EXCEPT !.open = TRUE, !.connecting = TRUE]
  /\ auth' = SpendChallenge
  /\ node' = [node EXCEPT !.heartbeat = FALSE, !.key = auth.challenge, !.slot = NONE, !.told = FALSE]
  /\ UNCHANGED <<config, leader>>

(* fd_bam_send_leader_state for the state l: an expired one is dropped, else
   it goes out on a live stream unless the send buffer is taken. *)
SendLeaderState(l, taken) ==
  IF l.expired
  THEN leader' = LeaderNone /\ UNCHANGED node
  ELSE IF stream.open /\ stream.live /\ ~taken
  THEN /\ leader' = [l EXCEPT !.pending = FALSE]
       /\ node' = [node EXCEPT !.slot = l.slot, !.told = TRUE]
  ELSE leader' = l /\ node' = [node EXCEPT !.told = FALSE]

PushLeaderState(taken) ==
  IF leader.pending /\ stream.open /\ stream.live
  THEN SendLeaderState(leader, taken)
  ELSE UNCHANGED <<leader, node>>

NeedsConfig == ~config.inflight /\ config.due

RequestConfig ==
  /\ RequestStart("config")
  /\ config' = [config EXCEPT !.inflight = TRUE, !.due = FALSE]
  /\ PushLeaderState(TRUE)
  /\ UNCHANGED <<stream, auth>>

(* No request: the send buffer is free for a leader state, unless a
   heartbeat took it. *)
SendUpdates ==
  /\ \E taken \in BOOLEAN : PushLeaderState(taken)
  /\ UNCHANGED <<streams, stream, auth, config>>

(* fd_bam_client_step_reconnect: the first request fills the send buffer,
   and those after it wait for the next step. *)
StepReconnect ==
  /\ CASE Challenges  -> RequestAuthChallenge
       [] Starts      -> TryStartStream
       [] NeedsConfig -> RequestConfig
       [] OTHER       -> SendUpdates
  /\ UNCHANGED <<conn, defer_reset, active, gate, backoff, faults>>

StepEnd ==
  /\ pc = "io" /\ pc' = "idle"
  /\ \/ defer_reset /\ ClientReset /\ UNCHANGED faults
     \/ /\ ~defer_reset /\ (Blocked \/ backoff)
        /\ UNCHANGED <<session, gate, backoff, faults>>
     \/ ~defer_reset /\ ~Blocked /\ ~backoff /\ StepReconnect
  /\ UNCHANGED <<tile, next_leader, stages, ping_late>>

(* Reading or writing the socket fails, or the send buffer stays full. *)
StepEndFault ==
  /\ pc = "io" /\ pc' = "idle" /\ Fault
  /\ \/ ClientReset
     \/ ~defer_reset /\ UNCHANGED <<session, gate, backoff>>
  /\ UNCHANGED <<tile, next_leader, ping_late, stages>>

(***************************************************************************)
(* Housekeeping: set-bam, the active state, identity switches              *)
(***************************************************************************)
SwitchKey == keyswitch = "switch"

(* Mutant: a switch of the identity leaves the session up. *)
EndsOnCommand(cmd) == cmd # "none"

EndsSession(cmd) == cmd # "none" \/ SwitchKey

Housekeeping(cmd) ==
  /\ pc = "idle"
  /\ IF cmd \in {"disable", "endpoint"} THEN Fault ELSE UNCHANGED faults
  /\ enabled' = CASE cmd = "enable" -> TRUE [] cmd = "disable" -> FALSE [] OTHER -> enabled
  /\ IF EndsSession(cmd)
     THEN Close("none", IF SwitchKey THEN LeaderNone ELSE DropPending)
     ELSE active' = Healthy /\ UNCHANGED <<conn, defer_reset, streams, stream, auth, config, leader, node>>
  /\ backoff' = (SwitchKey \/ (backoff /\ cmd = "none" /\ keyswitch # "unhalt"))
  /\ gate' = CASE SwitchKey    -> [timer |-> "off", recheck |-> DUE]
               [] cmd = "none" -> gate
               [] OTHER        -> [timer |-> "off", recheck |-> NONE]
  /\ next_leader' = (next_leader /\ ~SwitchKey)
  /\ IF SwitchKey THEN identity' \in Keys \ {identity} ELSE UNCHANGED identity
  /\ halt_signing' = CASE SwitchKey            -> TRUE
                       [] keyswitch = "unhalt" -> FALSE
                       [] OTHER                -> halt_signing
  /\ keyswitch' = CASE SwitchKey            -> "switched"
                    [] keyswitch = "unhalt" -> "unlocked"
                    [] OTHER                -> keyswitch
  /\ UNCHANGED <<signer, pc, ping_late, stages>>

Commands ==
  {"none", "endpoint"} \cup (IF enabled THEN {"disable"} ELSE {"enable"})

(* set-identity: the BAM tile switches first, then the sign tile, and only
   then the BAM tile is let on. *)
SetIdentity ==
  /\ keyswitch = "unlocked" /\ Fault /\ keyswitch' = "switch"
  /\ UNCHANGED <<enabled, identity, signer, halt_signing, session, hints, stages, pc, backoff, ping_late>>

SignerSwitches ==
  /\ keyswitch = "switched" /\ keyswitch' = "unhalt" /\ signer' = identity
  /\ UNCHANGED <<enabled, identity, halt_signing, session, hints, budget, pc, backoff, ping_late>>

(***************************************************************************)
(* Fragments from pack and replay                                          *)
(***************************************************************************)
(* A leader state from pack: one for a new slot goes out at once. *)
StageLeaderState(slot, expired) ==
  LET l == [slot |-> slot, expired |-> expired, pending |-> TRUE] IN
  /\ pc = "idle" /\ stages < STAGE_MAX /\ stages' = stages + 1
  /\ IF leader.slot # slot /\ stream.open /\ stream.live
     THEN \E taken \in BOOLEAN : SendLeaderState(l, taken)
     ELSE leader' = l /\ node' = [node EXCEPT !.told = FALSE]
  /\ UNCHANGED <<tile, conn, defer_reset, streams, stream, auth, config, active, hints,
                 faults, pc, backoff, ping_late>>

(* fd_bam_note_replay_schedule_slot: when to look at the schedule again. *)
RecheckTarget(slot, left) == slot + (IF left < RECHECK_DELTA THEN left ELSE RECHECK_DELTA)

RecheckSlot(known, slot, left) ==
  CASE known                                             -> NONE
    [] ~known /\ gate.recheck = DUE                      -> DUE
    [] ~known /\ gate.recheck > DUE /\ slot >= gate.recheck -> DUE
    [] OTHER ->
         LET target == RecheckTarget(slot, left) IN
         IF target <= slot THEN DUE
         ELSE IF gate.recheck = NONE \/ target < gate.recheck THEN target ELSE gate.recheck

NoteReplaySlot(known, slot, left) ==
  LET recheck == RecheckSlot(known, slot, left) IN
  gate' = [timer   |-> IF recheck = gate.recheck THEN gate.timer ELSE "off",
           recheck |-> recheck]

(* A reset carries the next leader slot, if there is one, and no epoch. *)
ReplayReset(known, slot) ==
  /\ pc = "idle"
  /\ IF next_leader /\ ~known THEN Fault ELSE UNCHANGED faults
  /\ next_leader' = known
  /\ IF known THEN gate' = [timer |-> "off", recheck |-> NONE]
              ELSE NoteReplaySlot(FALSE, slot, RECHECK_DELTA)
  /\ UNCHANGED <<tile, session, stages, pc, backoff, ping_late>>

ReplaySlotCompleted(slot) ==
  /\ pc = "idle"
  /\ NoteReplaySlot(next_leader, slot, SLOTS_PER_EPOCH - (slot % SLOTS_PER_EPOCH) - 1)
  /\ UNCHANGED <<tile, session, next_leader, budget, pc, backoff, ping_late>>

(***************************************************************************)
(* Time and the network                                                    *)
(***************************************************************************)
BackoffEnds ==
  /\ backoff /\ backoff' = FALSE
  /\ UNCHANGED <<tile, session, hints, budget, pc, ping_late>>

(* 15 s behind the gate. *)
GateTimerEnds ==
  /\ gate.timer = "running" /\ gate' = [gate EXCEPT !.timer = "over"]
  /\ UNCHANGED <<tile, session, next_leader, budget, pc, backoff, ping_late>>

(* A configuration or builder information is missing or runs out, and the
   last poll is long enough ago. *)
ConfigPollDue ==
  /\ ~config.due /\ config' = [config EXCEPT !.due = TRUE]
  /\ UNCHANGED <<tile, conn, defer_reset, streams, stream, auth, active, leader, node,
                 hints, budget, pc, backoff, ping_late>>

LeaderExpires ==
  /\ leader.slot # NONE /\ ~leader.expired /\ leader' = [leader EXCEPT !.expired = TRUE]
  /\ UNCHANGED <<tile, conn, defer_reset, streams, stream, auth, config, active, node,
                 hints, budget, pc, backoff, ping_late>>

(* Six seconds without a heartbeat. *)
ActivityStale ==
  /\ Fault /\ stream.activity = "recent" /\ stream' = [stream EXCEPT !.activity = "stale"]
  /\ UNCHANGED <<tile, conn, defer_reset, streams, auth, config, active, leader, node,
                 hints, stages, pc, backoff, ping_late>>

PingLate ==
  /\ Fault /\ conn = "ready" /\ ~ping_late /\ ping_late' = TRUE
  /\ UNCHANGED <<tile, session, hints, stages, pc, backoff>>

(* The connect comes through, or is refused. *)
Connect(outcome) ==
  /\ conn = "dialing" /\ conn' = outcome
  /\ IF outcome = "refused" THEN Fault ELSE UNCHANGED faults
  /\ UNCHANGED <<tile, defer_reset, streams, stream, auth, config, active, leader, node,
                 hints, stages, pc, backoff, ping_late>>

Time ==
  \/ BackoffEnds \/ GateTimerEnds \/ ConfigPollDue
  \/ LeaderExpires \/ ActivityStale \/ PingLate
  \/ \E outcome \in {"dialed", "refused"} : Connect(outcome)

Fragments ==
  \/ \E slot \in 1..LEADER_MAX, expired \in BOOLEAN : StageLeaderState(slot, expired)
  \/ \E known \in BOOLEAN, slot \in 1..REPLAY_MAX : ReplayReset(known, slot)
  \/ \E slot \in 1..REPLAY_MAX : ReplaySlotCompleted(slot)

Callbacks ==
  \/ Callback(GrpcConnEstablished) \/ Callback(GrpcConnDead) \/ Callback(GrpcPingAck)
  \/ Callback(HandleAuthChallenge) \/ Callback(HandleConfig) \/ Callback(RxStart)
  \/ Callback(RxHeartbeat) \/ Callback(RxUnsupported) \/ Callback(RxEndRejected)
  \/ \E kind \in Kinds : Callback(RxEndHttp(kind))
  \/ \E kind \in Kinds, phase \in Phases :
       \/ Callback(RxEndFailed(kind, phase))
       \/ Callback(RxEndOk(kind, phase))
       \/ Callback(RxTimeout(kind, phase))

Next ==
  \/ StepBegin \/ Callbacks \/ StepEnd \/ StepEndFault
  \/ \E cmd \in Commands : Housekeeping(cmd)
  \/ SetIdentity \/ SignerSwitches \/ Fragments \/ Time

Spec == Init /\ [][Next]_vars

(***************************************************************************)
(* Fairness: the tile's loop runs, clocks go on, the command that switches *)
(* identities finishes, and the node, between faults, answers what it is   *)
(* asked, ends an answered request, and sends the headers and a heartbeat  *)
(* of a scheduler stream.                                                  *)
(***************************************************************************)
NodeSchedules ==
  \/ Callback(GrpcConnEstablished)
  \/ Callback(HandleAuthChallenge) \/ Callback(RxEndOk("challenge", "answered"))
  \/ Callback(RxStart) \/ Callback(RxHeartbeat /\ ~stream.heartbeat)

NodeConfigures == Callback(HandleConfig) \/ Callback(RxEndOk("config", "answered"))

FairSpec ==
  /\ Spec
  /\ WF_vars(StepBegin) /\ WF_vars(StepEnd) /\ WF_vars(Housekeeping("none"))
  /\ WF_vars(BackoffEnds) /\ WF_vars(GateTimerEnds) /\ WF_vars(ConfigPollDue)
  /\ WF_vars(Connect("dialed")) /\ WF_vars(SignerSwitches)
  /\ SF_vars(NodeSchedules) /\ SF_vars(NodeConfigures)

(***************************************************************************)
(* Properties                                                              *)
(***************************************************************************)
(* Every variable of the client keeps its shape, and a leader schedule is
   looked at again within the slots replay has reported. *)
TypeOK ==
  /\ enabled \in BOOLEAN /\ defer_reset \in BOOLEAN /\ backoff \in BOOLEAN
  /\ ping_late \in BOOLEAN /\ active \in BOOLEAN /\ next_leader \in BOOLEAN
  /\ halt_signing \in BOOLEAN
  /\ pc \in {"idle", "io"}
  /\ conn \in {"none", "dialing", "dialed", "refused", "handshake", "ready", "dead"}
  /\ streams \in [Kinds -> [Phases -> Nat]] /\ InUse <= STREAM_MAX
  /\ stream \in [open : BOOLEAN, connecting : BOOLEAN, live : BOOLEAN,
                 heartbeat : BOOLEAN, activity : {"none", "recent", "stale"}]
  /\ auth \in [inflight : BOOLEAN, ready : BOOLEAN, challenge : Keys \cup {None}]
  /\ config \in [inflight : BOOLEAN, received : BOOLEAN, due : BOOLEAN]
  /\ leader \in [slot : {NONE} \cup 1..LEADER_MAX, expired : BOOLEAN, pending : BOOLEAN]
  /\ gate \in [timer : {"off", "running", "over"}, recheck : NONE..REPLAY_MAX + RECHECK_DELTA]
  /\ node \in [config : BOOLEAN, heartbeat : BOOLEAN, key : Keys \cup {None},
               slot : {NONE} \cup 1..LEADER_MAX, told : BOOLEAN]
  /\ identity \in Keys /\ signer \in Keys
  /\ keyswitch \in {"unlocked", "switch", "switched", "unhalt"}
  /\ faults \in 0..FAULT_MAX /\ stages \in 0..STAGE_MAX

(* The client waits only for what can still come: a flag that holds back a
   challenge or a configuration request (bam_auth_inflight,
   bam_config_inflight) is set only while such a request is outstanding,
   and the gRPC client keeps exactly one scheduler stream while bam_stream
   is set and none otherwise, so that bam_stream never points to a stream
   object that was given back to the pool, and is live or connecting as
   that stream is.  A reset asked for by a callback happens in the step
   that ran the callback. *)
WaitsForSomething ==
  /\ defer_reset => pc = "io"
  /\ auth.inflight => Outstanding("challenge") > 0
  /\ config.inflight => Outstanding("config") > 0
  /\ Outstanding("scheduler") = IF stream.open THEN 1 ELSE 0
  /\ stream.live <=> Has("scheduler", "live")
  /\ stream.connecting <=> Has("scheduler", "open")

(* A proof is the current validator's: the challenge that would open a
   scheduler stream was signed by the identity the tile now has, and so was
   the one that opened the present stream, also across a switch of the
   identity with requests in flight; a challenge is at hand exactly when
   the tile may use it. *)
ProofIsOurs ==
  /\ auth.ready <=> auth.challenge # None
  /\ auth.ready => auth.challenge = identity
  /\ stream.open => node.key = identity

(* A node is called healthy for what it did on this connection: a
   configuration arrived on it, a heartbeat on the present scheduler
   stream, whose headers came; and ownership asked for in its name is
   withdrawn by whatever ends the connection, so while it stands the node
   did configure and authenticate this validator on this connection. *)
HealthyIsCurrent ==
  /\ Healthy => node.config /\ node.heartbeat /\ node.key = identity
  /\ active => node.config /\ node.key = identity

(* While a scheduler stream is live the node is told the leader state: one
   that is kept and not expired was sent on this very stream or is pending
   for it, whatever stream or connection it was first meant for. *)
LeaderStateTold ==
  stream.live /\ leader.slot # NONE /\ ~leader.expired => leader.pending \/ node.told

(* Once faults cease, an enabled client becomes healthy and asks for
   ownership, and stays so: no order of failures, late answers, identity
   switches and refused leader states leaves it waiting for ever, nor does
   a node that refuses the same leader slot each time it is told, nor an
   unknown leader schedule. *)
Recovers == <>[](enabled => Healthy /\ active)
=============================================================================

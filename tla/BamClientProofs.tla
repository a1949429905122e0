--------------------------- MODULE BamClientProofs ---------------------------
(***************************************************************************)
(* The invariants of the gRPC client of the BAM tile (BamClient), for any  *)
(* number of streams, leader slots, faults and identities.                 *)
(*                                                                         *)
(* The inductive invariant Sound joins the types and the properties the    *)
(* model is checked for with Evidence: what the client believes of the     *)
(* node, the node did.  Most steps leave the session alone or end it       *)
(* (Close); the rest are taken one by one.                                 *)
(***************************************************************************)
EXTENDS BamClient, TLAPS

(* The records of the client, and the streams it may have. *)
StreamRec == [open : BOOLEAN, connecting : BOOLEAN, live : BOOLEAN,
              heartbeat : BOOLEAN, activity : {"none", "recent", "stale"}]
AuthRec   == [inflight : BOOLEAN, ready : BOOLEAN, challenge : Keys \cup {None}]
ConfigRec == [inflight : BOOLEAN, received : BOOLEAN, due : BOOLEAN]
LeaderRec == [slot : {NONE} \cup 1..LEADER_MAX, expired : BOOLEAN, pending : BOOLEAN]
NodeRec   == [config : BOOLEAN, heartbeat : BOOLEAN, key : Keys \cup {None},
              slot : {NONE} \cup 1..LEADER_MAX, told : BOOLEAN]
GateRec   == [timer : {"off", "running", "over"}, recheck : NONE..REPLAY_MAX + RECHECK_DELTA]

StreamsType == streams \in [Kinds -> [Phases -> Nat]]
StreamsOK   == StreamsType /\ InUse <= STREAM_MAX

(* The parts of TypeOK: the session, and all that outlives it. *)
SessionType ==
  /\ defer_reset \in BOOLEAN /\ active \in BOOLEAN
  /\ conn \in {"none", "dialing", "dialed", "refused", "handshake", "ready", "dead"}
  /\ StreamsOK
  /\ stream \in StreamRec
  /\ auth \in AuthRec
  /\ config \in ConfigRec
  /\ leader \in LeaderRec
  /\ node \in NodeRec

TileType ==
  /\ enabled \in BOOLEAN /\ backoff \in BOOLEAN /\ ping_late \in BOOLEAN
  /\ next_leader \in BOOLEAN /\ halt_signing \in BOOLEAN
  /\ pc \in {"idle", "io"}
  /\ gate \in GateRec
  /\ identity \in Keys /\ signer \in Keys
  /\ keyswitch \in {"unlocked", "switch", "switched", "unhalt"}
  /\ faults \in 0..FAULT_MAX /\ stages \in 0..STAGE_MAX

(* What the client believes of the node, the node did: a configuration on
   this connection, a heartbeat on the present stream, and what it was
   given ownership for. *)
Evidence ==
  /\ config.received => node.config
  /\ stream.live /\ stream.heartbeat => node.heartbeat
  /\ active => node.config /\ node.key = identity

SInv == WaitsForSomething /\ ProofIsOurs /\ Evidence /\ LeaderStateTold

(* The type invariant is that of the session and that of the tile. *)
LEMMA TypeParts == TypeOK <=> SessionType /\ TileType
BY DEF TypeOK, SessionType, TileType, StreamsOK, StreamsType,
       StreamRec, AuthRec, ConfigRec, LeaderRec, NodeRec, GateRec

(* The bounds are natural numbers. *)
LEMMA Bounds ==
  /\ STREAM_MAX \in Nat /\ STREAM_MAX > 0
  /\ LEADER_MAX \in Nat /\ REPLAY_MAX \in Nat
  /\ RECHECK_DELTA \in Nat /\ RECHECK_DELTA > 0
  /\ SLOTS_PER_EPOCH \in Nat /\ SLOTS_PER_EPOCH > 0
  /\ STAGE_MAX \in Nat /\ FAULT_MAX \in Nat
  /\ FirstKey \in Keys /\ None \notin Keys
BY ClientConstants

-----------------------------------------------------------------------------
(* The stream objects of the gRPC client. *)

(* The counts of streams are numbers. *)
LEMMA CountsNat ==
  ASSUME StreamsType
  PROVE  /\ \A kind \in Kinds : Outstanding(kind) \in Nat
         /\ InUse \in Nat
         /\ \A kind \in Kinds, phase \in Phases :
              /\ streams[kind][phase] \in Nat
              /\ Has(kind, phase) => Outstanding(kind) > 0
<1>1. \A kind \in Kinds, phase \in Phases : streams[kind][phase] \in Nat
  BY DEF StreamsType
<1>2. \A kind \in Kinds : Outstanding(kind) \in Nat
  BY <1>1 DEF Outstanding, Phases
<1>3. InUse \in Nat
  BY <1>2 DEF InUse, Kinds
<1>4. \A kind \in Kinds, phase \in Phases : Has(kind, phase) => Outstanding(kind) > 0
  BY <1>1 DEF Has, Outstanding, Phases
<1> QED BY <1>1, <1>2, <1>3, <1>4

(* A stream given back to the pool is one less of its kind, and leaves the
   other streams alone. *)
LEMMA ReleaseCounts ==
  ASSUME StreamsType, NEW kind \in Kinds, NEW phase \in Phases, Release(kind, phase)
  PROVE  /\ StreamsType'
         /\ Outstanding(kind)' = Outstanding(kind) - 1 /\ Outstanding(kind) > 0
         /\ InUse' = InUse - 1
         /\ \A k \in Kinds : k # kind => streams'[k] = streams[k]
<1>1. StreamsType' /\ (\A k \in Kinds : k # kind => streams'[k] = streams[k])
  BY DEF StreamsType, Release, Has, Kinds, Phases
<1>2. /\ streams'[kind][phase] = streams[kind][phase] - 1
      /\ \A p \in Phases : p # phase => streams'[kind][p] = streams[kind][p]
      /\ streams[kind][phase] > 0
  BY DEF StreamsType, Release, Has, Kinds, Phases
<1>3. \A k \in Kinds, p \in Phases : streams[k][p] \in Nat
  BY DEF StreamsType
<1>4. Outstanding(kind)' = Outstanding(kind) - 1 /\ Outstanding(kind) > 0
  BY <1>2, <1>3 DEF Outstanding, Phases
<1>5. \A k \in Kinds : k # kind => Outstanding(k)' = Outstanding(k)
  BY <1>1 DEF Outstanding
<1>6. \A k \in Kinds : Outstanding(k) \in Nat
  BY CountsNat
<1>7. InUse' = InUse - 1
  <2>1. CASE kind = "challenge"
    BY <2>1, <1>4, <1>5, <1>6 DEF InUse, Kinds
  <2>2. CASE kind = "config"
    BY <2>2, <1>4, <1>5, <1>6 DEF InUse, Kinds
  <2>3. CASE kind = "scheduler"
    BY <2>3, <1>4, <1>5, <1>6 DEF InUse, Kinds
  <2> QED BY <2>1, <2>2, <2>3 DEF Kinds
<1> QED BY <1>1, <1>4, <1>7

(* A stream whose answer or headers come stays one of its kind. *)
LEMMA AdvanceCounts ==
  ASSUME StreamsType, NEW kind \in Kinds, NEW from \in Phases, NEW to \in Phases,
         from # to, Advance(kind, from, to)
  PROVE  /\ StreamsType'
         /\ Outstanding(kind)' = Outstanding(kind)
         /\ InUse' = InUse
         /\ \A k \in Kinds : k # kind => streams'[k] = streams[k]
         /\ streams[kind][from] > 0
         /\ streams'[kind][from] = streams[kind][from] - 1
         /\ streams'[kind][to] = streams[kind][to] + 1
         /\ \A p \in Phases \ {from, to} : streams'[kind][p] = streams[kind][p]
<1>1. StreamsType' /\ (\A k \in Kinds : k # kind => streams'[k] = streams[k])
  BY DEF StreamsType, Advance, Has
<1>2. /\ streams'[kind][from] = streams[kind][from] - 1
      /\ streams'[kind][to] = streams[kind][to] + 1
      /\ \A p \in Phases \ {from, to} : streams'[kind][p] = streams[kind][p]
      /\ streams[kind][from] > 0
  BY DEF StreamsType, Advance, Has
<1>3. \A k \in Kinds, p \in Phases : streams[k][p] \in Nat
  BY DEF StreamsType
<1>4. Outstanding(kind)' = Outstanding(kind)
  BY <1>2, <1>3 DEF Outstanding, Phases
<1>5. \A k \in Kinds : Outstanding(k)' = Outstanding(k)
  BY <1>1, <1>4 DEF Outstanding
<1>6. InUse' = InUse
  BY <1>5 DEF InUse, Kinds
<1> QED BY <1>1, <1>2, <1>4, <1>6

(* A new request is one more stream of its kind. *)
LEMMA StartCounts ==
  ASSUME StreamsType, NEW kind \in Kinds, RequestStart(kind)
  PROVE  /\ StreamsType'
         /\ Outstanding(kind)' = Outstanding(kind) + 1
         /\ InUse' = InUse + 1
         /\ \A k \in Kinds : k # kind => streams'[k] = streams[k]
         /\ streams'[kind]["open"] = streams[kind]["open"] + 1
         /\ \A p \in Phases \ {"open"} : streams'[kind][p] = streams[kind][p]
<1>1. StreamsType' /\ (\A k \in Kinds : k # kind => streams'[k] = streams[k])
  BY DEF StreamsType, RequestStart, Phases
<1>2. /\ streams'[kind]["open"] = streams[kind]["open"] + 1
      /\ \A p \in Phases \ {"open"} : streams'[kind][p] = streams[kind][p]
  BY DEF StreamsType, RequestStart, Phases
<1>3. \A k \in Kinds, p \in Phases : streams[k][p] \in Nat
  BY DEF StreamsType
<1>4. Outstanding(kind)' = Outstanding(kind) + 1
  BY <1>2, <1>3 DEF Outstanding, Phases
<1>5. \A k \in Kinds : k # kind => Outstanding(k)' = Outstanding(k)
  BY <1>1 DEF Outstanding
<1>6. \A k \in Kinds : Outstanding(k) \in Nat
  BY CountsNat
<1>7. InUse' = InUse + 1
  <2>1. CASE kind = "challenge"
    BY <2>1, <1>4, <1>5, <1>6 DEF InUse, Kinds
  <2>2. CASE kind = "config"
    BY <2>2, <1>4, <1>5, <1>6 DEF InUse, Kinds
  <2>3. CASE kind = "scheduler"
    BY <2>3, <1>4, <1>5, <1>6 DEF InUse, Kinds
  <2> QED BY <2>1, <2>2, <2>3 DEF Kinds
<1> QED BY <1>1, <1>2, <1>4, <1>7

-----------------------------------------------------------------------------
(* Types. *)

(* The empty records are records. *)
LEMMA EmptyRecords ==
  /\ StreamNone \in StreamRec /\ AuthNone \in AuthRec /\ ConfigNone \in ConfigRec
  /\ SessionNone \in NodeRec /\ LeaderNone \in LeaderRec
  /\ [timer |-> "off", recheck |-> NONE] \in GateRec
  /\ [timer |-> "off", recheck |-> DUE] \in GateRec
<1>1. StreamNone \in StreamRec /\ AuthNone \in AuthRec /\ ConfigNone \in ConfigRec
  BY DEF StreamNone, StreamRec, AuthNone, AuthRec, ConfigNone, ConfigRec
<1>2. SessionNone \in NodeRec /\ LeaderNone \in LeaderRec
  BY DEF SessionNone, NodeRec, LeaderNone, LeaderRec
<1>3. /\ [timer |-> "off", recheck |-> NONE] \in GateRec
      /\ [timer |-> "off", recheck |-> DUE] \in GateRec
  BY Bounds DEF GateRec, NONE, DUE
<1> QED BY <1>1, <1>2, <1>3

(* With no streams there is room for one. *)
LEMMA NoStreamsOK ==
  ASSUME streams = NoStreams
  PROVE  StreamsOK /\ \A kind \in Kinds : Outstanding(kind) = 0
<1>1. StreamsType
  BY DEF NoStreams, StreamsType
<1>2. \A kind \in Kinds, phase \in Phases : streams[kind][phase] = 0
  BY DEF NoStreams
<1>3. \A kind \in Kinds : Outstanding(kind) = 0
  BY <1>2 DEF Outstanding, Phases
<1> QED BY <1>1, <1>3, Bounds DEF StreamsOK, InUse, Kinds

(* A session that is closed has the type of one. *)
LEMMA CloseType ==
  ASSUME NEW c \in {"none", "dialing"}, NEW kept \in LeaderRec, Close(c, kept)
  PROVE  SessionType'
<1>1. StreamsOK'
  <2>1. StreamsType'
    BY DEF Close, NoStreams, StreamsType
  <2>2. \A kind \in Kinds, phase \in Phases : streams'[kind][phase] = 0
    BY DEF Close, NoStreams
  <2>3. \A kind \in Kinds : Outstanding(kind)' = 0
    BY <2>2 DEF Outstanding, Phases
  <2> QED BY <2>1, <2>3, Bounds DEF StreamsOK, InUse, Kinds
<1> QED
  BY <1>1, EmptyRecords DEF Close, SessionType

(* Dropping what is pending leaves a leader state. *)
LEMMA LeaderKept ==
  ASSUME SessionType
  PROVE  DropPending \in LeaderRec
BY DEF SessionType, DropPending, LeaderRec

(* A reset keeps the types. *)
LEMMA ResetType ==
  ASSUME SessionType, NEW c \in {"none", "dialing"}, ResetTo(c)
  PROVE  SessionType' /\ backoff' \in BOOLEAN /\ gate' \in GateRec
BY CloseType, LeaderKept, EmptyRecords DEF ResetTo

(* Streams that nobody touches keep their type. *)
LEMMA QuietStreams ==
  ASSUME StreamsOK, UNCHANGED streams
  PROVE  StreamsOK'
BY DEF StreamsOK, StreamsType, InUse, Outstanding

(* A session that nobody touches keeps its type. *)
LEMMA QuietType ==
  ASSUME SessionType, UNCHANGED session
  PROVE  SessionType'
BY QuietStreams DEF SessionType, session

(* A fault is counted up to its bound. *)
LEMMA FaultType ==
  ASSUME TileType, Fault \/ UNCHANGED faults
  PROVE  faults' \in 0..FAULT_MAX
BY Bounds DEF TileType, Fault

(* A gate whose timer is set is a gate. *)
LEMMA GateTimer ==
  ASSUME TileType, NEW t \in {"off", "running", "over"}
  PROVE  [gate EXCEPT !.timer = t] \in GateRec
BY DEF TileType, GateRec

(* The start of a step of the client keeps the types. *)
LEMMA StepBeginType ==
  ASSUME SessionType, TileType, StepBegin
  PROVE  SessionType' /\ TileType'
<1>0. UNCHANGED <<tile, next_leader, stages>>
  BY DEF StepBegin
<1>t. ASSUME backoff' \in BOOLEAN, ping_late' \in BOOLEAN, gate' \in GateRec,
             faults' \in 0..FAULT_MAX, pc' \in {"idle", "io"}
      PROVE  TileType'
  BY <1>0, <1>t DEF TileType, tile
<1>1. CASE StepDisabled
  <2>1. SessionType'
    BY <1>1, QuietType DEF StepDisabled
  <2> QED BY <2>1, <1>1, <1>t, EmptyRecords DEF StepDisabled, TileType
<1>2. CASE StepConnect
  <2>1. SessionType' /\ backoff' \in BOOLEAN /\ gate' \in GateRec
    <3>1. CASE gate' = [gate EXCEPT !.timer = "off"] /\ UNCHANGED <<session, backoff>>
      BY <3>1, QuietType, GateTimer DEF TileType
    <3>2. CASE /\ conn' = "handshake" /\ gate' = [gate EXCEPT !.timer = "off"]
               /\ UNCHANGED <<defer_reset, streams, stream, auth, config, active, leader, node, backoff>>
      BY <3>2, GateTimer, QuietStreams DEF TileType, SessionType
    <3>3. CASE ClientReset
      BY <3>3, ResetType DEF ClientReset
    <3> QED BY <1>2, <3>1, <3>2, <3>3 DEF StepConnect
  <2> QED BY <2>1, <1>2, <1>t DEF StepConnect, TileType
<1>3. CASE StepWatch
  <2>1. SessionType' /\ backoff' \in BOOLEAN /\ gate' \in GateRec
    BY <1>3, ResetType DEF StepWatch, ClientReset
  <2> QED BY <2>1, <1>3, <1>t DEF StepWatch, TileType
<1>4. CASE StepDrive
  <2>1. SessionType'
    BY <1>4, QuietType DEF StepDrive
  <2> QED BY <2>1, <1>4, <1>t, GateTimer DEF StepDrive, TileType
<1>5. ASSUME NEW queued \in BOOLEAN, StepGated(queued)
      PROVE  SessionType' /\ TileType'
  <2>1. SessionType'
    BY <1>5, QuietType DEF StepGated
  <2> QED BY <2>1, <1>5, <1>t, GateTimer DEF StepGated, TileType
<1>6. ASSUME NEW queued \in BOOLEAN, StepDial(queued)
      PROVE  SessionType' /\ TileType'
  <2>1. CASE gate' = PassedGate(queued) /\ UNCHANGED <<session, faults, backoff, ping_late>>
    <3>1. SessionType'
      BY <2>1, QuietType
    <3>2. gate' \in GateRec
      BY <2>1, EmptyRecords, GateTimer DEF PassedGate, TileType
    <3> QED BY <3>1, <3>2, <2>1, <1>6, <1>t DEF StepDial, TileType
  <2>2. CASE CreateConn
    <3>1. SessionType' /\ backoff' \in BOOLEAN /\ gate' \in GateRec
      BY <2>2, ResetType DEF CreateConn, ClientReset
    <3>2. faults' \in 0..FAULT_MAX /\ ping_late' \in BOOLEAN
      BY <2>2, FaultType DEF CreateConn, TileType
    <3> QED BY <3>1, <3>2, <1>6, <1>t DEF StepDial, TileType
  <2> QED BY <2>1, <2>2, <1>6 DEF StepDial
<1> QED BY <1>1, <1>2, <1>3, <1>4, <1>5, <1>6 DEF StepBegin

(* A callback keeps the types if it keeps those of what it may change. *)
LEMMA CallbackType ==
  ASSUME TileType, UNCHANGED <<tile, hints, stages, pc>>,
         backoff' \in BOOLEAN, ping_late' \in BOOLEAN, faults' \in 0..FAULT_MAX
  PROVE  TileType'
BY DEF TileType, tile, hints

(* A request that fails leaves the records what they are. *)
LEMMA FailedType ==
  ASSUME SessionType, NEW kind \in Kinds,
         NEW kept \in LeaderRec,
         RequestFailed(kind, kept)
  PROVE  /\ backoff' \in BOOLEAN
         /\ auth' \in AuthRec
         /\ config' \in ConfigRec
         /\ stream' \in StreamRec
         /\ leader' \in LeaderRec
<1>1. auth' \in AuthRec
  BY EmptyRecords DEF SessionType, AuthRec, RequestFailed, Kinds
<1>2. stream' \in StreamRec
  BY DEF SessionType, StreamRec, RequestFailed, ClearStream
<1>3. config' \in ConfigRec
  BY DEF SessionType, ConfigRec, RequestFailed
<1>4. leader' \in LeaderRec
  BY DEF LeaderRec, RequestFailed
<1> QED BY <1>1, <1>2, <1>3, <1>4 DEF RequestFailed

(* The callbacks of the gRPC client keep the types. *)
LEMMA CallbacksType ==
  ASSUME SessionType, TileType, Callbacks
  PROVE  SessionType' /\ TileType'
<1>0. UNCHANGED <<tile, hints, stages, pc>>
  BY DEF Callbacks, Callback
<1>s. StreamsType /\ InUse \in Nat /\ InUse <= STREAM_MAX
  BY CountsNat DEF SessionType, StreamsOK
<1>u. UNCHANGED streams => StreamsOK'
  BY QuietStreams DEF SessionType
<1>r. ASSUME NEW kind \in Kinds, NEW phase \in Phases, Release(kind, phase)
      PROVE  StreamsOK'
  BY <1>s, <1>r, ReleaseCounts, Bounds DEF StreamsOK
<1>a. ASSUME NEW kind \in Kinds, NEW from \in Phases, NEW to \in Phases, from # to,
             Advance(kind, from, to)
      PROVE  StreamsOK'
  BY <1>s, <1>a, AdvanceCounts, Bounds DEF StreamsOK
<1>f. Fault \/ UNCHANGED faults => faults' \in 0..FAULT_MAX
  BY FaultType
<1>t. ASSUME backoff' \in BOOLEAN, ping_late' \in BOOLEAN, faults' \in 0..FAULT_MAX
      PROVE  TileType'
  BY <1>0, <1>t, CallbackType
<1>1. CASE GrpcConnEstablished
  BY <1>1, <1>u, <1>t DEF GrpcConnEstablished, SessionType, TileType
<1>2. CASE GrpcConnDead
  BY <1>2, <1>u, <1>f, <1>t DEF GrpcConnDead, SessionType, TileType
<1>3. CASE GrpcPingAck
  <2>1. SessionType'
    BY <1>3, QuietType DEF GrpcPingAck
  <2> QED BY <1>3, <2>1, <1>t DEF GrpcPingAck, TileType
<1>4. CASE HandleAuthChallenge
  <2>1. StreamsOK'
    BY <1>4, <1>a DEF HandleAuthChallenge, Kinds, Phases
  <2>2. SignedChallenge \in AuthRec
    BY EmptyRecords DEF SignedChallenge, AuthRec, TileType
  <2>3. auth' \in AuthRec /\ backoff' \in BOOLEAN /\ faults' \in 0..FAULT_MAX
    BY <1>4, <1>f, <2>2, EmptyRecords DEF HandleAuthChallenge, TileType
  <2>4. SessionType'
    BY <1>4, <2>1, <2>3 DEF HandleAuthChallenge, SessionType
  <2> QED BY <1>4, <2>3, <2>4, <1>t DEF HandleAuthChallenge, TileType
<1>5. CASE HandleConfig
  <2>1. StreamsOK'
    BY <1>5, <1>a DEF HandleConfig, Kinds, Phases
  <2>2. config' \in ConfigRec
    BY <1>5 DEF HandleConfig, SessionType, ConfigRec
  <2>3. node' \in NodeRec
    BY <1>5 DEF HandleConfig, SessionType, NodeRec
  <2>4. active' \in BOOLEAN
    BY <1>5 DEF HandleConfig, HealthyIf, SessionType
  <2>5. SessionType'
    BY <1>5, <2>1, <2>2, <2>3, <2>4 DEF HandleConfig, SessionType
  <2>6. faults' \in 0..FAULT_MAX
    BY <1>5, <1>f DEF HandleConfig
  <2> QED BY <1>5, <2>5, <2>6, <1>t DEF HandleConfig, TileType
<1>6. CASE RxStart
  <2>1. StreamsOK'
    BY <1>6, <1>a DEF RxStart, Kinds, Phases
  <2>2. stream' \in StreamRec
    BY <1>6 DEF RxStart, StreamAtStart, SessionType, StreamRec
  <2>3. leader' \in LeaderRec
    BY <1>6, EmptyRecords DEF RxStart, LeaderAtStart, SessionType, LeaderRec
  <2>4. SessionType'
    BY <1>6, <2>1, <2>2, <2>3 DEF RxStart, SessionType
  <2> QED BY <1>6, <2>4, <1>t, <1>f DEF RxStart, TileType
<1>7. CASE RxHeartbeat
  <2>1. stream' \in StreamRec
    BY <1>7 DEF RxHeartbeat, SessionType, StreamRec
  <2>2. node' \in NodeRec
    BY <1>7 DEF RxHeartbeat, SessionType, NodeRec
  <2>3. SessionType'
    BY <1>7, <1>u, <2>1, <2>2 DEF RxHeartbeat, SessionType
  <2> QED BY <1>7, <2>3, <1>t, <1>f DEF RxHeartbeat, TileType
<1>8. CASE RxUnsupported
  BY <1>8, <1>u, <1>f, <1>t DEF RxUnsupported, SessionType, TileType
<1>9. CASE RxEndRejected
  <2>1. StreamsOK'
    BY <1>9, <1>r DEF RxEndRejected, Kinds, Phases
  <2>2. UnlessRejected(node.slot) \in LeaderRec
    BY EmptyRecords DEF UnlessRejected, SessionType
  <2>3. RequestFailed("scheduler", UnlessRejected(node.slot))
    BY <1>9 DEF RxEndRejected
  <2>4. /\ backoff' \in BOOLEAN /\ auth' \in AuthRec /\ config' \in ConfigRec
        /\ stream' \in StreamRec /\ leader' \in LeaderRec
    BY <2>2, <2>3, FailedType DEF Kinds
  <2>5. SessionType'
    BY <1>9, <2>1, <2>4 DEF RxEndRejected, SessionType
  <2> QED BY <1>9, <2>4, <2>5, <1>f, <1>t DEF RxEndRejected, TileType
<1>10. ASSUME NEW kind \in Kinds, RxEndHttp(kind)
       PROVE  SessionType' /\ TileType'
  <2>1. StreamsOK'
    BY <1>10, <1>r DEF RxEndHttp, Phases
  <2>2. /\ backoff' \in BOOLEAN /\ auth' \in AuthRec /\ config' \in ConfigRec
        /\ stream' \in StreamRec /\ leader' \in LeaderRec
    BY <1>10, FailedType DEF RxEndHttp, SessionType
  <2>3. SessionType'
    BY <1>10, <2>1, <2>2 DEF RxEndHttp, SessionType
  <2> QED BY <1>10, <2>2, <2>3, <1>f, <1>t DEF RxEndHttp, TileType
<1>11. ASSUME NEW kind \in Kinds, NEW phase \in Phases, RxEndFailed(kind, phase)
       PROVE  SessionType' /\ TileType'
  <2>1. StreamsOK'
    BY <1>11, <1>r DEF RxEndFailed
  <2>2. /\ backoff' \in BOOLEAN /\ auth' \in AuthRec /\ config' \in ConfigRec
        /\ stream' \in StreamRec /\ leader' \in LeaderRec
    <3>1. CASE RequestFailed(kind, leader)
      BY <3>1, FailedType DEF SessionType
    <3>2. CASE ~RequestFailed(kind, leader)
      <4>1. auth' \in AuthRec
        BY <3>2, <1>11 DEF RxEndFailed, SessionType, AuthRec
      <4>2. config' \in ConfigRec
        BY <3>2, <1>11 DEF RxEndFailed, SessionType, ConfigRec
      <4> QED BY <4>1, <4>2, <3>2, <1>11 DEF RxEndFailed, SessionType
    <3> QED BY <3>1, <3>2
  <2>3. defer_reset' \in BOOLEAN
    BY <1>11 DEF RxEndFailed, SessionType
  <2>4. SessionType'
    BY <1>11, <2>1, <2>2, <2>3 DEF RxEndFailed, SessionType
  <2> QED BY <1>11, <2>2, <2>4, <1>f, <1>t DEF RxEndFailed, TileType
<1>12. ASSUME NEW kind \in Kinds, NEW phase \in Phases, RxEndOk(kind, phase)
       PROVE  SessionType' /\ TileType'
  <2>1. StreamsOK'
    BY <1>12, <1>r DEF RxEndOk
  <2>2. auth' \in AuthRec
    BY <1>12 DEF RxEndOk, SessionType, AuthRec, Kinds
  <2>3. config' \in ConfigRec
    BY <1>12 DEF RxEndOk, SessionType, ConfigRec, Kinds
  <2>4. stream' \in StreamRec
    BY <1>12 DEF RxEndOk, SessionType, StreamRec, ClearStream, Kinds
  <2>5. leader' \in LeaderRec
    BY <1>12, LeaderKept DEF RxEndOk, SessionType, Kinds
  <2>6. backoff' \in BOOLEAN /\ defer_reset' \in BOOLEAN
    BY <1>12 DEF RxEndOk, SessionType, TileType, Kinds
  <2>7. faults' \in 0..FAULT_MAX
    BY <1>12, <1>f DEF RxEndOk
  <2>8. SessionType'
    BY <1>12, <2>1, <2>2, <2>3, <2>4, <2>5, <2>6 DEF RxEndOk, SessionType
  <2> QED BY <1>12, <2>6, <2>7, <2>8, <1>t DEF RxEndOk, TileType
<1>13. ASSUME NEW kind \in Kinds, NEW phase \in Phases, RxTimeout(kind, phase)
       PROVE  SessionType' /\ TileType'
  <2>1. StreamsOK'
    BY <1>13, <1>r DEF RxTimeout
  <2>2. auth' \in AuthRec
    BY <1>13, EmptyRecords DEF RxTimeout, SessionType
  <2>3. config' \in ConfigRec
    BY <1>13 DEF RxTimeout, SessionType, ConfigRec
  <2>4. SessionType'
    BY <1>13, <2>1, <2>2, <2>3 DEF RxTimeout, SessionType
  <2> QED BY <1>13, <2>4, <1>f, <1>t DEF RxTimeout, TileType
<1> QED
  BY <1>1, <1>2, <1>3, <1>4, <1>5, <1>6, <1>7, <1>8, <1>9, <1>10, <1>11, <1>12, <1>13
  DEF Callbacks, Callback

(* Sending a leader state, or keeping it for later, leaves the records what
   they are. *)
LEMMA SendType ==
  ASSUME SessionType, NEW l \in LeaderRec, NEW taken \in BOOLEAN, SendLeaderState(l, taken)
  PROVE  leader' \in LeaderRec /\ node' \in NodeRec
<1>1. leader' \in LeaderRec
  BY EmptyRecords DEF SendLeaderState, LeaderRec
<1>2. node' \in NodeRec
  BY DEF SendLeaderState, SessionType, LeaderRec, NodeRec
<1> QED BY <1>1, <1>2

(* So does pushing a pending leader state. *)
LEMMA PushType ==
  ASSUME SessionType, NEW taken \in BOOLEAN, PushLeaderState(taken)
  PROVE  leader' \in LeaderRec /\ node' \in NodeRec
BY SendType DEF PushLeaderState, SessionType

(* The requests at the end of a step find a free stream. *)
LEMMA ReconnectType ==
  ASSUME SessionType, ~Blocked, StepReconnect
  PROVE  SessionType'
<1>s. ASSUME NEW kind \in Kinds, RequestStart(kind)
      PROVE  StreamsOK'
  <2>1. StreamsType /\ InUse \in Nat
    BY CountsNat DEF SessionType, StreamsOK
  <2>2. InUse < STREAM_MAX
    BY <2>1, Bounds DEF Blocked
  <2> QED BY <1>s, <2>1, <2>2, StartCounts, Bounds DEF StreamsOK
<1>0. UNCHANGED <<conn, defer_reset, active>>
  BY DEF StepReconnect
<1>1. CASE RequestAuthChallenge
  <2>1. StreamsOK'
    BY <1>1, <1>s DEF RequestAuthChallenge, Kinds
  <2>2. auth' \in AuthRec
    BY <1>1 DEF RequestAuthChallenge, SessionType, AuthRec
  <2> QED BY <1>0, <1>1, <2>1, <2>2 DEF RequestAuthChallenge, SessionType
<1>2. CASE TryStartStream
  <2>1. StreamsOK'
    BY <1>2, <1>s DEF TryStartStream, Kinds
  <2>2. auth' \in AuthRec
    BY <1>2 DEF TryStartStream, SpendChallenge, SessionType, AuthRec
  <2>3. stream' \in StreamRec
    BY <1>2 DEF TryStartStream, SessionType, StreamRec
  <2>4. auth.challenge \in Keys \cup {None}
    BY DEF SessionType, AuthRec
  <2>5. node' \in NodeRec
    BY <1>2, <2>4 DEF TryStartStream, SessionType, NodeRec
  <2> QED BY <1>0, <1>2, <2>1, <2>2, <2>3, <2>5 DEF TryStartStream, SessionType
<1>3. CASE RequestConfig
  <2>1. StreamsOK'
    BY <1>3, <1>s DEF RequestConfig, Kinds
  <2>2. config' \in ConfigRec
    BY <1>3 DEF RequestConfig, SessionType, ConfigRec
  <2>3. leader' \in LeaderRec /\ node' \in NodeRec
    BY <1>3, PushType DEF RequestConfig
  <2> QED BY <1>0, <1>3, <2>1, <2>2, <2>3 DEF RequestConfig, SessionType
<1>4. CASE SendUpdates
  <2>1. StreamsOK'
    BY <1>4, QuietStreams DEF SendUpdates, SessionType
  <2>2. leader' \in LeaderRec /\ node' \in NodeRec
    BY <1>4, PushType DEF SendUpdates
  <2> QED BY <1>0, <1>4, <2>1, <2>2 DEF SendUpdates, SessionType
<1> QED BY <1>1, <1>2, <1>3, <1>4 DEF StepReconnect

(* The end of a step keeps the types. *)
LEMMA StepEndType ==
  ASSUME SessionType, TileType, StepEnd \/ StepEndFault
  PROVE  SessionType' /\ TileType'
<1>0. /\ UNCHANGED <<tile, next_leader, stages, ping_late>> /\ pc' = "idle"
  BY DEF StepEnd, StepEndFault
<1>t. ASSUME backoff' \in BOOLEAN, gate' \in GateRec, faults' \in 0..FAULT_MAX
      PROVE  TileType'
  BY <1>0, <1>t DEF TileType, tile
<1>1. faults' \in 0..FAULT_MAX
  BY FaultType DEF StepEnd, StepEndFault, StepReconnect
<1>2. CASE ClientReset
  BY <1>1, <1>2, <1>t, ResetType DEF ClientReset
<1>3. CASE UNCHANGED <<session, gate, backoff>>
  BY <1>1, <1>3, <1>t, QuietType DEF TileType
<1>4. CASE ~Blocked /\ StepReconnect
  <2>1. SessionType'
    BY <1>4, ReconnectType
  <2> QED BY <1>1, <1>4, <1>t, <2>1 DEF StepReconnect, TileType
<1> QED BY <1>2, <1>3, <1>4 DEF StepEnd, StepEndFault

(* Housekeeping keeps the types. *)
LEMMA HousekeepingType ==
  ASSUME SessionType, TileType, NEW cmd \in Commands, Housekeeping(cmd)
  PROVE  SessionType' /\ TileType'
<1>1. SessionType'
  <2>1. CASE EndsSession(cmd)
    <3>1. Close("none", IF SwitchKey THEN LeaderNone ELSE DropPending)
      BY <2>1 DEF Housekeeping
    <3>2. (IF SwitchKey THEN LeaderNone ELSE DropPending) \in LeaderRec
      BY LeaderKept, EmptyRecords
    <3> QED BY <3>1, <3>2, CloseType
  <2>2. CASE ~EndsSession(cmd)
    <3>1. active' \in BOOLEAN
      BY <2>2 DEF Housekeeping, Healthy, HealthyIf
    <3> QED BY <2>2, <3>1, QuietStreams DEF Housekeeping, SessionType
  <2> QED BY <2>1, <2>2
<1>2. gate' \in GateRec
  BY EmptyRecords DEF Housekeeping, TileType
<1>3. faults' \in 0..FAULT_MAX
  BY FaultType DEF Housekeeping
<1>4. enabled' \in BOOLEAN /\ halt_signing' \in BOOLEAN
  BY DEF Housekeeping, TileType
<1>5. keyswitch' \in {"unlocked", "switch", "switched", "unhalt"}
  BY DEF Housekeeping, TileType
<1>6. backoff' \in BOOLEAN /\ next_leader' \in BOOLEAN
  BY DEF Housekeeping
<1>7. identity' \in Keys
  BY DEF Housekeeping, TileType
<1> QED
  BY <1>1, <1>2, <1>3, <1>4, <1>5, <1>6, <1>7 DEF Housekeeping, TileType

(* The slot at which a schedule is looked at again is bounded. *)
LEMMA RecheckBounds ==
  ASSUME TileType, NEW known \in BOOLEAN, NEW slot \in 1..REPLAY_MAX, NEW left \in Nat,
         NoteReplaySlot(known, slot, left)
  PROVE  gate' \in GateRec
<1>1. gate.recheck \in NONE..REPLAY_MAX + RECHECK_DELTA /\ gate.timer \in {"off", "running", "over"}
  BY DEF TileType, GateRec
<1>2. RecheckTarget(slot, left) \in NONE..REPLAY_MAX + RECHECK_DELTA
  BY Bounds DEF RecheckTarget, NONE
<1>3. RecheckSlot(known, slot, left) \in NONE..REPLAY_MAX + RECHECK_DELTA
  <2>1. NONE \in NONE..REPLAY_MAX + RECHECK_DELTA /\ DUE \in NONE..REPLAY_MAX + RECHECK_DELTA
    BY Bounds DEF NONE, DUE
  <2> QED BY <2>1, <1>1, <1>2 DEF RecheckSlot
<1> QED BY <1>1, <1>3 DEF NoteReplaySlot, GateRec

(* Leader states from pack and slots from replay keep the types. *)
LEMMA FragmentsType ==
  ASSUME SessionType, TileType, Fragments
  PROVE  SessionType' /\ TileType'
<1>1. ASSUME NEW slot \in 1..LEADER_MAX, NEW expired \in BOOLEAN, StageLeaderState(slot, expired)
      PROVE  SessionType' /\ TileType'
  <2> DEFINE l == [slot |-> slot, expired |-> expired, pending |-> TRUE]
  <2>1. l \in LeaderRec
    BY DEF LeaderRec
  <2>2. leader' \in LeaderRec /\ node' \in NodeRec
    <3>1. CASE \E taken \in BOOLEAN : SendLeaderState(l, taken)
      BY <2>1, <3>1, SendType
    <3>2. CASE leader' = l /\ node' = [node EXCEPT !.told = FALSE]
      BY <2>1, <3>2 DEF SessionType, NodeRec
    <3> QED BY <1>1, <3>1, <3>2 DEF StageLeaderState
  <2>3. SessionType'
    BY <1>1, <2>2, QuietStreams DEF StageLeaderState, SessionType
  <2>4. stages' \in 0..STAGE_MAX
    BY <1>1, Bounds DEF StageLeaderState, TileType
  <2> QED BY <1>1, <2>3, <2>4 DEF StageLeaderState, TileType, tile, hints
<1>2. ASSUME NEW known \in BOOLEAN, NEW slot \in 1..REPLAY_MAX, ReplayReset(known, slot)
      PROVE  SessionType' /\ TileType'
  <2>1. SessionType'
    BY <1>2, QuietType DEF ReplayReset
  <2>2. gate' \in GateRec
    BY <1>2, EmptyRecords, RecheckBounds, Bounds DEF ReplayReset
  <2>3. faults' \in 0..FAULT_MAX
    BY <1>2, FaultType DEF ReplayReset
  <2> QED BY <1>2, <2>1, <2>2, <2>3 DEF ReplayReset, TileType, tile
<1>3. ASSUME NEW slot \in 1..REPLAY_MAX, ReplaySlotCompleted(slot)
      PROVE  SessionType' /\ TileType'
  <2>1. SessionType'
    BY <1>3, QuietType DEF ReplaySlotCompleted
  <2>2. slot % SLOTS_PER_EPOCH \in 0..(SLOTS_PER_EPOCH - 1)
    BY Bounds
  <2>3. SLOTS_PER_EPOCH - (slot % SLOTS_PER_EPOCH) - 1 \in Nat
    BY <2>2, Bounds
  <2>4. gate' \in GateRec
    BY <1>3, <2>3, RecheckBounds DEF ReplaySlotCompleted, TileType
  <2> QED BY <1>3, <2>1, <2>4 DEF ReplaySlotCompleted, TileType, tile, budget
<1> QED BY <1>1, <1>2, <1>3 DEF Fragments

(* Time, the network and the command that switches identities keep the
   types. *)
LEMMA TimeType ==
  ASSUME SessionType, TileType, Time \/ SetIdentity \/ SignerSwitches
  PROVE  SessionType' /\ TileType'
<1>f. Fault \/ UNCHANGED faults => faults' \in 0..FAULT_MAX
  BY FaultType
<1>u. UNCHANGED streams => StreamsOK'
  BY QuietStreams DEF SessionType
<1>q. UNCHANGED session => SessionType'
  BY QuietType
<1>1. CASE BackoffEnds
  BY <1>1, <1>q DEF BackoffEnds, TileType, tile, hints, budget
<1>2. CASE GateTimerEnds
  <2>1. gate' \in GateRec
    BY <1>2, GateTimer DEF GateTimerEnds
  <2> QED BY <1>2, <1>q, <2>1 DEF GateTimerEnds, TileType, tile, budget
<1>3. CASE ConfigPollDue
  <2>1. config' \in ConfigRec
    BY <1>3 DEF ConfigPollDue, SessionType, ConfigRec
  <2> QED BY <1>3, <1>u, <2>1 DEF ConfigPollDue, SessionType, TileType, tile, hints, budget
<1>4. CASE LeaderExpires
  <2>1. leader' \in LeaderRec
    BY <1>4 DEF LeaderExpires, SessionType, LeaderRec
  <2> QED BY <1>4, <1>u, <2>1 DEF LeaderExpires, SessionType, TileType, tile, hints, budget
<1>5. CASE ActivityStale
  <2>1. stream' \in StreamRec
    BY <1>5 DEF ActivityStale, SessionType, StreamRec
  <2> QED BY <1>5, <1>u, <1>f, <2>1 DEF ActivityStale, SessionType, TileType, tile, hints
<1>6. CASE PingLate
  BY <1>6, <1>q, <1>f DEF PingLate, TileType, tile, hints
<1>7. ASSUME NEW outcome \in {"dialed", "refused"}, Connect(outcome)
      PROVE  SessionType' /\ TileType'
  BY <1>7, <1>u, <1>f, SMTT(60) DEF Connect, SessionType, TileType, tile, hints
<1>8. CASE SetIdentity
  BY <1>8, <1>q, <1>f DEF SetIdentity, TileType, hints
<1>9. CASE SignerSwitches
  BY <1>9, <1>q DEF SignerSwitches, TileType, hints, budget
<1> QED BY <1>1, <1>2, <1>3, <1>4, <1>5, <1>6, <1>7, <1>8, <1>9 DEF Time

(* Every step keeps the types. *)
LEMMA TypeStep ==
  ASSUME SessionType, TileType, [Next]_vars
  PROVE  SessionType' /\ TileType'
<1>1. CASE UNCHANGED vars
  BY <1>1, QuietType DEF vars, TileType, tile, hints, budget
<1>2. ASSUME NEW cmd \in Commands, Housekeeping(cmd)
      PROVE  SessionType' /\ TileType'
  BY <1>2, HousekeepingType
<1> QED
  BY <1>1, <1>2, StepBeginType, CallbacksType, StepEndType, FragmentsType, TimeType DEF Next

(* The types hold at boot. *)
LEMMA TypeInit ==
  ASSUME Init
  PROVE  SessionType /\ TileType
<1>1. SessionType
  BY NoStreamsOK, EmptyRecords DEF Init, SessionType
<1>2. faults \in 0..FAULT_MAX /\ stages \in 0..STAGE_MAX
  BY Bounds DEF Init
<1>3. identity \in Keys /\ signer \in Keys /\ gate \in GateRec
  BY EmptyRecords, Bounds DEF Init
<1>4. TileType
  BY <1>2, <1>3 DEF Init, TileType
<1> QED BY <1>1, <1>4

-----------------------------------------------------------------------------
(* The session. *)

(* Whoever is waited for stays, while the streams and what is known of
   them stay. *)
LEMMA WaitsFrame ==
  ASSUME WaitsForSomething, UNCHANGED <<streams, stream, auth, config>>, defer_reset' => pc' = "io"
  PROVE  WaitsForSomething'
BY DEF WaitsForSomething, Outstanding, Has

(* A proof stays ours while the key it names and the identity stay. *)
LEMMA ProofFrame ==
  ASSUME ProofIsOurs, UNCHANGED <<stream, auth, identity>>, node'.key = node.key
  PROVE  ProofIsOurs'
BY DEF ProofIsOurs

(* Evidence of the node stays while what it is about stays. *)
LEMMA EvidenceFrame ==
  ASSUME Evidence, UNCHANGED <<stream, config, active, identity>>, node'.key = node.key,
         node'.config = node.config, node'.heartbeat = node.heartbeat
  PROVE  Evidence'
BY DEF Evidence

(* A leader state stays told while it and the stream stay. *)
LEMMA ToldFrame ==
  ASSUME LeaderStateTold, UNCHANGED <<stream, leader, node>>
  PROVE  LeaderStateTold'
BY DEF LeaderStateTold

(* A session that nobody touches stays sound, if no reset is left waiting. *)
LEMMA QuietSession ==
  ASSUME SInv, UNCHANGED session, UNCHANGED identity, defer_reset => pc' = "io"
  PROVE  SInv'
BY WaitsFrame, ProofFrame, EvidenceFrame, ToldFrame DEF SInv, session

(* A closed session is sound, whatever the identity. *)
LEMMA ClosedSession ==
  ASSUME NEW c, NEW kept, Close(c, kept)
  PROVE  SInv'
<1>1. \A kind \in Kinds, phase \in Phases : streams'[kind][phase] = 0
  BY DEF Close, NoStreams
<1>2. \A kind \in Kinds : Outstanding(kind)' = 0
  BY <1>1 DEF Outstanding, Phases
<1>3. WaitsForSomething'
  BY <1>1, <1>2, SMTT(60) DEF Close, WaitsForSomething, Has, AuthNone, ConfigNone, StreamNone, Kinds, Phases
<1>4. ProofIsOurs'
  BY DEF Close, ProofIsOurs, AuthNone, StreamNone
<1>5. Evidence'
  BY DEF Close, Evidence, ConfigNone, StreamNone
<1>6. LeaderStateTold'
  BY DEF Close, LeaderStateTold, StreamNone
<1> QED BY <1>3, <1>4, <1>5, <1>6 DEF SInv

(* The start of a step. *)
LEMMA StepBeginSession ==
  ASSUME SInv, StepBegin
  PROVE  SInv'
<1>0. pc = "idle" /\ UNCHANGED identity /\ ~defer_reset
  BY DEF StepBegin, tile, SInv, WaitsForSomething
<1>q. UNCHANGED session => SInv'
  BY <1>0, QuietSession
<1>r. ASSUME NEW c, ResetTo(c)
      PROVE  SInv'
  BY <1>r, ClosedSession DEF ResetTo
<1>1. CASE StepDisabled
  BY <1>1, <1>q DEF StepDisabled
<1>2. CASE StepConnect
  <2>1. CASE UNCHANGED session
    BY <2>1, <1>q
  <2>2. CASE UNCHANGED <<defer_reset, streams, stream, auth, config, active, leader, node>>
    BY <1>0, <2>2, WaitsFrame, ProofFrame, EvidenceFrame, ToldFrame DEF SInv
  <2>3. CASE ClientReset
    BY <2>3, <1>r DEF ClientReset
  <2> QED BY <1>2, <2>1, <2>2, <2>3 DEF StepConnect
<1>3. CASE StepWatch
  BY <1>3, <1>r DEF StepWatch, ClientReset
<1>4. CASE StepDrive
  BY <1>4, <1>q DEF StepDrive
<1>5. ASSUME NEW queued \in BOOLEAN, StepGated(queued) \/ StepDial(queued)
      PROVE  SInv'
  BY <1>5, <1>q, <1>r DEF StepGated, StepDial, CreateConn, ClientReset
<1> QED BY <1>1, <1>2, <1>3, <1>4, <1>5 DEF StepBegin

(* A stream of the scheduler is one, and the client knows how it stands. *)
LEMMA OneScheduler ==
  ASSUME SessionType, SInv
  PROVE  /\ streams["scheduler"]["open"] \in Nat /\ streams["scheduler"]["answered"] \in Nat
         /\ streams["scheduler"]["live"] \in Nat
         /\ streams["scheduler"]["open"] + streams["scheduler"]["answered"] + streams["scheduler"]["live"]
              = IF stream.open THEN 1 ELSE 0
         /\ stream.live <=> streams["scheduler"]["live"] > 0
         /\ stream.connecting <=> streams["scheduler"]["open"] > 0
BY DEF SessionType, StreamsOK, StreamsType, Kinds, Phases, SInv, WaitsForSomething, Outstanding, Has

(* A live or connecting stream is open, and never both. *)
LEMMA StreamState ==
  ASSUME SessionType, SInv
  PROVE  /\ stream.live \/ stream.connecting => stream.open
         /\ ~(stream.live /\ stream.connecting)
BY OneScheduler, SMTT(60) DEF SessionType, StreamRec

(* Which session facts a released stream of a unary request may disturb:
   only that it was waited for. *)
LEMMA UnaryReleased ==
  ASSUME SessionType, SInv, NEW kind \in {"challenge", "config"}, NEW phase \in Phases,
         Release(kind, phase), UNCHANGED stream, defer_reset' => pc' = "io",
         IF kind = "challenge" THEN ~auth'.inflight /\ UNCHANGED config
                               ELSE ~config'.inflight /\ auth'.inflight = auth.inflight
  PROVE  WaitsForSomething'
<1>1. StreamsType
  BY DEF SessionType, StreamsOK
<1>2. \A k \in Kinds : k # kind => streams'[k] = streams[k]
  BY <1>1, ReleaseCounts DEF Kinds
<1>3. \A k \in Kinds : k # kind => Outstanding(k)' = Outstanding(k)
  BY <1>2 DEF Outstanding
<1>4. CASE kind = "challenge"
  BY <1>2, <1>3, <1>4 DEF WaitsForSomething, SInv, Has, Kinds
<1>5. CASE kind = "config"
  BY <1>2, <1>3, <1>5 DEF WaitsForSomething, SInv, Has, Kinds
<1> QED BY <1>4, <1>5

(* Of three numbers whose sum is zero, none is more. *)
LEMMA ZeroSum ==
  ASSUME NEW a \in Nat, NEW b \in Nat, NEW c \in Nat, a + b + c = 0
  PROVE  a = 0 /\ c = 0
OBVIOUS

(* The scheduler stream, once released, is gone. *)
LEMMA SchedulerReleased ==
  ASSUME SessionType, SInv, NEW phase \in Phases, Release("scheduler", phase),
         stream' = ClearStream, auth'.inflight = auth.inflight, UNCHANGED config,
         defer_reset' => pc' = "io"
  PROVE  WaitsForSomething'
<1>1. StreamsType
  BY DEF SessionType, StreamsOK
<1>2. /\ \A k \in Kinds : k # "scheduler" => streams'[k] = streams[k]
      /\ StreamsType'
      /\ Outstanding("scheduler")' = Outstanding("scheduler") - 1
      /\ Outstanding("scheduler") > 0
  BY <1>1, ReleaseCounts DEF Kinds
<1>3. \A k \in Kinds : k # "scheduler" => Outstanding(k)' = Outstanding(k)
  BY <1>2 DEF Outstanding
<1>4. Outstanding("scheduler") = 1 /\ Outstanding("scheduler")' = 0
  <2>1. Outstanding("scheduler") = 1 \/ Outstanding("scheduler") = 0
    BY DEF SInv, WaitsForSomething
  <2> QED BY <1>2, <2>1, SMTT(60)
<1>5. \A p \in Phases : streams'["scheduler"][p] \in Nat
  BY <1>2 DEF StreamsType, Kinds
<1>6. streams'["scheduler"]["open"] = 0 /\ streams'["scheduler"]["live"] = 0
  <2>1. streams'["scheduler"]["open"] + streams'["scheduler"]["answered"]
          + streams'["scheduler"]["live"] = 0
    BY <1>4 DEF Outstanding
  <2>2. /\ streams'["scheduler"]["open"] \in Nat /\ streams'["scheduler"]["answered"] \in Nat
        /\ streams'["scheduler"]["live"] \in Nat
    BY <1>5 DEF Phases
  <2> QED BY <2>1, <2>2, ZeroSum, Zenon
<1>7. ~stream'.open /\ ~stream'.live /\ ~stream'.connecting
  BY DEF ClearStream, SessionType, StreamRec
<1> QED BY <1>3, <1>4, <1>6, <1>7, SMTT(60) DEF WaitsForSomething, SInv, Has, Kinds

(* A request that failed, whatever it was, leaves a sound session. *)
LEMMA FailedSession ==
  ASSUME SessionType, SInv, NEW kind \in Kinds, NEW phase \in Phases, Release(kind, phase),
         NEW kept \in LeaderRec, kind = "scheduler" \/ kept = leader,
         RequestFailed(kind, kept), UNCHANGED <<active, node, identity>>,
         defer_reset' => pc' = "io"
  PROVE  SInv'
<1>1. CASE kind = "scheduler"
  <2>1. /\ stream' = ClearStream /\ UNCHANGED config
        /\ auth' = [auth EXCEPT !.ready = FALSE, !.challenge = None]
    BY <1>1 DEF RequestFailed
  <2>2. /\ auth'.inflight = auth.inflight /\ auth'.ready = FALSE /\ auth'.challenge = None
        /\ ~stream'.open /\ ~stream'.live
    BY <2>1 DEF ClearStream, SessionType, StreamRec, AuthRec
  <2>3. WaitsForSomething'
    BY <1>1, <2>1, <2>2, SchedulerReleased
  <2>4. ProofIsOurs'
    BY <2>2 DEF ProofIsOurs
  <2>5. Evidence'
    BY <2>1, <2>2 DEF SInv, Evidence
  <2>6. LeaderStateTold'
    BY <2>2 DEF LeaderStateTold
  <2> QED BY <2>3, <2>4, <2>5, <2>6 DEF SInv
<1>2. CASE kind = "challenge"
  <2>1. auth' = AuthNone /\ UNCHANGED <<config, stream, leader>>
    BY <1>2 DEF RequestFailed
  <2>2. WaitsForSomething'
    BY <1>2, <2>1, UnaryReleased DEF AuthNone
  <2>3. ProofIsOurs'
    BY <2>1 DEF SInv, ProofIsOurs, AuthNone
  <2> QED BY <2>1, <2>2, <2>3, EvidenceFrame, ToldFrame DEF SInv
<1>3. CASE kind = "config"
  <2>1. config' = [config EXCEPT !.inflight = FALSE] /\ UNCHANGED <<auth, stream, leader>>
    BY <1>3 DEF RequestFailed
  <2>2. ~config'.inflight /\ config'.received = config.received
    BY <2>1 DEF SessionType, ConfigRec
  <2>3. WaitsForSomething'
    BY <1>3, <2>1, <2>2, UnaryReleased
  <2>4. Evidence'
    BY <2>1, <2>2 DEF SInv, Evidence
  <2> QED BY <2>1, <2>3, <2>4, ProofFrame, ToldFrame DEF SInv
<1> QED BY <1>1, <1>2, <1>3 DEF Kinds

(* The callbacks of the gRPC client keep the session sound. *)
LEMMA CallbacksSession ==
  ASSUME SessionType, TileType, SInv, Callbacks
  PROVE  SInv'
<1>0. pc' = "io" /\ UNCHANGED identity
  BY DEF Callbacks, Callback, tile
<1>s. StreamsType
  BY DEF SessionType, StreamsOK
<1>1. CASE GrpcConnEstablished
  BY <1>0, <1>1, WaitsFrame, ProofFrame, EvidenceFrame, ToldFrame DEF GrpcConnEstablished, SInv
<1>2. CASE GrpcConnDead
  BY <1>0, <1>2, WaitsFrame, ProofFrame, EvidenceFrame, ToldFrame DEF GrpcConnDead, SInv
<1>3. CASE GrpcPingAck
  BY <1>0, <1>3, QuietSession DEF GrpcPingAck
<1>4. CASE HandleAuthChallenge
  <2>1. /\ auth'.inflight = FALSE
        /\ auth'.ready <=> auth'.challenge # None
        /\ auth'.ready => auth'.challenge = identity
    BY <1>4, Bounds, SMTT(60) DEF HandleAuthChallenge, SignedChallenge, AuthNone, TileType
  <2>2. \A k \in Kinds : k # "challenge" => streams'[k] = streams[k]
    BY <1>4, <1>s, AdvanceCounts DEF HandleAuthChallenge, Kinds, Phases
  <2>3. \A k \in Kinds : k # "challenge" => Outstanding(k)' = Outstanding(k)
    BY <2>2 DEF Outstanding
  <2>4. WaitsForSomething'
    BY <1>0, <1>4, <2>1, <2>2, <2>3 DEF HandleAuthChallenge, WaitsForSomething, SInv, Has, Kinds
  <2>5. ProofIsOurs'
    BY <1>0, <1>4, <2>1 DEF HandleAuthChallenge, ProofIsOurs, SInv
  <2> QED BY <1>0, <1>4, <2>4, <2>5, EvidenceFrame, ToldFrame DEF HandleAuthChallenge, SInv
<1>5. CASE HandleConfig
  <2>1. /\ config'.inflight = FALSE
        /\ node'.key = node.key /\ node'.heartbeat = node.heartbeat /\ node'.told = node.told
    BY <1>5 DEF HandleConfig, SessionType, ConfigRec, NodeRec
  <2>2. \A k \in Kinds : k # "config" => streams'[k] = streams[k]
    BY <1>5, <1>s, AdvanceCounts DEF HandleConfig, Kinds, Phases
  <2>3. \A k \in Kinds : k # "config" => Outstanding(k)' = Outstanding(k)
    BY <2>2 DEF Outstanding
  <2>4. WaitsForSomething'
    BY <1>0, <1>5, <2>1, <2>2, <2>3 DEF HandleConfig, WaitsForSomething, SInv, Has, Kinds
  <2>5. config'.received => node'.config
    BY <1>5 DEF HandleConfig, SessionType, ConfigRec, NodeRec, SInv, Evidence
  <2>6. active' => node'.config /\ node'.key = identity
    <3>1. CASE active' = HealthyIf(TRUE) /\ node' = [node EXCEPT !.config = TRUE]
      <4>1. node'.config
        BY <3>1 DEF SessionType, NodeRec
      <4>2. HealthyIf(TRUE) => node.key = identity
        BY StreamState DEF HealthyIf, SInv, ProofIsOurs
      <4> QED BY <3>1, <4>1, <4>2, <2>1
    <3>2. CASE UNCHANGED <<active, node>>
      BY <3>2 DEF SInv, Evidence
    <3> QED BY <1>5, <3>1, <3>2 DEF HandleConfig
  <2>7. Evidence'
    BY <1>0, <1>5, <2>1, <2>5, <2>6 DEF HandleConfig, SInv, Evidence
  <2>8. LeaderStateTold'
    BY <1>5, <2>1 DEF HandleConfig, SInv, LeaderStateTold
  <2> QED BY <1>0, <1>5, <2>1, <2>4, <2>7, <2>8, ProofFrame DEF HandleConfig, SInv
<1>6. CASE RxStart
  <2>1. /\ stream'.open = stream.open /\ stream'.live /\ ~stream'.connecting /\ ~stream'.heartbeat
    BY <1>6 DEF RxStart, StreamAtStart, SessionType, StreamRec
  <2>2. /\ Outstanding("scheduler")' = Outstanding("scheduler")
        /\ \A k \in Kinds : k # "scheduler" => streams'[k] = streams[k]
        /\ streams["scheduler"]["open"] > 0
        /\ streams'["scheduler"]["open"] = streams["scheduler"]["open"] - 1
        /\ streams'["scheduler"]["live"] = streams["scheduler"]["live"] + 1
    BY <1>6, <1>s, AdvanceCounts DEF RxStart, Kinds, Phases
  <2>3. \A k \in Kinds : k # "scheduler" => Outstanding(k)' = Outstanding(k)
    BY <2>2 DEF Outstanding
  <2>4. streams'["scheduler"]["open"] = 0 /\ streams'["scheduler"]["live"] > 0
    BY <2>2, OneScheduler, SMTT(60)
  <2>5. WaitsForSomething'
    BY <1>0, <1>6, <2>1, <2>2, <2>3, <2>4, SMTT(60) DEF RxStart, WaitsForSomething, SInv, Has, Kinds
  <2>6. ProofIsOurs'
    BY <1>0, <1>6, <2>1 DEF RxStart, SInv, ProofIsOurs
  <2>7. Evidence'
    BY <1>0, <1>6, <2>1 DEF RxStart, SInv, Evidence
  <2>8. LeaderStateTold'
    BY <1>6 DEF RxStart, LeaderAtStart, LeaderNone, LeaderStateTold, SessionType, LeaderRec
  <2> QED BY <2>5, <2>6, <2>7, <2>8 DEF SInv
<1>7. CASE RxHeartbeat
  <2>1. /\ stream'.open = stream.open /\ stream'.live = stream.live
        /\ stream'.connecting = stream.connecting
    BY <1>7 DEF RxHeartbeat, SessionType, StreamRec
  <2>2. /\ node'.config = node.config /\ node'.heartbeat /\ node'.key = node.key
        /\ node'.told = node.told
    BY <1>7 DEF RxHeartbeat, SessionType, NodeRec
  <2>3. WaitsForSomething'
    BY <1>0, <1>7, <2>1 DEF RxHeartbeat, SInv, WaitsForSomething, Outstanding, Has
  <2>4. ProofIsOurs'
    BY <1>0, <1>7, <2>1, <2>2 DEF RxHeartbeat, SInv, ProofIsOurs
  <2>5. Evidence'
    BY <1>0, <1>7, <2>1, <2>2 DEF RxHeartbeat, SInv, Evidence
  <2>6. LeaderStateTold'
    BY <1>7, <2>1, <2>2 DEF RxHeartbeat, SInv, LeaderStateTold
  <2> QED BY <2>3, <2>4, <2>5, <2>6 DEF SInv
<1>8. CASE RxUnsupported
  BY <1>0, <1>8, WaitsFrame, ProofFrame, EvidenceFrame, ToldFrame DEF RxUnsupported, SInv
<1>9. CASE RxEndRejected
  <2>1. UnlessRejected(node.slot) \in LeaderRec
    BY EmptyRecords DEF UnlessRejected, SessionType
  <2>2. /\ Release("scheduler", "live") /\ RequestFailed("scheduler", UnlessRejected(node.slot))
        /\ UNCHANGED <<active, node, identity>>
    BY <1>0, <1>9 DEF RxEndRejected
  <2> QED BY <1>0, <2>1, <2>2, FailedSession DEF Kinds, Phases
<1>10. ASSUME NEW kind \in Kinds, RxEndHttp(kind)
       PROVE  SInv'
  <2>1. leader \in LeaderRec
    BY DEF SessionType
  <2>2. /\ Release(kind, "open") /\ RequestFailed(kind, leader)
        /\ UNCHANGED <<active, node, identity>>
    BY <1>0, <1>10 DEF RxEndHttp
  <2> QED BY <1>0, <2>1, <2>2, FailedSession DEF Phases
<1>11. ASSUME NEW kind \in Kinds, NEW phase \in Phases, RxEndFailed(kind, phase)
       PROVE  SInv'
  <2>1. leader \in LeaderRec
    BY DEF SessionType
  <2>2. Release(kind, phase) /\ UNCHANGED <<active, node, identity>>
    BY <1>0, <1>11 DEF RxEndFailed
  <2>3. CASE RequestFailed(kind, leader)
    BY <1>0, <2>1, <2>2, <2>3, FailedSession
  <2>4. CASE ~RequestFailed(kind, leader)
    <3>1. /\ kind = "config" /\ config' = [config EXCEPT !.inflight = FALSE]
          /\ auth' = [auth EXCEPT !.ready = FALSE, !.challenge = None]
          /\ UNCHANGED <<stream, leader>>
      BY <1>11, <2>4 DEF RxEndFailed
    <3>2. /\ ~config'.inflight /\ config'.received = config.received
          /\ auth'.inflight = auth.inflight /\ auth'.ready = FALSE /\ auth'.challenge = None
      BY <3>1 DEF SessionType, ConfigRec, AuthRec
    <3>3. WaitsForSomething'
      BY <1>0, <2>2, <3>1, <3>2, UnaryReleased
    <3>4. ProofIsOurs'
      BY <2>2, <3>1, <3>2 DEF SInv, ProofIsOurs
    <3>5. Evidence'
      BY <2>2, <3>1, <3>2 DEF SInv, Evidence
    <3> QED BY <2>2, <3>1, <3>3, <3>4, <3>5, ToldFrame DEF SInv
  <2> QED BY <2>3, <2>4
<1>12. ASSUME NEW kind \in Kinds, NEW phase \in Phases, RxEndOk(kind, phase)
       PROVE  SInv'
  <2>0. Release(kind, phase) /\ UNCHANGED <<active, node>>
    BY <1>12 DEF RxEndOk
  <2>1. CASE kind = "challenge"
    <3>1. auth' = [auth EXCEPT !.inflight = FALSE] /\ UNCHANGED <<config, stream, leader>>
      BY <1>12, <2>1 DEF RxEndOk
    <3>2. ~auth'.inflight /\ auth'.ready = auth.ready /\ auth'.challenge = auth.challenge
      BY <3>1 DEF SessionType, AuthRec
    <3>3. WaitsForSomething'
      BY <1>0, <2>0, <2>1, <3>1, <3>2, UnaryReleased
    <3>4. ProofIsOurs'
      BY <1>0, <2>0, <3>1, <3>2 DEF SInv, ProofIsOurs
    <3> QED BY <1>0, <2>0, <3>1, <3>3, <3>4, EvidenceFrame, ToldFrame DEF SInv
  <2>2. CASE kind = "config"
    <3>1. config' = [config EXCEPT !.inflight = FALSE] /\ UNCHANGED <<auth, stream, leader>>
      BY <1>12, <2>2 DEF RxEndOk
    <3>2. ~config'.inflight /\ config'.received = config.received
      BY <3>1 DEF SessionType, ConfigRec
    <3>3. WaitsForSomething'
      BY <1>0, <2>0, <2>2, <3>1, <3>2, UnaryReleased
    <3>4. Evidence'
      BY <1>0, <2>0, <3>1, <3>2 DEF SInv, Evidence
    <3> QED BY <1>0, <2>0, <3>1, <3>3, <3>4, ProofFrame, ToldFrame DEF SInv
  <2>3. CASE kind = "scheduler"
    <3>1. stream' = ClearStream /\ UNCHANGED <<auth, config>>
      BY <1>12, <2>3 DEF RxEndOk
    <3>2. ~stream'.open /\ ~stream'.live
      BY <3>1 DEF ClearStream, SessionType, StreamRec
    <3>3. WaitsForSomething'
      BY <1>0, <2>0, <2>3, <3>1, SchedulerReleased
    <3>4. ProofIsOurs'
      BY <1>0, <3>1, <3>2 DEF SInv, ProofIsOurs
    <3>5. Evidence'
      BY <1>0, <2>0, <3>1, <3>2 DEF SInv, Evidence
    <3>6. LeaderStateTold'
      BY <3>2 DEF LeaderStateTold
    <3> QED BY <3>3, <3>4, <3>5, <3>6 DEF SInv
  <2> QED BY <2>1, <2>2, <2>3 DEF Kinds
<1>13. ASSUME NEW kind \in Kinds, NEW phase \in Phases, RxTimeout(kind, phase)
       PROVE  SInv'
  <2>0. kind # "scheduler" /\ Release(kind, phase) /\ UNCHANGED <<stream, active, leader, node>>
    BY <1>13 DEF RxTimeout
  <2>1. CASE kind = "challenge"
    <3>1. auth' = AuthNone /\ UNCHANGED config
      BY <1>13, <2>1 DEF RxTimeout
    <3>2. WaitsForSomething'
      BY <1>0, <2>0, <2>1, <3>1, UnaryReleased DEF AuthNone
    <3>3. ProofIsOurs'
      BY <1>0, <2>0, <3>1 DEF SInv, ProofIsOurs, AuthNone
    <3> QED BY <1>0, <2>0, <3>1, <3>2, <3>3, EvidenceFrame, ToldFrame DEF SInv
  <2>2. CASE kind = "config"
    <3>1. config' = [config EXCEPT !.inflight = FALSE] /\ UNCHANGED auth
      BY <1>13, <2>2 DEF RxTimeout
    <3>2. ~config'.inflight /\ config'.received = config.received
      BY <3>1 DEF SessionType, ConfigRec
    <3>3. WaitsForSomething'
      BY <1>0, <2>0, <2>2, <3>1, <3>2, UnaryReleased
    <3>4. Evidence'
      BY <1>0, <2>0, <3>1, <3>2 DEF SInv, Evidence
    <3> QED BY <1>0, <2>0, <3>1, <3>3, <3>4, ProofFrame, ToldFrame DEF SInv
  <2> QED BY <2>0, <2>1, <2>2 DEF Kinds
<1> QED
  BY <1>1, <1>2, <1>3, <1>4, <1>5, <1>6, <1>7, <1>8, <1>9, <1>10, <1>11, <1>12, <1>13
  DEF Callbacks, Callback

(* A leader state that is sent, or kept as pending, is told. *)
LEMMA SendTold ==
  ASSUME SessionType, NEW l \in LeaderRec, l.pending, NEW taken \in BOOLEAN,
         SendLeaderState(l, taken), UNCHANGED stream
  PROVE  /\ LeaderStateTold'
         /\ node'.key = node.key /\ node'.config = node.config /\ node'.heartbeat = node.heartbeat
<1>1. node'.key = node.key /\ node'.config = node.config /\ node'.heartbeat = node.heartbeat
  BY DEF SendLeaderState, SessionType, NodeRec
<1>2. CASE l.expired
  BY <1>2 DEF SendLeaderState, LeaderNone, LeaderStateTold
<1>3. CASE ~l.expired /\ stream.open /\ stream.live /\ ~taken
  <2>1. node'.told
    BY <1>3 DEF SendLeaderState, SessionType, NodeRec
  <2> QED BY <1>1, <2>1 DEF LeaderStateTold
<1>4. CASE ~l.expired /\ ~(stream.open /\ stream.live /\ ~taken)
  BY <1>1, <1>4 DEF SendLeaderState, LeaderStateTold
<1> QED BY <1>1, <1>2, <1>3, <1>4

(* A pending leader state that is pushed is told, or still pending. *)
LEMMA PushTold ==
  ASSUME SessionType, SInv, NEW taken \in BOOLEAN, PushLeaderState(taken), UNCHANGED stream
  PROVE  /\ LeaderStateTold'
         /\ node'.key = node.key /\ node'.config = node.config /\ node'.heartbeat = node.heartbeat
<1>1. CASE leader.pending /\ stream.open /\ stream.live
  BY <1>1, SendTold DEF PushLeaderState, SessionType
<1>2. CASE ~(leader.pending /\ stream.open /\ stream.live)
  BY <1>2, ToldFrame DEF PushLeaderState, SInv
<1> QED BY <1>1, <1>2

(* A new request of the tile leaves the other streams alone. *)
LEMMA UnaryStarted ==
  ASSUME SessionType, SInv, NEW kind \in {"challenge", "config"}, RequestStart(kind),
         UNCHANGED stream, ~defer_reset',
         IF kind = "challenge" THEN UNCHANGED config ELSE UNCHANGED auth
  PROVE  WaitsForSomething'
<1>1. StreamsType
  BY DEF SessionType, StreamsOK
<1>2. /\ \A k \in Kinds : k # kind => streams'[k] = streams[k]
      /\ Outstanding(kind)' = Outstanding(kind) + 1
  BY <1>1, StartCounts DEF Kinds
<1>3. \A k \in Kinds : k # kind => Outstanding(k)' = Outstanding(k)
  BY <1>2 DEF Outstanding
<1>4. Outstanding(kind)' > 0
  BY <1>1, <1>2, CountsNat, SMTT(60) DEF Kinds
<1>5. CASE kind = "challenge"
  BY <1>2, <1>3, <1>4, <1>5 DEF WaitsForSomething, SInv, Has, Kinds
<1>6. CASE kind = "config"
  BY <1>2, <1>3, <1>4, <1>6 DEF WaitsForSomething, SInv, Has, Kinds
<1> QED BY <1>5, <1>6

(* The requests at the end of a step. *)
LEMMA ReconnectSession ==
  ASSUME SessionType, SInv, ~defer_reset, StepReconnect, UNCHANGED identity
  PROVE  SInv'
<1>0. UNCHANGED <<conn, defer_reset, active>> /\ ~defer_reset'
  BY DEF StepReconnect
<1>1. CASE RequestAuthChallenge
  <2>1. UNCHANGED <<stream, config, leader, node>> /\ RequestStart("challenge")
    BY <1>1 DEF RequestAuthChallenge
  <2>2. auth'.ready = auth.ready /\ auth'.challenge = auth.challenge
    BY <1>1 DEF RequestAuthChallenge, SessionType, AuthRec
  <2>3. WaitsForSomething'
    BY <1>0, <2>1, UnaryStarted
  <2>4. ProofIsOurs'
    BY <2>1, <2>2 DEF SInv, ProofIsOurs
  <2> QED BY <1>0, <2>1, <2>3, <2>4, EvidenceFrame, ToldFrame DEF SInv
<1>2. CASE Starts /\ TryStartStream
  <2>1. /\ stream'.open /\ stream'.connecting /\ stream'.live = stream.live
        /\ UNCHANGED <<config, leader>>
    BY <1>2 DEF TryStartStream, SessionType, StreamRec
  <2>2. auth'.inflight = auth.inflight /\ auth'.ready = FALSE /\ auth'.challenge = None
    BY <1>2 DEF TryStartStream, SpendChallenge, SessionType, AuthRec
  <2>3. node'.key = auth.challenge /\ node'.config = node.config
    BY <1>2 DEF TryStartStream, SessionType, NodeRec
  <2>4. auth.challenge = identity
    BY <1>2 DEF Starts, SInv, ProofIsOurs
  <2>5. ~stream.open /\ ~stream.live
    BY <1>2, StreamState DEF Starts
  <2>6. /\ \A k \in Kinds : k # "scheduler" => streams'[k] = streams[k]
        /\ Outstanding("scheduler")' = Outstanding("scheduler") + 1
        /\ streams'["scheduler"]["open"] = streams["scheduler"]["open"] + 1
        /\ streams'["scheduler"]["live"] = streams["scheduler"]["live"]
    BY <1>2, StartCounts DEF TryStartStream, SessionType, StreamsOK, Kinds, Phases
  <2>7. \A k \in Kinds : k # "scheduler" => Outstanding(k)' = Outstanding(k)
    BY <2>6 DEF Outstanding
  <2>8. /\ Outstanding("scheduler")' = 1 /\ streams'["scheduler"]["open"] > 0
        /\ ~(streams'["scheduler"]["live"] > 0)
    BY <2>5, <2>6, OneScheduler, SMTT(60) DEF SInv, WaitsForSomething
  <2>9. WaitsForSomething'
    BY <1>0, <2>1, <2>2, <2>5, <2>6, <2>7, <2>8 DEF WaitsForSomething, SInv, Has, Kinds
  <2>10. ProofIsOurs'
    BY <2>2, <2>3, <2>4 DEF ProofIsOurs
  <2>11. Evidence'
    BY <1>0, <2>1, <2>3, <2>4, <2>5 DEF Evidence, SInv
  <2>12. LeaderStateTold'
    BY <2>1, <2>5 DEF LeaderStateTold
  <2> QED BY <2>9, <2>10, <2>11, <2>12 DEF SInv
<1>3. CASE RequestConfig
  <2>1. RequestStart("config") /\ UNCHANGED <<stream, auth>> /\ PushLeaderState(TRUE)
    BY <1>3 DEF RequestConfig
  <2>2. config'.received = config.received
    BY <1>3 DEF RequestConfig, SessionType, ConfigRec
  <2>3. WaitsForSomething'
    BY <1>0, <2>1, UnaryStarted
  <2>4. /\ LeaderStateTold'
        /\ node'.key = node.key /\ node'.config = node.config /\ node'.heartbeat = node.heartbeat
    BY <2>1, PushTold
  <2>5. Evidence'
    BY <1>0, <2>1, <2>2, <2>4 DEF Evidence, SInv
  <2> QED BY <1>0, <2>1, <2>3, <2>4, <2>5, ProofFrame DEF SInv
<1>4. CASE SendUpdates
  <2>1. UNCHANGED <<streams, stream, auth, config>> /\ \E taken \in BOOLEAN : PushLeaderState(taken)
    BY <1>4 DEF SendUpdates
  <2>2. /\ LeaderStateTold'
        /\ node'.key = node.key /\ node'.config = node.config /\ node'.heartbeat = node.heartbeat
    BY <2>1, PushTold
  <2> QED BY <1>0, <2>1, <2>2, WaitsFrame, ProofFrame, EvidenceFrame DEF SInv
<1> QED BY <1>1, <1>2, <1>3, <1>4 DEF StepReconnect

(* The end of a step leaves no reset waiting. *)
LEMMA StepEndSession ==
  ASSUME SessionType, SInv, StepEnd \/ StepEndFault
  PROVE  SInv'
<1>0. UNCHANGED identity
  BY DEF StepEnd, StepEndFault, tile
<1>1. CASE ClientReset
  BY <1>1, ClosedSession DEF ClientReset, ResetTo
<1>2. CASE ~defer_reset /\ UNCHANGED session
  BY <1>0, <1>2, QuietSession
<1>3. CASE ~defer_reset /\ StepReconnect
  BY <1>0, <1>3, ReconnectSession
<1> QED BY <1>1, <1>2, <1>3 DEF StepEnd, StepEndFault

(* A healthy node is one that did what health is judged by. *)
LEMMA HealthyEarned ==
  ASSUME SessionType, SInv, Healthy
  PROVE  node.config /\ node.heartbeat /\ node.key = identity
BY StreamState DEF Healthy, HealthyIf, SInv, Evidence, ProofIsOurs

(* Housekeeping ends the session whenever it changes the identity. *)
LEMMA HousekeepingSession ==
  ASSUME SessionType, SInv, NEW cmd \in Commands, Housekeeping(cmd)
  PROVE  SInv'
<1>1. CASE EndsSession(cmd)
  BY <1>1, ClosedSession DEF Housekeeping
<1>2. CASE ~EndsSession(cmd)
  <2>1. /\ active' = Healthy /\ UNCHANGED <<conn, defer_reset, streams, stream, auth, config, leader, node>>
        /\ UNCHANGED <<identity, pc>>
    BY <1>2 DEF Housekeeping, EndsSession
  <2>2. Evidence'
    BY <2>1, HealthyEarned DEF Evidence, SInv
  <2>3. WaitsForSomething'
    BY <2>1, WaitsFrame DEF SInv, WaitsForSomething
  <2> QED BY <2>1, <2>2, <2>3, ProofFrame, ToldFrame DEF SInv
<1> QED BY <1>1, <1>2

(* Leader states from pack, slots from replay, time, the network and the
   command that switches identities. *)
LEMMA OthersSession ==
  ASSUME SessionType, SInv, Fragments \/ Time \/ SetIdentity \/ SignerSwitches
  PROVE  SInv'
<1>0. UNCHANGED <<identity, pc, defer_reset>>
  BY DEF Fragments, StageLeaderState, ReplayReset, ReplaySlotCompleted, Time, BackoffEnds,
         GateTimerEnds, ConfigPollDue, LeaderExpires, ActivityStale, PingLate, Connect,
         SetIdentity, SignerSwitches, tile, session
<1>d. defer_reset' => pc' = "io"
  BY <1>0 DEF SInv, WaitsForSomething
<1>q. UNCHANGED session => SInv'
  BY <1>0, <1>d, QuietSession
<1>1. ASSUME NEW slot \in 1..LEADER_MAX, NEW expired \in BOOLEAN, StageLeaderState(slot, expired)
      PROVE  SInv'
  <2> DEFINE l == [slot |-> slot, expired |-> expired, pending |-> TRUE]
  <2>1. l \in LeaderRec /\ l.pending
    BY DEF LeaderRec
  <2>2. UNCHANGED <<streams, stream, auth, config, active>>
    BY <1>1 DEF StageLeaderState
  <2>3. /\ LeaderStateTold'
        /\ node'.key = node.key /\ node'.config = node.config /\ node'.heartbeat = node.heartbeat
    <3>1. CASE \E taken \in BOOLEAN : SendLeaderState(l, taken)
      BY <2>1, <2>2, <3>1, SendTold
    <3>2. CASE leader' = l /\ node' = [node EXCEPT !.told = FALSE]
      BY <2>1, <3>2 DEF LeaderStateTold, SessionType, NodeRec
    <3> QED BY <1>1, <3>1, <3>2 DEF StageLeaderState
  <2> QED BY <1>0, <1>d, <2>2, <2>3, WaitsFrame, ProofFrame, EvidenceFrame DEF SInv
<1>2. ASSUME NEW slot, NEW known, ReplayReset(known, slot) \/ ReplaySlotCompleted(slot)
      PROVE  SInv'
  BY <1>2, <1>q DEF ReplayReset, ReplaySlotCompleted
<1>3. CASE BackoffEnds \/ GateTimerEnds \/ PingLate \/ SetIdentity \/ SignerSwitches
  BY <1>3, <1>q DEF BackoffEnds, GateTimerEnds, PingLate, SetIdentity, SignerSwitches
<1>4. CASE ConfigPollDue
  <2>1. /\ config'.inflight = config.inflight /\ config'.received = config.received
        /\ UNCHANGED <<streams, stream, auth, active, leader, node>>
    BY <1>4 DEF ConfigPollDue, SessionType, ConfigRec
  <2>2. WaitsForSomething'
    BY <1>d, <2>1 DEF SInv, WaitsForSomething, Outstanding, Has
  <2>3. Evidence'
    BY <1>0, <2>1 DEF SInv, Evidence
  <2> QED BY <1>0, <2>1, <2>2, <2>3, ProofFrame, ToldFrame DEF SInv
<1>5. CASE LeaderExpires
  <2>1. leader'.expired /\ UNCHANGED <<streams, stream, auth, config, active, node>>
    BY <1>5 DEF LeaderExpires, SessionType, LeaderRec
  <2>2. LeaderStateTold'
    BY <2>1 DEF LeaderStateTold
  <2> QED BY <1>0, <1>d, <2>1, <2>2, WaitsFrame, ProofFrame, EvidenceFrame DEF SInv
<1>6. CASE ActivityStale
  <2>1. /\ stream'.open = stream.open /\ stream'.live = stream.live
        /\ stream'.connecting = stream.connecting /\ stream'.heartbeat = stream.heartbeat
        /\ UNCHANGED <<streams, auth, config, active, leader, node>>
    BY <1>6 DEF ActivityStale, SessionType, StreamRec
  <2>2. WaitsForSomething'
    BY <1>d, <2>1 DEF SInv, WaitsForSomething, Outstanding, Has
  <2>3. ProofIsOurs' /\ Evidence' /\ LeaderStateTold'
    BY <1>0, <2>1 DEF SInv, ProofIsOurs, Evidence, LeaderStateTold
  <2> QED BY <2>2, <2>3 DEF SInv
<1>7. ASSUME NEW outcome, Connect(outcome)
      PROVE  SInv'
  BY <1>0, <1>7, <1>d, WaitsFrame, ProofFrame, EvidenceFrame, ToldFrame DEF Connect, SInv
<1> QED BY <1>1, <1>2, <1>3, <1>4, <1>5, <1>6, <1>7 DEF Fragments, Time

(* The session is sound at boot. *)
LEMMA InitSession ==
  ASSUME Init
  PROVE  SInv
<1>1. \A kind \in Kinds : Outstanding(kind) = 0
  BY NoStreamsOK DEF Init
<1>2. \A kind \in Kinds, phase \in Phases : ~Has(kind, phase)
  BY DEF Init, NoStreams, Has
<1>3. WaitsForSomething
  BY <1>1, <1>2 DEF Init, WaitsForSomething, AuthNone, ConfigNone, StreamNone, Kinds, Phases
<1>4. ProofIsOurs
  BY DEF Init, ProofIsOurs, AuthNone, StreamNone
<1>5. Evidence
  BY DEF Init, Evidence, ConfigNone, StreamNone
<1>6. LeaderStateTold
  BY DEF Init, LeaderStateTold, StreamNone
<1> QED BY <1>3, <1>4, <1>5, <1>6 DEF SInv

-----------------------------------------------------------------------------
(* The inductive invariant. *)

Sound == SessionType /\ TileType /\ SInv

(* Every step keeps the client sound. *)
LEMMA SoundStep == Sound /\ [Next]_vars => Sound'
<1> SUFFICES ASSUME SessionType, TileType, SInv, [Next]_vars
             PROVE  SessionType' /\ TileType' /\ SInv'
  BY DEF Sound
<1>1. ASSUME UNCHANGED vars
      PROVE  SInv'
  <2>1. UNCHANGED session /\ UNCHANGED identity /\ UNCHANGED pc
    BY <1>1 DEF vars, tile
  <2>2. defer_reset => pc' = "io"
    BY <2>1 DEF SInv, WaitsForSomething
  <2> QED BY <2>1, <2>2, QuietSession
<1>2. ASSUME NEW cmd \in Commands, Housekeeping(cmd)
      PROVE  SInv'
  BY <1>2, HousekeepingSession
<1>3. SInv'
  BY <1>1, <1>2, StepBeginSession, CallbacksSession, StepEndSession, OthersSession DEF Next
<1> QED BY <1>3, TypeStep

(* The client is sound in every state it reaches. *)
LEMMA AlwaysSound == Spec => []Sound
<1>1. Init => Sound
  BY TypeInit, InitSession DEF Sound
<1> QED BY <1>1, SoundStep, PTL DEF Spec

(* The type invariant: among other things the gRPC client's pool of streams
   is never overdrawn, for any number of streams (fd_grpc_client_stream_acquire
   behind fd_grpc_client_request_is_blocked). *)
THEOREM ClientTypes == Spec => []TypeOK
<1>1. Sound => TypeOK
  BY TypeParts DEF Sound
<1> QED BY <1>1, AlwaysSound, PTL

(* The client waits only for what can still come (bam_auth_inflight,
   bam_config_inflight, bam_stream, and a reset a callback asks for). *)
THEOREM ClientWaits == Spec => []WaitsForSomething
<1>1. Sound => WaitsForSomething
  BY DEF Sound, SInv
<1> QED BY <1>1, AlwaysSound, PTL

(* A proof is the current validator's, also across identity switches with
   requests in flight (fd_bam_handle_auth_challenge, fd_bam_try_start_stream). *)
THEOREM ClientProof == Spec => []ProofIsOurs
<1>1. Sound => ProofIsOurs
  BY DEF Sound, SInv
<1> QED BY <1>1, AlwaysSound, PTL

(* A node is called healthy, and given ownership, for what it did on this
   connection (fd_bam_client_status_at, fd_bam_publish_active_state). *)
THEOREM ClientHealth == Spec => []HealthyIsCurrent
<1>1. Sound => HealthyIsCurrent
  BY HealthyEarned DEF Sound, SInv, Evidence, HealthyIsCurrent
<1> QED BY <1>1, AlwaysSound, PTL

(* The node of a live scheduler stream is told the leader state that is
   kept (fd_bam_send_leader_state, fd_bam_client_grpc_rx_start). *)
THEOREM ClientLeader == Spec => []LeaderStateTold
<1>1. Sound => LeaderStateTold
  BY DEF Sound, SInv
<1> QED BY <1>1, AlwaysSound, PTL
=============================================================================

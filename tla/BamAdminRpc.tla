---------------------------- MODULE BamAdminRpc ----------------------------
(***************************************************************************)
(* fd_bam_admin_rpc_request: one blocking request to Agave's admin RPC     *)
(* socket.  A sandboxed tile has one stream for its lifetime; without a    *)
(* sandbox every request has a connection of its own.  The tile waits for  *)
(* an answer for a few polls only.  An answer that comes later, in part or *)
(* in full, belongs to a request the caller has given up: the next request *)
(* first reads it and throws it away.                                      *)
(*                                                                         *)
(* An answer is PARTS reads long; its text is its request's number.        *)
(***************************************************************************)
EXTENDS Integers, Sequences

CONSTANTS
  PARTS,       \* reads that one answer takes
  MAX_POLLS,   \* FD_BAM_ADMIN_RPC_MAX_POLLS: 4
  REQ_MAX,     \* requests made in a behaviour
  None

ASSUME AdminRpcConstants ==
  /\ PARTS \in Nat \ {0} /\ MAX_POLLS \in Nat \ {0} /\ REQ_MAX \in Nat
  /\ None \notin Nat

VARIABLES
  fd,         \* admin_rpc_fd: "stream", "none" or "dead"
  pending,    \* admin_rpc_response_pending
  buf,        \* admin_rpc_response_buf, a sequence of parts
  pc,         \* "idle", "discard" (discard_response), "send", "read"
  polls,      \* poll_idx
  req,        \* number of the latest request
  answer,     \* what the latest call that ended gave its caller, or None
  server,     \* requests Agave has received and not fully answered
  done,       \* parts of the answer to the first of them that are written
  wire        \* parts written and not yet read

tile  == <<fd, pending, buf>>
call  == <<pc, polls, req, answer>>
agave == <<server, done, wire>>
vars  == <<tile, call, agave>>

Requests == 1..REQ_MAX

\* The call's state keeps its shape: in particular the polls of one call never
\* exceed the limit, and an answer under way is short of its last part.
TypeOK ==
  /\ fd \in {"stream", "none", "dead"}
  /\ pending \in BOOLEAN
  /\ buf \in Seq(Requests)
  /\ pc \in {"idle", "discard", "send", "read"}
  /\ polls \in 0..MAX_POLLS
  /\ req \in 0..REQ_MAX
  /\ answer \in Seq(Requests) \cup {None}
  /\ server \in Seq(Requests) /\ done \in 0..PARTS - 1 /\ wire \in Seq(Requests)

\* A sandboxed tile does not start without its stream.
Init ==
  /\ fd \in {"stream", "none"}
  /\ pending = FALSE /\ buf = <<>>
  /\ pc = "idle" /\ polls = 0 /\ req = 0 /\ answer = None
  /\ server = <<>> /\ done = 0 /\ wire = <<>>

close_fd == fd = "none"

\* The connection is closed: nothing on it reaches the tile any more.
CloseStream == server' = <<>> /\ done' = 0 /\ wire' = <<>>

Forget == pending' = FALSE /\ buf' = <<>>

(***************************************************************************)
(* The call.                                                               *)
(***************************************************************************)

\* A call on a dead stream, or whose connection attempt fails, ends at once.
Start ==
  /\ pc = "idle" /\ req < REQ_MAX
  /\ req' = req + 1 /\ polls' = 0 /\ answer' = None
  /\ \/ fd # "dead" /\ pc' = IF pending THEN "discard" ELSE "send"
     \/ fd # "stream" /\ pc' = "idle"
  /\ UNCHANGED <<tile, agave>>

Send ==
  /\ pc = "send"
  /\ server' = Append(server, req)
  /\ pending' = TRUE
  /\ pc' = "read" /\ polls' = 0
  /\ UNCHANGED <<fd, buf, req, answer, done, wire>>

\* Mutant: the retained bytes are dropped when a wait begins anew.
KeepNothing(b) == <<>>

\* The bytes an unsuccessful wait leaves behind for the next call.
Retained(b) == b

\* Mutant: the late answer is given to the caller.
GiveLate(b) == pc' = "idle" /\ answer' = b

\* A complete answer is thrown away if it is an earlier request's.
Complete(b) ==
  IF pc = "discard" THEN pc' = "send" /\ UNCHANGED answer
                    ELSE pc' = "idle" /\ answer' = b

\* A per-request connection is closed when its call ends.
ReadPart ==
  LET b == Append(buf, Head(wire))
  IN  /\ pc \in {"discard", "read"} /\ wire # <<>>
      /\ IF Len(b) < PARTS
           THEN /\ buf' = b /\ wire' = Tail(wire)
                /\ UNCHANGED <<pending, pc, answer, server, done>>
           ELSE /\ Complete(b)
                /\ Forget
                /\ IF close_fd /\ pc' = "idle" THEN CloseStream
                   ELSE wire' = Tail(wire) /\ UNCHANGED <<server, done>>
      /\ UNCHANGED <<fd, polls, req>>

\* Mutant: a poll without data is not counted.
PollUncounted == polls' = polls

CountPoll == polls' = polls + 1

PollAgain == polls' < MAX_POLLS

\* ppoll reports no data, or what there was has been read.  After the last poll
\* the call gives up; the stream and what was read stay for the next call.
NoData ==
  /\ pc \in {"discard", "read"} /\ wire = <<>>
  /\ CountPoll
  /\ IF PollAgain THEN UNCHANGED <<tile, pc, agave>>
     ELSE /\ pc' = "idle"
          /\ IF close_fd THEN Forget /\ CloseStream
             ELSE /\ buf' = Retained(buf)
                  /\ UNCHANGED <<pending, agave>>
          /\ UNCHANGED fd
  /\ UNCHANGED <<req, answer>>

\* A stream that failed is never opened again.
DropStream == fd' = (IF close_fd THEN "none" ELSE "dead") /\ CloseStream

\* send, ppoll or read fails, Agave closes the stream, or an answer is too long.
Fail ==
  /\ pc # "idle"
  /\ pc' = "idle"
  /\ Forget
  /\ DropStream
  /\ UNCHANGED <<polls, req, answer>>

(***************************************************************************)
(* Agave answers requests in their order, part by part, at any time.       *)
(***************************************************************************)

Answer ==
  /\ server # <<>>
  /\ wire' = Append(wire, Head(server))
  /\ done' = IF done + 1 = PARTS THEN 0 ELSE done + 1
  /\ server' = IF done' = 0 THEN Tail(server) ELSE server
  /\ UNCHANGED <<tile, call>>

Next == Start \/ Send \/ ReadPart \/ NoData \/ Fail \/ Answer

Spec == Init /\ [][Next]_vars

\* The tile keeps running and send, ppoll and read return.  Nothing is assumed
\* of Agave.
FairSpec == Spec /\ WF_vars(Send) /\ WF_vars(ReadPart) /\ WF_vars(NoData)

(***************************************************************************)
(* Properties.                                                             *)
(***************************************************************************)

\* What a call gives its caller is the whole answer to that call's request,
\* whichever earlier requests timed out and however much of their answers had
\* been read by then.
AnswersOwnRequest ==
  answer # None => answer = [i \in 1..PARTS |-> req]

\* admin_rpc_response_pending is "One request was sent but its complete response
\* has not arrived yet" (fd_bam_tile_private.h): between calls it says whether
\* the stream still owes an answer, and it never owes two.
PendingIsOwed ==
  /\ Len(server) <= 1
  /\ pending <=> server # <<>> \/ wire # <<>> \/ buf # <<>>

\* Every call ends, whatever Agave does.
CallEnds == pc # "idle" ~> pc = "idle"
=============================================================================

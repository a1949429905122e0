------------------------- MODULE BamAdminRpcProofs -------------------------
(***************************************************************************)
(* Proofs about BamAdminRpc, for every number of polls, parts of an answer *)
(* and requests.                                                           *)
(*                                                                         *)
(* That a caller gets the answer to its own request needs to be known      *)
(* before there is an answer: whatever is owed on the stream, unwritten,   *)
(* in flight or in the buffer, is one answer to one request, and that      *)
(* request is the caller's once the caller waits for it.                   *)
(***************************************************************************)
EXTENDS BamAdminRpc, TLAPS

AllFrom(s, r) == \A i \in 1..Len(s) : s[i] = r

\* One answer, to request r, is owed.
Owed(r) ==
  /\ AllFrom(buf, r) /\ AllFrom(wire, r)
  /\ Len(buf) < PARTS
  /\ \/ server = <<r>> /\ Len(buf) + Len(wire) = done
     \/ server = <<>> /\ done = 0 /\ Len(buf) + Len(wire) = PARTS

NothingOwed == server = <<>> /\ done = 0 /\ wire = <<>> /\ buf = <<>>

\* Where a call can be, given what is pending and the stream's state.
CallInv ==
  /\ answer # None => pc = "idle"
  /\ pc # "idle" => polls < MAX_POLLS /\ req \in Requests /\ fd # "dead"
  /\ pc \in {"discard", "read"} => pending
  /\ pc = "send" => ~pending
  /\ pc = "discard" => fd = "stream"
  /\ pc = "idle" /\ fd # "stream" => ~pending

OwedInv ==
  /\ pending => \E r \in Requests : Owed(r) /\ (pc = "read" => r = req)
  /\ ~pending => NothingOwed

IInv == TypeOK /\ AnswersOwnRequest /\ CallInv /\ OwedInv

\* A sequence all of whose PARTS elements are r is the constant function.
LEMMA ConstantSequence ==
  ASSUME NEW s \in Seq(Requests), NEW r, Len(s) = PARTS, AllFrom(s, r)
  PROVE  s = [i \in 1..PARTS |-> r]
<1>1. s = [i \in 1..Len(s) |-> s[i]]
  OBVIOUS
<1> QED BY <1>1 DEF AllFrom

\* The empty stream is well typed.
LEMMA EmptyTyped == <<>> \in Seq(Requests) /\ 0 \in 0..PARTS - 1 /\ FALSE \in BOOLEAN
BY AdminRpcConstants

\* Initially no call is pending.
LEMMA InitIInv == Init => IInv
<1> SUFFICES ASSUME Init PROVE IInv
  OBVIOUS
<1>1. TypeOK
  <2>1. 0 \in 0..MAX_POLLS /\ 0 \in 0..REQ_MAX
    BY AdminRpcConstants
  <2> QED BY <2>1, EmptyTyped, Zenon DEF Init, TypeOK
<1> QED BY <1>1, AdminRpcConstants DEF Init, IInv, AnswersOwnRequest, CallInv, OwedInv, NothingOwed

\* Every step of the call, and of Agave, keeps IInv.
LEMMA NextIInv == IInv /\ [Next]_vars => IInv'
<1> SUFFICES ASSUME IInv, [Next]_vars PROVE IInv'
  OBVIOUS
<1> USE AdminRpcConstants
<1>1. CASE Start
  <2>1. TypeOK'
    BY <1>1 DEF Start, IInv, TypeOK, tile, agave, Requests
  <2>2. AnswersOwnRequest' /\ CallInv'
    BY <1>1 DEF Start, IInv, CallInv, AnswersOwnRequest, TypeOK, tile, Requests
  <2>3. OwedInv'
    BY <1>1 DEF Start, IInv, OwedInv, CallInv, NothingOwed, Owed, AllFrom, tile, agave
  <2> QED BY <2>1, <2>2, <2>3 DEF IInv
<1>2. CASE Send
  <2>1. TypeOK'
    BY <1>2 DEF Send, IInv, TypeOK, CallInv
  <2>2. AnswersOwnRequest' /\ CallInv'
    BY <1>2 DEF Send, IInv, CallInv, AnswersOwnRequest
  <2>3. Owed(req)' /\ pending' /\ req' = req
    BY <1>2 DEF Send, IInv, OwedInv, CallInv, NothingOwed, Owed, AllFrom
  <2>4. OwedInv'
    BY <2>3, <1>2 DEF OwedInv, Send, IInv, CallInv
  <2> QED BY <2>1, <2>2, <2>4 DEF IInv
<1>3. CASE ReadPart
  <2> DEFINE b == Append(buf, Head(wire))
  <2>1. PICK r \in Requests : Owed(r) /\ (pc = "read" => r = req)
    BY <1>3 DEF ReadPart, IInv, CallInv, OwedInv
  <2>2. /\ b \in Seq(Requests) /\ AllFrom(b, r) /\ Len(b) = Len(buf) + 1
        /\ Tail(wire) \in Seq(Requests) /\ AllFrom(Tail(wire), r)
        /\ Len(Tail(wire)) = Len(wire) - 1
    BY <1>3, <2>1, SMTT(60) DEF ReadPart, IInv, TypeOK, Owed, AllFrom
  <2>3. CASE Len(b) < PARTS
    <3>1. /\ buf' = b /\ wire' = Tail(wire)
          /\ UNCHANGED <<pending, pc, answer, server, done, fd, polls, req>>
      BY <1>3, <2>3 DEF ReadPart
    <3>2. TypeOK'
      BY <3>1, <2>2 DEF IInv, TypeOK
    <3>3. AnswersOwnRequest' /\ CallInv'
      BY <3>1 DEF IInv, CallInv, AnswersOwnRequest
    <3>4. Owed(r)'
      <4>1. Len(buf') + Len(wire') = Len(buf) + Len(wire)
        BY <3>1, <2>2 DEF IInv, TypeOK
      <4>2. AllFrom(buf, r)' /\ AllFrom(wire, r)' /\ Len(buf') < PARTS
        BY <3>1, <2>2, <2>3 DEF AllFrom
      <4> QED BY <4>1, <4>2, <3>1, <2>1 DEF Owed
    <3>5. OwedInv'
      BY <3>1, <3>4, <2>1, <1>3 DEF OwedInv, IInv, CallInv, ReadPart
    <3> QED BY <3>2, <3>3, <3>5 DEF IInv
  <2>4. CASE ~(Len(b) < PARTS)
    <3>1. /\ Complete(b) /\ Forget
          /\ \/ CloseStream
             \/ wire' = Tail(wire) /\ UNCHANGED <<server, done>>
          /\ UNCHANGED <<fd, polls, req>>
      BY <1>3, <2>4 DEF ReadPart
    <3>2. Len(b) = PARTS /\ server = <<>> /\ done = 0 /\ Tail(wire) = <<>>
      BY <2>1, <2>2, <2>4, <1>3 DEF Owed, IInv, TypeOK, ReadPart
    <3>3. NothingOwed' /\ ~pending'
      BY <3>1, <3>2 DEF NothingOwed, Forget, CloseStream
    <3>4. OwedInv'
      BY <3>3 DEF OwedInv
    <3>5. /\ pc = "discard" => pc' = "send" /\ answer' = answer
          /\ pc = "read" => pc' = "idle" /\ answer' = b
          /\ pc \in {"discard", "read"}
      BY <3>1, <1>3 DEF Complete, ReadPart
    <3>6. b = [i \in 1..PARTS |-> r]
      BY <3>2, <2>2, ConstantSequence
    <3>7. TypeOK'
      <4>1. pc' \in {"idle", "send"} /\ answer' \in Seq(Requests) \cup {None}
        BY <3>5, <2>2 DEF IInv, TypeOK
      <4>2. pc' \in {"idle", "discard", "send", "read"} /\ pending' \in BOOLEAN
        BY <4>1, <3>1 DEF Forget
      <4> QED BY <4>1, <4>2, <3>1, <3>3, EmptyTyped, Zenon DEF IInv, TypeOK, NothingOwed
    <3>8. AnswersOwnRequest' /\ CallInv'
      BY <3>1, <3>3, <3>5, <3>6, <2>1 DEF IInv, CallInv, AnswersOwnRequest
    <3> QED BY <3>4, <3>7, <3>8 DEF IInv
  <2> QED BY <2>3, <2>4
<1>4. CASE NoData
  <2>1. TypeOK'
    <3>1. polls' \in 0..MAX_POLLS
      BY <1>4 DEF NoData, IInv, CallInv, TypeOK, CountPoll
    <3>2. /\ pending' \in {pending, FALSE} /\ buf' \in {buf, <<>>} /\ pc' \in {pc, "idle"}
          /\ server' \in {server, <<>>} /\ done' \in {done, 0} /\ wire' \in {wire, <<>>}
          /\ UNCHANGED <<fd, req, answer>>
      BY <1>4 DEF NoData, tile, agave, Retained, Forget, CloseStream
    <3> QED BY <3>1, <3>2, EmptyTyped, Zenon DEF IInv, TypeOK
  <2>2. AnswersOwnRequest' /\ CallInv'
    BY <1>4 DEF NoData, IInv, CallInv, AnswersOwnRequest, TypeOK, tile, PollAgain, CountPoll,
       Forget, close_fd
  <2>3. \/ UNCHANGED <<pending, buf, agave, req>> /\ pc' \in {pc, "idle"}
        \/ NothingOwed' /\ ~pending'
    BY <1>4 DEF NoData, tile, Retained, Forget, CloseStream, NothingOwed
  <2>4. OwedInv'
    BY <2>3, SMTT(60) DEF IInv, OwedInv, NothingOwed, Owed, AllFrom, agave
  <2> QED BY <2>1, <2>2, <2>4 DEF IInv
<1>5. CASE Fail
  <2>1. TypeOK'
    <3>1. fd' \in {"none", "dead"}
      BY <1>5 DEF Fail, DropStream
    <3> QED BY <3>1, <1>5, EmptyTyped, Zenon DEF Fail, IInv, TypeOK, DropStream, Forget, CloseStream
  <2>2. AnswersOwnRequest' /\ CallInv'
    BY <1>5 DEF Fail, IInv, CallInv, AnswersOwnRequest, Forget
  <2>3. OwedInv'
    BY <1>5 DEF Fail, OwedInv, NothingOwed, DropStream, Forget, CloseStream
  <2> QED BY <2>1, <2>2, <2>3 DEF IInv
<1>6. CASE Answer
  <2>1. PICK r \in Requests : Owed(r) /\ (pc = "read" => r = req)
    BY <1>6 DEF Answer, IInv, OwedInv, NothingOwed
  <2>2. server = <<r>> /\ Len(buf) + Len(wire) = done
    BY <1>6, <2>1 DEF Answer, Owed
  <2>3. wire' = Append(wire, r) /\ UNCHANGED <<tile, call>>
    BY <1>6, <2>2 DEF Answer
  <2>4. Len(wire') = Len(wire) + 1 /\ AllFrom(wire', r) /\ wire' \in Seq(Requests)
    BY <2>1, <2>3 DEF IInv, TypeOK, Owed, AllFrom
  <2>5. TypeOK'
    <3>1. done' \in 0..PARTS - 1 /\ server' \in Seq(Requests)
      BY <1>6, <2>2 DEF Answer, IInv, TypeOK
    <3> QED BY <3>1, <2>3, <2>4 DEF IInv, TypeOK, tile, call
  <2>6. AnswersOwnRequest' /\ CallInv'
    BY <2>3 DEF IInv, CallInv, AnswersOwnRequest, tile, call
  <2>7. Owed(r)'
    <3>1. buf' = buf /\ Len(buf) \in Nat /\ Len(wire) \in Nat /\ done \in Nat
      BY <2>3 DEF tile, IInv, TypeOK
    <3>2. CASE done + 1 = PARTS
      <4>1. done' = 0 /\ server' = <<>>
        BY <1>6, <2>2, <3>2 DEF Answer
      <4> QED BY <4>1, <3>1, <3>2, <2>1, <2>2, <2>4 DEF Owed, AllFrom
    <3>3. CASE done + 1 # PARTS
      <4>1. done' = done + 1 /\ server' = <<r>>
        BY <1>6, <2>2, <3>1, <3>3 DEF Answer
      <4> QED BY <4>1, <3>1, <2>1, <2>2, <2>4 DEF Owed, AllFrom
    <3> QED BY <3>2, <3>3
  <2>8. OwedInv'
    <3>1. pending /\ pending' = pending /\ pc' = pc /\ req' = req
      BY <1>6, <2>3 DEF Answer, IInv, OwedInv, NothingOwed, tile, call
    <3> QED BY <3>1, <2>1, <2>7 DEF OwedInv
  <2> QED BY <2>5, <2>6, <2>8 DEF IInv
<1>7. CASE UNCHANGED vars
  BY <1>7 DEF vars, tile, call, agave, IInv, TypeOK, AnswersOwnRequest, CallInv, OwedInv,
     NothingOwed, Owed, AllFrom
<1> QED BY <1>1, <1>2, <1>3, <1>4, <1>5, <1>6, <1>7 DEF Next

\* What is owed determines response_pending.
LEMMA OwedMeansPending == IInv => PendingIsOwed
<1> SUFFICES ASSUME IInv PROVE PendingIsOwed
  OBVIOUS
<1>1. CASE pending
  <2>1. PICK r \in Requests : Owed(r)
    BY <1>1 DEF IInv, OwedInv
  <2>2. Len(server) <= 1
    BY <2>1 DEF Owed
  <2>3. server # <<>> \/ wire # <<>> \/ buf # <<>>
    BY <2>1, AdminRpcConstants DEF Owed
  <2> QED BY <1>1, <2>2, <2>3 DEF PendingIsOwed
<1>2. CASE ~pending
  BY <1>2 DEF IInv, OwedInv, NothingOwed, PendingIsOwed
<1> QED BY <1>1, <1>2

\* IInv holds in every reachable state, with the reading of OwedMeansPending.
LEMMA AlwaysIInv == Spec => [](IInv /\ PendingIsOwed)
BY InitIInv, NextIInv, OwedMeansPending, PTL DEF Spec

\* A caller of fd_bam_admin_rpc_request never gets anything but the whole answer
\* to its own request, however many calls timed out before it.
THEOREM AdminRpcAnswers == Spec => [](TypeOK /\ AnswersOwnRequest)
<1>1. IInv => TypeOK /\ AnswersOwnRequest
  BY DEF IInv
<1> QED BY <1>1, AlwaysIInv, PTL

\* admin_rpc_response_pending says whether the stream still owes an answer, and
\* it never owes two: a call that gave up leaves exactly its answer behind.
THEOREM AdminRpcPending == Spec => []PendingIsOwed
BY AlwaysIInv, PTL
=============================================================================

-------------------------- MODULE BamResultsProofs --------------------------
(***************************************************************************)
(* The ring of BamResults implements the queue of BamFeedback, for rings   *)
(* and messages of any size and any number of batches.                     *)
(*                                                                         *)
(* The invariant ties the three indices together, before and during the    *)
(* decoding of a message: what a message adds lies behind the entries that *)
(* were there when it began, so that moving tail and depth back undoes it, *)
(* and the slot written next is never one that holds an entry.             *)
(*                                                                         *)
(* The second part counts the results a scheduler gets for a batch: one    *)
(* for each dispatch at most.  It needs the ring read as a sequence, and   *)
(* that what is queued or on its way answers the present scheduler.        *)
(***************************************************************************)
EXTENDS BamResults, FiniteFacts, TLAPS

Messages == [tail : 0..MAX_RESULTS - 1, depth : 0..MAX_RESULTS, staged : Seq(Items),
             seen : 0..BATCH_MAX]

Visible == IF pc = "decode" THEN msg.depth ELSE depth

RingInv ==
  /\ tail = (head + depth) % MAX_RESULTS
  /\ pc = "decode" => msg.depth <= depth /\ msg.tail = (head + msg.depth) % MAX_RESULTS
  /\ \A i, j \in 1..depth : Entry(i) = Entry(j) => i = j
  /\ \A i \in 1..depth : Entry(i) \in Results
  /\ \A r \in Results : sent[r] <= dispatches

IInv == TypeOK /\ RingInv

\* The ring has slots.
LEMMA RingSize == MAX_RESULTS \in Nat /\ MAX_RESULTS > 0
BY ResultsConstants

\* An empty sequence has no positions.
LEMMA NoPosition == \A i : i \notin 1..Len(<<>>)
OBVIOUS

\* Sequences with the same elements are equal.
LEMMA SameSeq ==
  ASSUME NEW S, NEW s \in Seq(S), NEW t \in Seq(S),
         Len(s) = Len(t), \A i \in 1..Len(s) : s[i] = t[i]
  PROVE  s = t
<1>1. s \in [1..Len(s) -> S] /\ t \in [1..Len(s) -> S]
  OBVIOUS
<1> QED BY <1>1

\* What a part of a sequence holds.
LEMMA PartOf ==
  ASSUME NEW S, NEW s \in Seq(S), NEW m \in Int, NEW n \in Int,
         \A i \in m..n : s[i] \in S
  PROVE  /\ SubSeq(s, m, n) \in Seq(S)
         /\ Len(SubSeq(s, m, n)) = IF m <= n THEN n - m + 1 ELSE 0
         /\ \A i \in 1..n - m + 1 : SubSeq(s, m, n)[i] = s[m + i - 1]
<1>1. Len(SubSeq(s, m, n)) = IF m <= n THEN n - m + 1 ELSE 0
  OBVIOUS
<1>2. \A i \in 1..n - m + 1 : SubSeq(s, m, n)[i] = s[m + i - 1]
  OBVIOUS
<1>3. SubSeq(s, m, n) \in Seq(S)
  OBVIOUS
<1> QED BY <1>1, <1>2, <1>3

\* One sequence after another.
LEMMA Joined ==
  ASSUME NEW S, NEW s \in Seq(S), NEW t \in Seq(S)
  PROVE  s \o t \in Seq(S) /\ Len(s \o t) = Len(s) + Len(t)
OBVIOUS

\* A sequence is its first element and the rest.
LEMMA HeadAndTail ==
  ASSUME NEW S, NEW s \in Seq(S), s # <<>>
  PROVE  /\ Head(s) \in S /\ <<Head(s)>> \in Seq(S) /\ Tail(s) \in Seq(S)
         /\ s = <<Head(s)>> \o Tail(s)
<1>1. /\ Head(s) \in S /\ Tail(s) \in Seq(S) /\ Len(Tail(s)) = Len(s) - 1
      /\ \A i \in 1..Len(Tail(s)) : Tail(s)[i] = s[i + 1]
  OBVIOUS
<1>2. /\ <<Head(s)>> \in Seq(S) /\ <<Head(s)>> \o Tail(s) \in Seq(S)
      /\ Len(<<Head(s)>> \o Tail(s)) = Len(s)
  BY <1>1
<1>3. \A i \in 1..Len(s) : s[i] = (<<Head(s)>> \o Tail(s))[i]
  BY <1>1
<1> QED BY <1>1, <1>2, <1>3, SameSeq

\* Indices never go round the ring more than once.
LEMMA Wrap ==
  ASSUME NEW x \in 0..2 * MAX_RESULTS - 1
  PROVE  x % MAX_RESULTS = IF x < MAX_RESULTS THEN x ELSE x - MAX_RESULTS
BY RingSize

\* Different entries have different slots, and none has the slot written next.
LEMMA SlotsDiffer ==
  ASSUME NEW h \in 0..MAX_RESULTS - 1, NEW i \in 1..MAX_RESULTS, NEW j \in 1..MAX_RESULTS,
         i # j
  PROVE  (h + i - 1) % MAX_RESULTS # (h + j - 1) % MAX_RESULTS
<1>1. /\ h + i - 1 \in 0..2 * MAX_RESULTS - 1
      /\ h + j - 1 \in 0..2 * MAX_RESULTS - 1
  BY RingSize
<1> QED BY <1>1, Wrap, RingSize

\* Every slot named is one of the ring's.
LEMMA SlotTyped ==
  ASSUME NEW h \in 0..MAX_RESULTS - 1, NEW i \in 0..MAX_RESULTS
  PROVE  (h + i) % MAX_RESULTS \in 0..MAX_RESULTS - 1
<1>1. h + i \in 0..2 * MAX_RESULTS - 1
  BY RingSize
<1> QED BY <1>1, Wrap, RingSize

\* Moving the read position by n is counting entries from n + 1.
LEMMA ShiftSlot ==
  ASSUME NEW h \in 0..MAX_RESULTS - 1, NEW n \in 0..MAX_RESULTS, NEW i \in 0..MAX_RESULTS,
         n + i <= MAX_RESULTS
  PROVE  (((h + n) % MAX_RESULTS) + i) % MAX_RESULTS = (h + n + i) % MAX_RESULTS
<1>1. h + n \in 0..2 * MAX_RESULTS - 1 /\ h + n + i \in 0..2 * MAX_RESULTS - 1
  BY RingSize
<1>2. CASE h + n < MAX_RESULTS
  <2>1. (h + n) % MAX_RESULTS = h + n
    BY <1>1, <1>2, Wrap
  <2> QED BY <2>1
<1>3. CASE h + n >= MAX_RESULTS
  <2>1. (h + n) % MAX_RESULTS = h + n - MAX_RESULTS
    BY <1>1, <1>3, Wrap, RingSize
  <2>2. h + n - MAX_RESULTS + i \in 0..MAX_RESULTS - 1
    BY <1>1, <1>3, RingSize
  <2>3. (h + n - MAX_RESULTS + i) % MAX_RESULTS = h + n - MAX_RESULTS + i
    BY <2>2, Wrap, RingSize
  <2>4. (h + n + i) % MAX_RESULTS = h + n + i - MAX_RESULTS
    BY <1>1, <1>3, Wrap, RingSize
  <2> QED BY <2>1, <2>3, <2>4, RingSize
<1> QED BY <1>2, <1>3, RingSize

\* The mapped queue: its length and its elements.
LEMMA QueueIsSeq ==
  ASSUME TypeOK, NEW n \in 0..MAX_RESULTS
  PROVE  /\ Queue(n) \in Seq(Results \cup {None}) /\ Len(Queue(n)) = n
         /\ \A i \in 1..n : Queue(n)[i] = Entry(i)
<1>1. \A i \in 1..n : Entry(i) \in Results \cup {None}
  <2> SUFFICES ASSUME NEW i \in 1..n PROVE Entry(i) \in Results \cup {None}
    OBVIOUS
  <2>1. i - 1 \in 0..MAX_RESULTS /\ head + i - 1 = head + (i - 1)
    BY RingSize DEF TypeOK
  <2>2. (head + (i - 1)) % MAX_RESULTS \in 0..MAX_RESULTS - 1
    BY <2>1, SlotTyped DEF TypeOK
  <2> QED BY <2>1, <2>2 DEF Entry, TypeOK
<1> QED BY <1>1, RingSize DEF Queue

\* What EnqueueResult leaves of the ring: the entries there were, and perhaps r.
LEMMA EnqueueKeeps ==
  ASSUME IInv, NEW r \in Results, EnqueueResult(r)
  PROVE  /\ head' = head
         /\ depth' \in depth..MAX_RESULTS
         /\ tail' \in 0..MAX_RESULTS - 1 /\ tail' = (head + depth') % MAX_RESULTS
         /\ bam_results' \in [0..MAX_RESULTS - 1 -> Results \cup {None}]
         /\ \A i \in 1..depth : Entry(i)' = Entry(i)
         /\ \A i, j \in 1..depth' : Entry(i)' = Entry(j)' => i = j
         /\ \A i \in 1..depth' : Entry(i)' \in Results
         /\ \A i \in 1..depth' : i > depth => Accepts(r) /\ i = depth + 1 /\ Entry(i)' = r
<1>0. head \in 0..MAX_RESULTS - 1 /\ tail \in 0..MAX_RESULTS - 1 /\ depth \in 0..MAX_RESULTS
  BY DEF IInv, TypeOK
<1>1. CASE ~Accepts(r)
  <2>1. UNCHANGED ring
    BY <1>1 DEF EnqueueResult
  <2>2. \A i \in 1..depth : Entry(i)' = Entry(i)
    BY <2>1 DEF ring, Entry
  <2> QED BY <2>1, <2>2, <1>0, SMTT(60) DEF ring, IInv, TypeOK, RingInv
<1>2. CASE Accepts(r)
  <2>1. /\ bam_results' = [bam_results EXCEPT ![tail] = r]
        /\ tail' = (tail + 1) % MAX_RESULTS
        /\ depth' = depth + 1 /\ head' = head /\ depth < MAX_RESULTS
    BY <1>2 DEF EnqueueResult, Accepts, HasRoom
  <2>2. tail = (head + depth) % MAX_RESULTS
    BY DEF IInv, RingInv
  <2>3. tail' \in 0..MAX_RESULTS - 1
    BY <2>1, <1>0, SlotTyped, RingSize
  <2>4. tail' = (head + depth') % MAX_RESULTS
    <3>1. 1 \in 0..MAX_RESULTS /\ depth + 1 <= MAX_RESULTS /\ head + depth + 1 = head + depth'
      BY <2>1, <1>0, RingSize
    <3> QED BY <3>1, <2>1, <2>2, <1>0, ShiftSlot
  <2>5. \A i \in 1..depth : Entry(i)' = Entry(i)
    <3> SUFFICES ASSUME NEW i \in 1..depth PROVE Entry(i)' = Entry(i)
      OBVIOUS
    <3>1. (head + i - 1) % MAX_RESULTS # tail
      <4>1. i \in 1..MAX_RESULTS /\ depth + 1 \in 1..MAX_RESULTS /\ i # depth + 1
        BY <1>0, <2>1, RingSize
      <4>2. head + (depth + 1) - 1 = head + depth
        BY <1>0
      <4> QED BY <4>1, <4>2, <2>2, <1>0, SlotsDiffer
    <3>2. (head + i - 1) % MAX_RESULTS \in 0..MAX_RESULTS - 1
      <4>1. i - 1 \in 0..MAX_RESULTS /\ head + i - 1 = head + (i - 1)
        BY <1>0, RingSize
      <4> QED BY <4>1, <1>0, SlotTyped
    <3> QED BY <3>1, <3>2, <2>1 DEF Entry, IInv, TypeOK
  <2>6. \A i \in 1..depth' : i = depth + 1 => Entry(i)' = r
    <3> SUFFICES ASSUME NEW i \in 1..depth', i = depth + 1 PROVE Entry(i)' = r
      OBVIOUS
    <3>1. head + i - 1 = head + depth
      BY <1>0
    <3> QED BY <3>1, <2>1, <2>2, <1>0 DEF Entry, IInv, TypeOK
  <2>7. \A i \in 1..depth : Entry(i) # r
    BY <1>2 DEF Accepts, IsQueued
  <2>8. \A i, j \in 1..depth' : Entry(i)' = Entry(j)' => i = j
    <3> SUFFICES ASSUME NEW i \in 1..depth', NEW j \in 1..depth', Entry(i)' = Entry(j)'
                 PROVE  i = j
      OBVIOUS
    <3>1. CASE i \in 1..depth /\ j \in 1..depth
      BY <3>1, <2>5 DEF IInv, RingInv
    <3>2. CASE i = depth + 1 /\ j \in 1..depth
      BY <3>2, <2>5, <2>6, <2>7
    <3>3. CASE j = depth + 1 /\ i \in 1..depth
      BY <3>3, <2>5, <2>6, <2>7
    <3> QED BY <3>1, <3>2, <3>3, <2>1, <1>0
  <2>9. bam_results' \in [0..MAX_RESULTS - 1 -> Results \cup {None}]
    BY <2>1, <1>0 DEF IInv, TypeOK
  <2>10. depth' \in depth..MAX_RESULTS
    BY <2>1, <1>0, RingSize
  <2>11. \A i \in 1..depth' : Entry(i)' \in Results
    <3>1. \A i \in 1..depth' : i \in 1..depth \/ i = depth + 1
      BY <2>1, <1>0
    <3> QED BY <3>1, <2>5, <2>6 DEF IInv, RingInv
  <2>12. \A i \in 1..depth' : i > depth => i = depth + 1
    BY <2>1, <1>0
  <2> QED BY <1>2, <2>1, <2>3, <2>4, <2>5, <2>6, <2>8, <2>9, <2>10, <2>11, <2>12
<1> QED BY <1>1, <1>2

\* The entries of a ring that keeps its slots and its read position.
LEMMA SameEntries ==
  ASSUME bam_results' = bam_results, head' = head
  PROVE  \A i : Entry(i)' = Entry(i)
BY DEF Entry

\* The message context at rest is well typed.
LEMMA NoMessageTyped == NoMessage \in Messages
<1>1. 0 \in 0..MAX_RESULTS - 1 /\ 0 \in 0..MAX_RESULTS /\ 0 \in 0..BATCH_MAX
  BY ResultsConstants
<1> QED BY <1>1 DEF NoMessage, Messages

\* Changing what a message context has staged and seen keeps its marks.
LEMMA Staging ==
  ASSUME NEW m \in Messages, NEW s \in Seq(Items), NEW n \in 0..BATCH_MAX
  PROVE  /\ [m EXCEPT !.staged = s] \in Messages
         /\ [m EXCEPT !.seen = n] \in Messages
         /\ [m EXCEPT !.staged = s, !.seen = n] \in Messages
         /\ [m EXCEPT !.seen = n].tail = m.tail
         /\ [m EXCEPT !.seen = n].depth = m.depth
         /\ [m EXCEPT !.staged = s, !.seen = n].tail = m.tail
         /\ [m EXCEPT !.staged = s, !.seen = n].depth = m.depth
BY Zenon DEF Messages

\* Initially the ring is empty and well formed.
LEMMA InitIInv == Init => IInv
<1> SUFFICES ASSUME Init PROVE IInv
  OBVIOUS
<1>1. 0 \in 0..MAX_RESULTS - 1 /\ 0 \in 0..MAX_RESULTS /\ 1 \in Gens /\ 0 \in 0..BATCH_MAX
      /\ 0 \in 0..DISPATCH_MAX
  BY ResultsConstants DEF Gens
<1>2. bam_results \in [0..MAX_RESULTS - 1 -> Results \cup {None}]
  BY DEF Init
<1>3. msg \in Messages
  BY NoMessageTyped DEF Init
<1>4. /\ pending_txns \in Seq(Items) /\ Len(pending_txns) <= PENDING_MAX /\ tx \in Seq(Results)
      /\ sent \in [Results -> 0..DISPATCH_MAX] /\ delivered \in [Results -> Nat]
  BY <1>1, ResultsConstants DEF Init
<1>5. /\ stream \in BOOLEAN /\ active \in BOOLEAN /\ retired \in BOOLEAN
      /\ halted \in BOOLEAN
  BY Zenon DEF Init
<1>6. TypeOK
  BY <1>1, <1>2, <1>3, <1>4, <1>5 DEF Init, TypeOK, Messages
<1>7. (0 + 0) % MAX_RESULTS = 0
  BY Wrap, RingSize
<1>8. RingInv
  BY <1>1, <1>7 DEF Init, RingInv
<1> QED BY <1>6, <1>8 DEF IInv

\* RingInv after a step that leaves the ring and the dispatches alone.
LEMMA RingStays ==
  ASSUME RingInv, UNCHANGED ring, UNCHANGED <<dispatches, sent>>,
         pc' = "decode" => pc = "decode" /\ msg' = msg
  PROVE  RingInv'
BY SameEntries DEF RingInv, ring

\* A result that is queued already is not queued again.
LEMMA Repeated == ASSUME NEW r, Repeat(r) PROVE UNCHANGED vars
BY Zenon DEF Repeat, EnqueueResult, Accepts, vars

\* The steps of the connection.
Linking == StreamUp \/ HeartBeat \/ Fails \/ Healthy \/ Unhalt

\* They leave all else alone.
LEMMA LinkingOnly ==
  ASSUME IInv, Linking
  PROVE  /\ pc # "decode"
         /\ UNCHANGED <<scheduler_gen, ring, pc, msg, work, tx, peer>>
         /\ stream' \in BOOLEAN /\ active' \in BOOLEAN /\ retired' \in BOOLEAN
         /\ health' \in {"starting", "healthy", "failing"} /\ halted' \in BOOLEAN
<1>1. CASE StreamUp \/ Healthy
  BY <1>1, Zenon DEF StreamUp, Healthy, net, link, owner, IInv, TypeOK
<1>2. CASE HeartBeat \/ Fails \/ Unhalt
  BY <1>2, Zenon DEF HeartBeat, Fails, Unhalt, owner, IInv, TypeOK
<1> QED BY <1>1, <1>2 DEF Linking

\* The steps that touch neither the ring nor the batches.
Idle == StepBegin \/ Linking \/ DecodeEnd \/ MessageEnd \/ StepEnd

\* Those steps keep the invariant.
LEMMA IdleIInv == IInv /\ Idle => IInv'
<1> SUFFICES ASSUME IInv, Idle PROVE IInv'
  OBVIOUS
<1>1. CASE StepBegin \/ DecodeEnd \/ MessageEnd \/ StepEnd
  <2>1. /\ pc' \in {"loop", "client", "commit", "reset"}
        /\ msg' \in {msg, NoMessage}
        /\ UNCHANGED <<scheduler_gen, ring, owner, work, net>>
    BY <1>1 DEF StepBegin, DecodeEnd, MessageEnd, StepEnd
  <2>2. msg' \in Messages
    BY <2>1, NoMessageTyped, Zenon DEF IInv, TypeOK, Messages
  <2>3. TypeOK'
    BY <2>1, <2>2 DEF Messages, IInv, TypeOK, ring, owner, work, net, link, peer
  <2>4. RingInv'
    BY <2>1, RingStays DEF IInv, net, link, peer
  <2> QED BY <2>3, <2>4 DEF IInv
<1>2. CASE Linking
  <2>1. /\ pc' # "decode"
        /\ UNCHANGED <<scheduler_gen, ring, pc, msg, work, tx, peer>>
    BY <1>2, LinkingOnly
  <2>2. TypeOK'
    BY <1>2, <2>1, LinkingOnly DEF IInv, TypeOK, ring, work, peer
  <2>3. RingInv'
    BY <2>1, RingStays DEF IInv, peer
  <2> QED BY <2>2, <2>3 DEF IInv
<1> QED BY <1>1, <1>2 DEF Idle

\* The steps that handle a message.
Handling ==
  MessageBegin \/ Rollback \/ CommitBatch \/ \E b \in Batches : DecodeBatch(b)

\* Decoding and committing a message keep the invariant.
LEMMA HandlingIInv == IInv /\ Handling => IInv'
<1> SUFFICES ASSUME IInv, Handling PROVE IInv'
  OBVIOUS
<1>0. msg \in Messages
  BY DEF IInv, TypeOK, Messages
<1>1. CASE MessageBegin
  <2>1. /\ msg' = [NoMessage EXCEPT !.tail = tail, !.depth = depth] /\ pc' = "decode"
        /\ UNCHANGED <<scheduler_gen, ring, owner, work, net>>
    BY <1>1 DEF MessageBegin
  <2>2. msg' \in Messages /\ msg'.tail = tail /\ msg'.depth = depth
    BY <2>1, NoMessageTyped, Zenon DEF Messages, NoMessage, IInv, TypeOK
  <2>3. TypeOK'
    BY <2>1, <2>2, Zenon DEF Messages, IInv, TypeOK, ring, owner, work, net, link, peer
  <2>4. RingInv'
    BY <2>1, <2>2, SameEntries DEF IInv, TypeOK, RingInv, ring, net, link, peer
  <2> QED BY <2>3, <2>4 DEF IInv
<1>2. CASE Rollback
  <2>1. /\ tail' = msg.tail /\ depth' = msg.depth /\ msg' = NoMessage
        /\ pc = "decode" /\ pc' = "client"
        /\ UNCHANGED <<scheduler_gen, bam_results, head, owner, work, net>>
    BY <1>2 DEF Rollback, Restore
  <2>2. TypeOK'
    BY <2>1, <1>0, NoMessageTyped DEF Messages, IInv, TypeOK, owner, work, net, link, peer
  <2>3. 1..depth' \subseteq 1..depth
    BY <2>1, <1>0 DEF IInv, TypeOK, RingInv, Messages
  <2>4. RingInv'
    BY <2>1, <2>3, SameEntries DEF IInv, RingInv, net, link, peer
  <2> QED BY <2>2, <2>4 DEF IInv
<1>3. CASE CommitBatch
  <2>1. /\ pc = "commit" /\ pc' = pc /\ msg.staged # <<>>
        /\ msg' = [msg EXCEPT !.staged = Tail(@)]
        /\ UNCHANGED <<scheduler_gen, owner, downstream, doomed, net>>
    BY <1>3 DEF CommitBatch
  <2>2. msg' \in Messages /\ Head(msg.staged) \in Items
    <3>1. msg.staged \in Seq(Items)
      BY <1>0 DEF Messages
    <3>2. Tail(msg.staged) \in Seq(Items) /\ Head(msg.staged) \in Items
      BY <2>1, <3>1
    <3>3. 0 \in 0..BATCH_MAX
      BY ResultsConstants
    <3> QED BY <2>1, <3>2, <3>3, <1>0, Staging, Zenon
  <2>3. CASE EnqueueResult(ResultOf(Head(msg.staged))) /\ UNCHANGED pending_txns
    <3>1. ResultOf(Head(msg.staged)) \in Results
      BY <2>2 DEF Items, Results, ResultOf
    <3>2. /\ head' = head /\ depth' \in depth..MAX_RESULTS
          /\ tail' \in 0..MAX_RESULTS - 1 /\ tail' = (head + depth') % MAX_RESULTS
          /\ bam_results' \in [0..MAX_RESULTS - 1 -> Results \cup {None}]
          /\ \A i, j \in 1..depth' : Entry(i)' = Entry(j)' => i = j
          /\ \A i \in 1..depth' : Entry(i)' \in Results
      BY <2>3, <3>1, EnqueueKeeps
    <3>3. depth' \in 0..MAX_RESULTS
      BY <3>2 DEF IInv, TypeOK
    <3>4. TypeOK'
      BY <2>1, <2>2, <2>3, <3>2, <3>3, Zenon DEF Messages, IInv, TypeOK, owner, net, link, peer
    <3>5. RingInv'
      BY <2>1, <3>2, Zenon DEF IInv, RingInv, net, link, peer
    <3> QED BY <3>4, <3>5, Zenon DEF IInv
  <2>4. CASE /\ Len(pending_txns) < PENDING_MAX
             /\ pending_txns' = Append(pending_txns, Head(msg.staged))
             /\ UNCHANGED ring
    <3>1. pending_txns' \in Seq(Items) /\ Len(pending_txns') <= PENDING_MAX
      BY <2>4, <2>2, ResultsConstants, SMTT(60) DEF IInv, TypeOK
    <3>2. TypeOK'
      BY <2>1, <2>2, <2>4, <3>1, Zenon DEF Messages, IInv, TypeOK, ring, owner, net, link, peer
    <3>3. RingInv'
      BY <2>1, <2>4, RingStays, Zenon DEF IInv, net, link, peer
    <3> QED BY <3>2, <3>3, Zenon DEF IInv
  <2> QED BY <1>3, <2>3, <2>4, Zenon DEF CommitBatch
<1>4. CASE \E b \in Batches : DecodeBatch(b)
  <2>1. PICK b \in Batches : DecodeBatch(b)
    BY <1>4
  <2> DEFINE k    == [batch |-> b, gen |-> scheduler_gen]
             item == [batch |-> b, gen |-> scheduler_gen, n |-> dispatches']
  <2>2. /\ pc = "decode" /\ msg.seen < BATCH_MAX /\ pc' = pc
        /\ dispatches < DISPATCH_MAX /\ dispatches' = dispatches + 1
        /\ sent' = [sent EXCEPT ![k] = @ + 1]
        /\ UNCHANGED <<scheduler_gen, owner, work, link, tx, delivered>>
    BY <2>1 DEF DecodeBatch
  <2>3. k \in Results /\ item \in Items /\ dispatches' \in 0..DISPATCH_MAX
    <3>1. dispatches \in 0..DISPATCH_MAX /\ DISPATCH_MAX \in Nat /\ scheduler_gen \in Gens
      BY ResultsConstants DEF IInv, TypeOK
    <3>2. dispatches' \in 1..DISPATCH_MAX
      BY <3>1, <2>2
    <3> QED BY <3>1, <3>2 DEF Results, Items
  <2>4. sent' \in [Results -> 0..DISPATCH_MAX] /\ \A r \in Results : sent'[r] <= dispatches'
    <3> HIDE DEF k
    <3>1. sent[k] \in 0..dispatches
      <4>1. sent[k] \in 0..DISPATCH_MAX /\ sent[k] <= dispatches /\ dispatches \in 0..DISPATCH_MAX
        BY <2>3 DEF IInv, TypeOK, RingInv
      <4> QED BY <4>1, ResultsConstants
    <3>2. sent[k] + 1 \in 0..DISPATCH_MAX /\ sent[k] + 1 <= dispatches'
      <4>1. dispatches \in 0..DISPATCH_MAX /\ DISPATCH_MAX \in Nat
        BY ResultsConstants DEF IInv, TypeOK
      <4> QED BY <2>2, <3>1, <4>1
    <3>3. \A r \in Results : sent[r] \in 0..DISPATCH_MAX /\ sent[r] <= dispatches'
      BY <2>2 DEF IInv, TypeOK, RingInv
    <3> QED BY <2>2, <2>3, <3>2, <3>3, Zenon DEF IInv, TypeOK
  <2>5. /\ msg' \in {[msg EXCEPT !.staged = Append(@, item), !.seen = @ + 1],
                     [msg EXCEPT !.seen = @ + 1]}
        /\ UNCHANGED ring \/ EnqueueResult(k)
    BY <2>1 DEF DecodeBatch
  <2>6. msg' \in Messages /\ msg'.tail = msg.tail /\ msg'.depth = msg.depth
    <3>1. msg.seen + 1 \in 0..BATCH_MAX
      BY <2>2, <1>0, ResultsConstants DEF Messages
    <3> HIDE DEF item
    <3>2. Append(msg.staged, item) \in Seq(Items) /\ msg.staged \in Seq(Items)
      BY <2>3, <1>0 DEF Messages
    <3>3. CASE msg' = [msg EXCEPT !.seen = @ + 1]
      BY <3>1, <3>2, <3>3, <1>0, Staging, Zenon
    <3>4. CASE msg' = [msg EXCEPT !.staged = Append(@, item), !.seen = @ + 1]
      BY <3>1, <3>2, <3>4, <1>0, Staging, Zenon
    <3> QED BY <2>5, <3>3, <3>4
  <2>7. /\ head' = head /\ depth' \in depth..MAX_RESULTS /\ depth' \in 0..MAX_RESULTS
        /\ tail' \in 0..MAX_RESULTS - 1 /\ tail' = (head + depth') % MAX_RESULTS
        /\ bam_results' \in [0..MAX_RESULTS - 1 -> Results \cup {None}]
        /\ \A i, j \in 1..depth' : Entry(i)' = Entry(j)' => i = j
        /\ \A i \in 1..depth' : Entry(i)' \in Results
    <3>1. depth \in 0..MAX_RESULTS
      BY DEF IInv, TypeOK
    <3>2. CASE EnqueueResult(k)
      BY <3>1, <3>2, <2>3, EnqueueKeeps
    <3>3. CASE UNCHANGED ring
      BY <3>1, <3>3, SameEntries DEF ring, IInv, TypeOK, RingInv
    <3> QED BY <2>5, <3>2, <3>3
  <2> HIDE DEF k, item
  <2>8. TypeOK'
    BY <2>2, <2>3, <2>4, <2>6, <2>7, Zenon DEF Messages, IInv, TypeOK, owner, work, link
  <2>9. RingInv'
    <3>1. msg.depth <= depth /\ msg.tail = (head + msg.depth) % MAX_RESULTS
          /\ msg.depth \in Int /\ depth \in Int
      BY <2>2, <1>0 DEF IInv, RingInv, TypeOK, Messages
    <3>2. msg'.depth <= depth'
      BY <2>6, <2>7, <3>1
    <3> QED BY <2>4, <2>6, <2>7, <3>1, <3>2 DEF RingInv
  <2> QED BY <2>8, <2>9 DEF IInv
<1> QED BY <1>1, <1>2, <1>3, <1>4 DEF Handling

\* What the stream is given, and what stays, when n entries are sent.
LEMMA Sending ==
  ASSUME IInv, NEW n \in 1..depth,
         head' = (head + n) % MAX_RESULTS, depth' = depth - n,
         bam_results' = bam_results
  PROVE  /\ Queue(n) \in Seq(Results)
         /\ head' \in 0..MAX_RESULTS - 1 /\ depth' \in 0..MAX_RESULTS
         /\ (head' + depth') % MAX_RESULTS = (head + depth) % MAX_RESULTS
         /\ \A i \in 1..depth' : Entry(i)' = Entry(n + i)
<1>0. head \in 0..MAX_RESULTS - 1 /\ depth \in 0..MAX_RESULTS
  BY DEF IInv, TypeOK
<1>1. Queue(n) \in Seq(Results)
  <2>1. \A i \in 1..n : Entry(i) \in Results
    BY <1>0 DEF IInv, RingInv
  <2> QED BY <2>1, <1>0 DEF Queue
<1>2. n \in 0..MAX_RESULTS /\ depth' \in 0..MAX_RESULTS /\ n + depth' = depth
  BY <1>0, RingSize
<1>3. head' \in 0..MAX_RESULTS - 1
  BY <1>0, <1>2, SlotTyped
<1>4. (head' + depth') % MAX_RESULTS = (head + depth) % MAX_RESULTS
  <2>1. head + n + depth' = head + depth /\ n + depth' <= MAX_RESULTS
    BY <1>0, <1>2
  <2> QED BY <2>1, <1>0, <1>2, ShiftSlot
<1>5. \A i \in 1..depth' : Entry(i)' = Entry(n + i)
  <2> SUFFICES ASSUME NEW i \in 1..depth' PROVE Entry(i)' = Entry(n + i)
    OBVIOUS
  <2>1. i - 1 \in 0..MAX_RESULTS /\ n + (i - 1) <= MAX_RESULTS
    BY <1>0, <1>2, RingSize
  <2>2. head + n + (i - 1) = head + (n + i) - 1 /\ head' + i - 1 = head' + (i - 1)
    BY <1>0, <1>3
  <2>3. (head' + (i - 1)) % MAX_RESULTS = (head + n + (i - 1)) % MAX_RESULTS
    BY <2>1, <1>0, <1>2, ShiftSlot
  <2> QED BY <2>2, <2>3 DEF Entry
<1> QED BY <1>1, <1>2, <1>3, <1>4, <1>5

\* How many results a message takes.
LEMMA Sized ==
  ASSUME IInv, depth > 0
  PROVE  MessageSize \in 1..depth /\ MessageSize \in 1..PER_MESSAGE
<1>1. depth \in Nat /\ PER_MESSAGE \in Nat \ {0}
  BY ResultsConstants, RingSize DEF IInv, TypeOK
<1> QED BY <1>1 DEF MessageSize

\* A message of results leaves a well-formed ring.
LEMMA FlushIInv == IInv /\ FlushResults => IInv'
<1> SUFFICES ASSUME IInv, FlushResults PROVE IInv'
  OBVIOUS
<1> DEFINE n == MessageSize
<1>0. head \in 0..MAX_RESULTS - 1 /\ depth \in 0..MAX_RESULTS
  BY DEF IInv, TypeOK
<1>1. /\ depth > 0 /\ tx' = tx \o Queue(n)
      /\ head' = (head + n) % MAX_RESULTS /\ depth' = depth - n
      /\ pc' = "flush"
      /\ UNCHANGED <<scheduler_gen, bam_results, tail, msg, owner, work, link, peer>>
  BY DEF FlushResults
<1>2. n \in 1..depth
  BY <1>1, Sized
<1> HIDE DEF n
<1>3. /\ Queue(n) \in Seq(Results)
      /\ head' \in 0..MAX_RESULTS - 1 /\ depth' \in 0..MAX_RESULTS
      /\ (head' + depth') % MAX_RESULTS = (head + depth) % MAX_RESULTS
      /\ \A i \in 1..depth' : Entry(i)' = Entry(n + i)
  BY <1>1, <1>2, Sending
<1>4. tx' \in Seq(Results)
  BY <1>1, <1>3 DEF IInv, TypeOK
<1>5. TypeOK'
  BY <1>1, <1>3, <1>4, Zenon DEF IInv, TypeOK, owner, work, link, peer
<1>6. \A i \in 1..depth' : n + i \in 1..depth
  BY <1>0, <1>1, <1>2
<1>7. \A i, j \in 1..depth' : n + i = n + j => i = j
  BY <1>2, <1>0
<1>8. \A i, j \in 1..depth' : Entry(i)' = Entry(j)' => i = j
  BY <1>3, <1>6, <1>7 DEF IInv, RingInv
<1>9. \A i \in 1..depth' : Entry(i)' \in Results
  BY <1>3, <1>6 DEF IInv, RingInv
<1>10. RingInv'
  BY <1>1, <1>3, <1>8, <1>9 DEF IInv, RingInv, peer
<1> QED BY <1>5, <1>10 DEF IInv

\* Ending an ownership generation only drops batches.
LEMMA Retiring ==
  ASSUME IInv, BeginOwnershipGeneration
  PROVE  /\ retired' \in BOOLEAN
         /\ pending_txns' \in Seq(Items) /\ Len(pending_txns') <= PENDING_MAX
         /\ doomed' \subseteq downstream
BY ResultsConstants DEF BeginOwnershipGeneration, IInv, TypeOK

\* So does publishing that BAM does not own the pipeline.
LEMMA Deactivating ==
  ASSUME IInv, Deactivate
  PROVE  /\ active' \in BOOLEAN /\ retired' \in BOOLEAN
         /\ pending_txns' \in Seq(Items) /\ Len(pending_txns') <= PENDING_MAX
         /\ doomed' \subseteq downstream
<1>0. active \in BOOLEAN /\ retired \in BOOLEAN
  BY DEF IInv, TypeOK
<1>1. CASE active /\ ~retired
  BY <1>0, <1>1, Retiring DEF Deactivate
<1>2. CASE ~(active /\ ~retired)
  <2>1. active' \in BOOLEAN
    BY <1>0, <1>2, Zenon DEF Deactivate
  <2> QED BY <2>1, <1>0, <1>2, Zenon DEF Deactivate, IInv, TypeOK
<1> QED BY <1>1, <1>2

\* Changes of health, connection and scheduler.
Lifecycle == Unhealthy \/ ClientReset \/ NewScheduler

\* Those changes keep the invariant.
LEMMA LifecycleIInv == IInv /\ Lifecycle => IInv'
<1> SUFFICES ASSUME IInv, Lifecycle PROVE IInv'
  OBVIOUS
<1>1. CASE Unhealthy
  <2>1. /\ pc = "loop" /\ UNCHANGED <<scheduler_gen, ring, pc, msg, downstream, net>>
    BY <1>1 DEF Unhealthy
  <2>2. TypeOK'
    BY <2>1, <1>1, Deactivating DEF Unhealthy, IInv, TypeOK, ring, net, link, peer
  <2>3. RingInv'
    BY <2>1, RingStays DEF IInv, net, link, peer
  <2> QED BY <2>2, <2>3 DEF IInv
<1>2. CASE ClientReset
  <2>1. /\ pc' = "loop" /\ stream' = FALSE /\ tx' = <<>> /\ health' = "starting"
        /\ UNCHANGED <<scheduler_gen, ring, msg, downstream, halted, peer>>
    BY <1>2 DEF ClientReset
  <2>2. tx' \in Seq(Results) /\ stream' \in BOOLEAN
    <3>1. tx' \in Seq(Results)
      BY <2>1
    <3>2. stream' \in BOOLEAN
      BY <2>1, Zenon
    <3> QED BY <3>1, <3>2
  <2>3. TypeOK'
    BY <2>1, <2>2, <1>2, Deactivating DEF ClientReset, IInv, TypeOK, ring, peer
  <2>4. RingInv'
    BY <2>1, RingStays DEF IInv, peer
  <2> QED BY <2>3, <2>4 DEF IInv
<1>3. CASE NewScheduler
  <2>1. /\ scheduler_gen < GEN_MAX /\ scheduler_gen' = scheduler_gen + 1
        /\ head' = tail /\ depth' = 0 /\ pc = "loop" /\ stream' = FALSE /\ tx' = <<>>
        /\ health' = "starting" /\ halted' \in {halted, TRUE}
        /\ UNCHANGED <<bam_results, tail, pc, msg, active, downstream, peer>>
    BY <1>3 DEF NewScheduler, ForgetFeedback
  <2>2. tx' \in Seq(Results) /\ stream' \in BOOLEAN /\ halted' \in BOOLEAN
    <3>1. tx' \in Seq(Results)
      BY <2>1
    <3>2. stream' \in BOOLEAN /\ halted' \in BOOLEAN
      BY <2>1, Zenon DEF IInv, TypeOK
    <3> QED BY <3>1, <3>2
  <2>3. scheduler_gen' \in Gens
    BY <2>1, ResultsConstants, SMTT(60) DEF IInv, TypeOK, Gens
  <2>4. head' \in 0..MAX_RESULTS - 1 /\ depth' \in 0..MAX_RESULTS /\ tail' = tail
    BY <2>1, RingSize DEF IInv, TypeOK
  <2>5. TypeOK'
    BY <2>1, <2>2, <2>3, <2>4, <1>3, Retiring, Zenon DEF NewScheduler, IInv, TypeOK, peer
  <2>6. tail = (tail + 0) % MAX_RESULTS
    BY Wrap, RingSize DEF IInv, TypeOK
  <2>7. RingInv'
    BY <2>1, <2>6 DEF IInv, RingInv, peer
  <2> QED BY <2>5, <2>7 DEF IInv
<1> QED BY <1>1, <1>2, <1>3 DEF Lifecycle

\* The steps of the rest of the pipeline and of the network.
Outside ==
  \/ Drain \/ Deliver
  \/ \E item \in downstream : Feedback(item)
  \/ \E item \in doomed : PackRetires(item)

\* So do the steps of the pipeline and of the network.
LEMMA OutsideIInv == IInv /\ Outside => IInv'
<1> SUFFICES ASSUME IInv, Outside PROVE IInv'
  OBVIOUS
<1>1. CASE Drain
  <2>1. /\ pc = "loop" /\ pending_txns # <<>>
        /\ downstream' = downstream \cup {Head(pending_txns)}
        /\ pending_txns' = Tail(pending_txns)
        /\ UNCHANGED <<scheduler_gen, ring, pc, msg, owner, doomed, net>>
    BY <1>1, Zenon DEF Drain
  <2>2. /\ Head(pending_txns) \in Items /\ pending_txns' \in Seq(Items)
        /\ Len(pending_txns') <= PENDING_MAX
    BY <2>1, ResultsConstants, SMTT(60) DEF IInv, TypeOK
  <2>3. TypeOK'
    BY <2>1, <2>2, Zenon DEF IInv, TypeOK, ring, owner, net, link, peer
  <2>4. RingInv'
    BY <2>1, RingStays DEF IInv, net, link, peer
  <2> QED BY <2>3, <2>4 DEF IInv
<1>2. CASE Deliver
  <2> DEFINE k == [batch |-> Head(tx).batch, gen |-> scheduler_gen]
  <2>1. /\ tx # <<>> /\ tx' = Tail(tx) /\ delivered' = [delivered EXCEPT ![k] = @ + 1]
        /\ UNCHANGED <<scheduler_gen, ring, pc, msg, owner, work, link, dispatches, sent>>
    BY <1>2 DEF Deliver
  <2>2. Head(tx) \in Results /\ tx' \in Seq(Results)
    BY <2>1 DEF IInv, TypeOK
  <2>3. k \in Results
    BY <2>2 DEF Results, IInv, TypeOK
  <2> HIDE DEF k
  <2>4. delivered' \in [Results -> Nat]
    <3>1. delivered[k] + 1 \in Nat
      BY <2>3 DEF IInv, TypeOK
    <3>2. delivered \in [Results -> Nat]
      BY DEF IInv, TypeOK
    <3> QED BY <2>1, <2>3, <3>1, <3>2
  <2>5. TypeOK'
    BY <2>1, <2>2, <2>4, Zenon DEF IInv, TypeOK, ring, owner, work, link
  <2>6. RingInv'
    BY <2>1, RingStays DEF IInv
  <2> QED BY <2>5, <2>6 DEF IInv
<1>3. CASE \E item \in downstream : Feedback(item)
  <2>1. PICK item \in downstream : Feedback(item)
    BY <1>3
  <2>2. /\ pc = "loop" /\ EnqueueResult(ResultOf(item))
        /\ downstream' = downstream \ {item} /\ doomed' = doomed \ {item}
        /\ UNCHANGED <<scheduler_gen, pc, msg, owner, pending_txns, net>>
    BY <2>1 DEF Feedback
  <2>3. ResultOf(item) \in Results
    BY DEF IInv, TypeOK, Items, Results, ResultOf
  <2>4. /\ head' = head /\ depth' \in depth..MAX_RESULTS
        /\ tail' \in 0..MAX_RESULTS - 1 /\ tail' = (head + depth') % MAX_RESULTS
        /\ bam_results' \in [0..MAX_RESULTS - 1 -> Results \cup {None}]
        /\ \A i, j \in 1..depth' : Entry(i)' = Entry(j)' => i = j
        /\ \A i \in 1..depth' : Entry(i)' \in Results
    BY <2>2, <2>3, EnqueueKeeps
  <2>5. depth' \in 0..MAX_RESULTS
    BY <2>4 DEF IInv, TypeOK
  <2>6. TypeOK'
    BY <2>2, <2>4, <2>5, Zenon DEF IInv, TypeOK, owner, net, link, peer
  <2>7. RingInv'
    BY <2>2, <2>4 DEF IInv, RingInv, net, link, peer
  <2> QED BY <2>6, <2>7 DEF IInv
<1>4. CASE \E item \in doomed : PackRetires(item)
  <2>1. PICK item \in doomed : PackRetires(item)
    BY <1>4
  <2>2. /\ downstream' = downstream \ {item} /\ doomed' = doomed \ {item}
        /\ UNCHANGED <<scheduler_gen, ring, pc, msg, owner, pending_txns, net>>
    BY <2>1 DEF PackRetires
  <2>3. TypeOK'
    BY <2>2 DEF IInv, TypeOK, ring, owner, net, link, peer
  <2>4. RingInv'
    BY <2>2, RingStays DEF IInv, net, link, peer
  <2> QED BY <2>3, <2>4 DEF IInv
<1> QED BY <1>1, <1>2, <1>3, <1>4 DEF Outside

\* Every step keeps the invariant.
LEMMA NextIInv == IInv /\ [Next]_vars => IInv'
<1>1. IInv /\ UNCHANGED vars => IInv'
  <2> SUFFICES ASSUME IInv, UNCHANGED vars PROVE IInv'
    OBVIOUS
  <2>1. TypeOK'
    BY DEF IInv, TypeOK, vars, ring, owner, work, net, link, peer
  <2>2. RingInv'
    BY RingStays DEF IInv, vars, net, link, peer
  <2> QED BY <2>1, <2>2 DEF IInv
<1>2. Next => Idle \/ Handling \/ FlushResults \/ Lifecycle \/ Outside \/ UNCHANGED vars
  BY Repeated, Zenon DEF Next, Idle, Linking, Handling, Lifecycle, Outside
<1> QED BY <1>1, <1>2, IdleIInv, HandlingIInv, FlushIInv, LifecycleIInv, OutsideIInv

\* The queue of BamFeedback that a state of the ring stands for.
MappedQueue ==
  /\ Visible \in 0..depth /\ depth \in 0..MAX_RESULTS
  /\ Queue(Visible) \in Seq(Results) /\ Len(Queue(Visible)) = Visible
  /\ \A i \in 1..Visible : Queue(Visible)[i] = Entry(i)

\* It is a sequence of results, whose elements are the entries in order.
LEMMA Mapped == IInv => MappedQueue
<1> SUFFICES ASSUME IInv PROVE MappedQueue
  OBVIOUS
<1>1. Visible \in 0..depth /\ depth \in 0..MAX_RESULTS
  BY DEF IInv, TypeOK, RingInv, Visible
<1>2. \A i \in 1..Visible : Entry(i) \in Results
  BY <1>1 DEF IInv, RingInv
<1> QED BY <1>1, <1>2 DEF MappedQueue, Queue

\* A sequence that begins with s has it as a prefix.
LEMMA Prefix ==
  ASSUME NEW S, NEW s \in Seq(S), NEW t \in Seq(S), Len(s) <= Len(t),
         \A i \in 1..Len(s) : t[i] = s[i]
  PROVE  s = SubSeq(t, 1, Len(s))
BY PartOf, SameSeq

\* A step that only adds entries behind the visible ones offers them.
LEMMA Offering ==
  ASSUME IInv, IInv', UNCHANGED <<scheduler_gen, tx>>, Visible' >= Visible,
         \A i \in 1..Visible : Entry(i)' = Entry(i)
  PROVE  Promised!Offer
<1>1. MappedQueue /\ MappedQueue'
  BY Mapped, PTL
<1> DEFINE q == Queue(Visible)
<1>2. /\ q \in Seq(Results) /\ Len(q) = Visible /\ \A i \in 1..Visible : q[i] = Entry(i)
      /\ Visible \in Nat
  BY <1>1, RingSize DEF MappedQueue
<1>3. /\ q' \in Seq(Results) /\ Len(q') = Visible' /\ \A i \in 1..Visible' : q'[i] = Entry(i)'
      /\ Visible' \in 0..MAX_RESULTS /\ 1..Visible' \subseteq 1..depth'
  BY <1>1, RingSize DEF MappedQueue
<1> HIDE DEF q
<1>4. Len(q') \in Len(q)..MAX_RESULTS
  BY <1>2, <1>3, RingSize
<1>5. \A i \in 1..Len(q) : q'[i] = q[i]
  BY <1>2, <1>3
<1>6. q = SubSeq(q', 1, Len(q))
  BY <1>2, <1>3, <1>5, Prefix
<1>7. \A i, j \in 1..Len(q') : q'[i] = q'[j] => i = j
  BY <1>3 DEF IInv, RingInv
<1> QED BY <1>4, <1>6, <1>7 DEF Promised!Offer, Promised!NoDuplicates, q, Visible

\* The queue does not change when the visible entries do not.
LEMMA SameQueue ==
  ASSUME Visible' = Visible, \A i \in 1..Visible : Entry(i)' = Entry(i)
  PROVE  Queue(Visible)' = Queue(Visible)
BY DEF Queue

\* A flushed message is the front of the queue.
LEMMA FlushSends == IInv /\ IInv' /\ FlushResults => Promised!Send
<1> SUFFICES ASSUME IInv, IInv', FlushResults PROVE Promised!Send
  OBVIOUS
<1> DEFINE n == MessageSize
           q == Queue(Visible)
<1>1. /\ depth > 0 /\ tx' = tx \o Queue(n)
      /\ head' = (head + n) % MAX_RESULTS /\ depth' = depth - n
      /\ UNCHANGED <<scheduler_gen, bam_results>>
      /\ Visible = depth /\ Visible' = depth'
  BY DEF FlushResults, Visible
<1>2. n \in 1..depth /\ n \in 1..PER_MESSAGE
  BY <1>1, Sized
<1>3. MappedQueue /\ MappedQueue'
  BY Mapped, PTL
<1>4. /\ q \in Seq(Results) /\ Len(q) = depth /\ \A i \in 1..depth : q[i] = Entry(i)
      /\ depth \in Nat
  BY <1>1, <1>3, RingSize DEF MappedQueue
<1>5. /\ q' \in Seq(Results) /\ Len(q') = depth' /\ \A i \in 1..depth' : q'[i] = Entry(i)'
  BY <1>1, <1>3 DEF MappedQueue
<1> HIDE DEF n, q
<1>6. Queue(n) \in Seq(Results) /\ \A i \in 1..depth' : Entry(i)' = Entry(n + i)
  BY <1>1, <1>2, Sending
<1>7. Len(Queue(n)) = n /\ \A i \in 1..n : Queue(n)[i] = Entry(i)
  BY <1>2, <1>4, <1>6 DEF Queue
<1>8. Queue(n) = SubSeq(q, 1, n)
  BY <1>2, <1>4, <1>6, <1>7, Prefix
<1>9. q' = SubSeq(q, n + 1, Len(q))
  <2>1. \A i \in n + 1..Len(q) : q[i] \in Results
    BY <1>2, <1>4
  <2>2. /\ SubSeq(q, n + 1, Len(q)) \in Seq(Results)
        /\ Len(SubSeq(q, n + 1, Len(q))) = depth'
        /\ \A i \in 1..depth' : SubSeq(q, n + 1, Len(q))[i] = q[n + i]
    BY <2>1, <1>1, <1>2, <1>4, PartOf
  <2>3. \A i \in 1..depth' : q'[i] = q[n + i]
    BY <1>1, <1>2, <1>4, <1>5, <1>6
  <2> QED BY <2>2, <2>3, <1>5, SameSeq
<1>10. n <= Len(q)
  BY <1>2, <1>4
<1> QED BY <1>1, <1>2, <1>8, <1>9, <1>10 DEF Promised!Send, q, Visible

\* The mapped queue of a ring without entries.
LEMMA EmptyQueue == Queue(0) = <<>>
BY DEF Queue

\* Every step of the tile is one of the promise, or changes nothing of it.
LEMMA StepPromised ==
  IInv /\ IInv' /\ [Next]_vars => [Promised!Next]_(Promised!vars)
<1> SUFFICES ASSUME IInv, IInv', [Next]_vars
             PROVE  Promised!Next \/ UNCHANGED Promised!vars
  OBVIOUS
<1>0. Visible \in 0..depth /\ depth \in 0..MAX_RESULTS
  BY Mapped DEF MappedQueue
<1>1. CASE \/ StepBegin \/ Linking \/ MessageBegin \/ MessageEnd \/ StepEnd \/ DecodeEnd
           \/ Unhealthy \/ Drain \/ Rollback
           \/ \E item \in doomed : PackRetires(item)
           \/ UNCHANGED vars
  <2>1. UNCHANGED <<scheduler_gen, tx, head, bam_results>>
    BY <1>1, LinkingOnly
            DEF StepBegin, MessageBegin, MessageEnd, StepEnd, DecodeEnd, Unhealthy, Drain, Rollback, PackRetires, vars, ring, net
  <2>2. Visible' >= Visible
    <3>1. CASE MessageBegin
      <4>1. msg'.depth = depth
        BY <3>1 DEF MessageBegin, NoMessage
      <4> QED BY <4>1, <3>1, <1>0 DEF MessageBegin, Visible
    <3>2. CASE DecodeEnd \/ Rollback
      BY <3>2, <1>0 DEF DecodeEnd, Rollback, Restore, Visible, ring
    <3>3. CASE \/ StepBegin \/ Linking \/ MessageEnd \/ StepEnd \/ Unhealthy \/ Drain
               \/ (\E item \in doomed : PackRetires(item)) \/ UNCHANGED vars
      <4>1. Visible' = Visible
        BY <3>3, LinkingOnly
                DEF StepBegin, MessageEnd, StepEnd, Unhealthy, Drain, PackRetires, vars, ring, Visible
      <4> QED BY <4>1, <1>0
    <3> QED BY <1>1, <3>1, <3>2, <3>3
  <2>3. Promised!Offer
    BY <2>1, <2>2, SameEntries, Offering
  <2> QED BY <2>3 DEF Promised!Next
<1>2. CASE \E b \in Batches : DecodeBatch(b)
  <2>1. PICK b \in Batches : DecodeBatch(b)
    BY <1>2
  <2> DEFINE k    == [batch |-> b, gen |-> scheduler_gen]
             item == [batch |-> b, gen |-> scheduler_gen, n |-> dispatches']
  <2>2. /\ pc = "decode" /\ pc' = "decode" /\ UNCHANGED <<scheduler_gen, tx>>
        /\ msg' \in {[msg EXCEPT !.staged = Append(@, item), !.seen = @ + 1],
                     [msg EXCEPT !.seen = @ + 1]}
        /\ UNCHANGED ring \/ EnqueueResult(k)
    BY <2>1 DEF DecodeBatch
  <2>3. msg'.depth = msg.depth
    BY <2>2, Zenon DEF IInv, TypeOK
  <2>4. \A i \in 1..depth : Entry(i)' = Entry(i)
    <3>1. k \in Results
      BY DEF Results, IInv, TypeOK
    <3>2. UNCHANGED ring => \A i \in 1..depth : Entry(i)' = Entry(i)
      BY SameEntries DEF ring
    <3> QED BY <2>2, <3>1, <3>2, EnqueueKeeps
  <2>5. Visible' = Visible
    BY <2>2, <2>3 DEF Visible
  <2>6. Promised!Offer
    BY <2>2, <2>4, <2>5, <1>0, Offering
  <2> QED BY <2>6 DEF Promised!Next
<1>3. CASE CommitBatch \/ \E item \in downstream : Feedback(item)
  <2>1. /\ pc # "decode" /\ pc' = pc /\ UNCHANGED <<scheduler_gen, tx>>
        /\ UNCHANGED ring \/ \E r \in Results : EnqueueResult(r)
    <3>1. CASE CommitBatch
      <4>1. Head(msg.staged) \in Items
        <5>1. msg.staged # <<>>
          BY <3>1 DEF CommitBatch
        <5>2. msg.staged \in Seq(Items)
          BY DEF IInv, TypeOK
        <5> QED BY <5>1, <5>2
      <4>2. ResultOf(Head(msg.staged)) \in Results
        BY <4>1 DEF Items, Results, ResultOf
      <4> QED BY <3>1, <4>2 DEF CommitBatch, net, link
    <3>2. CASE \E item \in downstream : Feedback(item)
      <4>1. PICK item \in downstream : Feedback(item)
        BY <3>2
      <4>2. ResultOf(item) \in Results
        BY Zenon DEF IInv, TypeOK, Items, Results, ResultOf
      <4> QED BY <4>1, <4>2 DEF Feedback, net, link
    <3> QED BY <1>3, <3>1, <3>2
  <2>2. depth' >= depth /\ \A i \in 1..depth : Entry(i)' = Entry(i)
    <3>1. CASE UNCHANGED ring
      BY <3>1, <1>0, SameEntries DEF ring
    <3>2. CASE \E r \in Results : EnqueueResult(r)
      <4>1. PICK r \in Results : EnqueueResult(r)
        BY <3>2
      <4>2. depth' \in depth..MAX_RESULTS /\ \A i \in 1..depth : Entry(i)' = Entry(i)
        BY <4>1, EnqueueKeeps
      <4> QED BY <4>2, <1>0
    <3> QED BY <2>1, <3>1, <3>2
  <2>3. Visible = depth /\ Visible' = depth'
    BY <2>1 DEF Visible
  <2>4. Promised!Offer
    BY <2>1, <2>2, <2>3, Offering
  <2> QED BY <2>4 DEF Promised!Next
<1>4. CASE FlushResults
  BY <1>4, FlushSends DEF Promised!Next
<1>5. CASE Deliver
  <2>1. tx # <<>> /\ tx' = Tail(tx) /\ UNCHANGED <<scheduler_gen, ring, pc, msg>>
    BY <1>5 DEF Deliver
  <2>2. Queue(Visible)' = Queue(Visible)
    BY <2>1, SameEntries, SameQueue DEF ring, Visible
  <2> QED BY <2>1, <2>2 DEF Promised!Next, Promised!Deliver, Visible
<1>6. CASE ClientReset
  <2>1. tx' = <<>> /\ pc # "decode" /\ pc' = "loop" /\ UNCHANGED <<scheduler_gen, ring>>
    BY <1>6 DEF ClientReset
  <2>2. Queue(Visible)' = Queue(Visible)
    BY <2>1, SameEntries, SameQueue DEF ring, Visible
  <2> QED BY <2>1, <2>2 DEF Promised!Next, Promised!Reset, Visible
<1>7. CASE NewScheduler
  <2>1. tx' = <<>> /\ pc' # "decode" /\ depth' = 0 /\ scheduler_gen' = scheduler_gen + 1
    BY <1>7 DEF NewScheduler, ForgetFeedback
  <2>2. scheduler_gen' # scheduler_gen
    BY <2>1, ResultsConstants DEF IInv, TypeOK, Gens
  <2>3. Queue(Visible)' = <<>>
    BY <2>1 DEF Queue, Visible
  <2> QED BY <2>1, <2>2, <2>3 DEF Promised!Next, Promised!NewScheduler, Visible
<1>8. ASSUME NEW r \in Results, Repeat(r) PROVE UNCHANGED vars
  BY <1>8, Repeated
<1> QED BY <1>1, <1>2, <1>3, <1>4, <1>5, <1>6, <1>7, <1>8 DEF Next, Linking

\* The invariant holds throughout.
LEMMA Invariant == Spec => []IInv
BY InitIInv, NextIInv, PTL DEF Spec

\* For every size of the ring, of a message of results and of a scheduler
\* message, the BAM tile's ring of results (fd_bam_enqueue_result, the rollback of
\* fd_bam_decode_multiple, fd_bam_flush_results and the resets) implements the
\* feedback queue of BamFeedback.
THEOREM ResultsRefine == Spec => RingIsFeedbackQueue
<1>1. Init => Promised!Init
  <2> SUFFICES ASSUME Init PROVE Promised!Init
    OBVIOUS
  <2>1. scheduler_gen \in Nat /\ tx = <<>> /\ pc = "loop" /\ depth = 0
    BY DEF Init
  <2> QED BY <2>1, EmptyQueue DEF Promised!Init
<1> QED BY <1>1, Invariant, StepPromised, PTL
        DEF Spec, RingIsFeedbackQueue, Promised!Spec

\* The ring's indices, the batches and the counters stay in their ranges.
THEOREM ResultsTyped == Spec => []TypeOK
<1>1. IInv => TypeOK
  BY DEF IInv
<1> QED BY <1>1, Invariant, PTL

(***************************************************************************)
(* How many results a scheduler gets for a batch.                          *)
(***************************************************************************)

\* Where a sequence has elements of W, and how many.
At(W, s)    == {i \in DOMAIN s : s[i] \in W}
Count(W, s) == Cardinality(At(W, s))

\* The dispatches that r answers.
Waiting(r) == {item \in Items : ResultOf(item) = r}

\* Where a result for r, or a dispatch still to be answered by one, can be.
InTx(r)    == Count({r}, tx)
InRing(r)  == Count({r}, Queue(depth))
Staged(r)  == Count(Waiting(r), msg.staged)
Pending(r) == Count(Waiting(r), pending_txns)
Piped(r)   == Cardinality(Waiting(r) \cap downstream)

\* What is queued or on its way answers the present scheduler: the ring takes no
\* other results, and forgets them, with the stream, when the scheduler changes.
CurrentInv ==
  /\ \A i \in 1..Len(tx) : tx[i].gen = scheduler_gen
  /\ \A i \in 1..depth : Entry(i).gen = scheduler_gen

FinitePipe == IsFiniteSet(downstream)

CountInv ==
  /\ CurrentInv
  /\ FinitePipe
  /\ \A r \in Results :
       delivered[r] + InTx(r) + InRing(r) + Staged(r) + Pending(r) + Piped(r) <= sent[r]

\* A sequence has finitely many elements of W.
LEMMA CountNat ==
  ASSUME SetFacts, NEW S, NEW s \in Seq(S), NEW W
  PROVE  IsFiniteSet(At(W, s)) /\ Count(W, s) \in Nat /\ At(W, s) \subseteq 1..Len(s)
<1>1. At(W, s) \in SUBSET (1..Len(s)) /\ Len(s) \in Nat
  BY DEF At
<1>2. IsFiniteSet(1..Len(s))
  BY <1>1 DEF SetFacts, FiniteInterval
<1>3. IsFiniteSet(At(W, s))
  BY <1>1, <1>2, Zenon DEF SetFacts, FiniteSubset
<1> QED BY <1>1, <1>3 DEF SetFacts, FiniteSize, Count

\* The count of one sequence after another.
LEMMA CountConcat ==
  ASSUME SetFacts, NEW S, NEW s \in Seq(S), NEW t \in Seq(S), NEW W
  PROVE  Count(W, s \o t) = Count(W, s) + Count(W, t)
<1> DEFINE T == {i + Len(s) : i \in At(W, t)}
<1>1. /\ Len(s) \in Nat /\ Len(t) \in Nat /\ s \o t \in Seq(S)
      /\ DOMAIN (s \o t) = 1..(Len(s) + Len(t))
      /\ \A i \in 1..Len(s) : (s \o t)[i] = s[i]
      /\ \A i \in 1..Len(t) : (s \o t)[i + Len(s)] = t[i]
  OBVIOUS
<1>2. At(W, s \o t) = At(W, s) \cup T
  <2>1. \A i \in 1..(Len(s) + Len(t)) : i \in 1..Len(s) \/ i - Len(s) \in 1..Len(t)
    BY <1>1
  <2>2. ASSUME NEW i \in At(W, s \o t) PROVE i \in At(W, s) \cup T
    <3>1. i \in 1..(Len(s) + Len(t)) /\ (s \o t)[i] \in W
      BY <1>1 DEF At
    <3>2. CASE i \in 1..Len(s)
      BY <3>1, <3>2, <1>1 DEF At
    <3>3. CASE i - Len(s) \in 1..Len(t)
      <4>1. i = (i - Len(s)) + Len(s)
        BY <3>1, <1>1
      <4>2. i - Len(s) \in At(W, t)
        BY <3>1, <3>3, <4>1, <1>1 DEF At
      <4> QED BY <4>1, <4>2
    <3> QED BY <2>1, <3>1, <3>2, <3>3
  <2>3. ASSUME NEW i \in At(W, s) PROVE i \in At(W, s \o t)
    BY <2>3, <1>1 DEF At
  <2>4. ASSUME NEW j \in At(W, t) PROVE j + Len(s) \in At(W, s \o t)
    <3>1. j \in 1..Len(t) /\ t[j] \in W
      BY DEF At
    <3>2. j + Len(s) \in 1..(Len(s) + Len(t))
      BY <3>1, <1>1
    <3> QED BY <3>1, <3>2, <1>1 DEF At
  <2> QED BY <2>2, <2>3, <2>4
<1>3. At(W, s) \cap T = {}
  <2>1. \A i \in At(W, s) : i \in 1..Len(s)
    BY DEF At
  <2>2. \A j \in At(W, t) : j \in 1..Len(t)
    BY DEF At
  <2> QED BY <2>1, <2>2, <1>1
<1>4. IsFiniteSet(At(W, s)) /\ IsFiniteSet(At(W, t)) /\ At(W, t) \in SUBSET Nat
      /\ Count(W, s) \in Nat
  <2>1. At(W, t) \subseteq 1..Len(t) /\ IsFiniteSet(At(W, s)) /\ IsFiniteSet(At(W, t))
        /\ Count(W, s) \in Nat
    BY CountNat
  <2> QED BY <2>1, <1>1
<1>5. IsFiniteSet(T) /\ Cardinality(T) = Count(W, t)
  BY <1>1, <1>4, Zenon DEF Count, SetFacts, FiniteMoved
<1>6. Cardinality(At(W, s) \cup T) = Cardinality(At(W, s)) + Cardinality(T) - Cardinality({})
  <2> HIDE DEF T
  <2>1. Cardinality(At(W, s) \cup T) =
          Cardinality(At(W, s)) + Cardinality(T) - Cardinality(At(W, s) \cap T)
    BY <1>4, <1>5, Zenon DEF SetFacts, FiniteUnion
  <2> QED BY <1>3, <2>1, Zenon
<1> HIDE DEF T
<1>7. Count(W, t) \in Nat
  BY CountNat
<1> QED BY <1>2, <1>4, <1>5, <1>6, <1>7 DEF SetFacts, FiniteEmpty, Count

\* The count of a sequence of one element.
LEMMA CountOne ==
  ASSUME SetFacts, NEW S, NEW e \in S, NEW W
  PROVE  Count(W, <<e>>) = IF e \in W THEN 1 ELSE 0
<1>1. DOMAIN <<e>> = {1} /\ <<e>>[1] = e
  OBVIOUS
<1>2. At(W, <<e>>) = IF e \in W THEN {1} ELSE {}
  BY <1>1 DEF At
<1> QED BY <1>2, Zenon DEF SetFacts, FiniteOne, FiniteEmpty, Count

\* What an appended element contributes.
LEMMA CountAppend ==
  ASSUME SetFacts, NEW S, NEW s \in Seq(S), NEW e \in S, NEW W
  PROVE  Count(W, Append(s, e)) = Count(W, s) + (IF e \in W THEN 1 ELSE 0)
<1>1. Append(s, e) = s \o <<e>> /\ <<e>> \in Seq(S)
  OBVIOUS
<1>2. Count(W, s \o <<e>>) = Count(W, s) + Count(W, <<e>>)
  BY <1>1, CountConcat, Zenon
<1>3. Count(W, <<e>>) = IF e \in W THEN 1 ELSE 0
  BY CountOne
<1> QED BY <1>1, <1>2, <1>3

\* What the first element of a sequence contributes.
LEMMA CountTail ==
  ASSUME SetFacts, NEW S, NEW s \in Seq(S), s # <<>>, NEW W
  PROVE  Count(W, s) = Count(W, Tail(s)) + (IF Head(s) \in W THEN 1 ELSE 0)
<1> DEFINE h == Head(s)
           t == Tail(s)
<1>1. s = <<h>> \o t /\ <<h>> \in Seq(S) /\ t \in Seq(S) /\ h \in S
  BY HeadAndTail
<1> HIDE DEF h, t
<1>2. Count(W, <<h>> \o t) = Count(W, <<h>>) + Count(W, t)
  BY <1>1, CountConcat, Zenon
<1>3. Count(W, t) \in Nat
  BY <1>1, CountNat
<1>4. Count(W, <<h>>) = IF h \in W THEN 1 ELSE 0
  BY <1>1, CountOne
<1>5. Count(W, s) = Count(W, t) + (IF h \in W THEN 1 ELSE 0)
  BY <1>1, <1>2, <1>3, <1>4
<1> QED BY <1>5 DEF h, t

\* An empty sequence has none.
LEMMA CountEmpty ==
  ASSUME SetFacts
  PROVE  \A W : Count(W, <<>>) = 0
BY DEF SetFacts, FiniteEmpty, Count, At

\* The ring read as a sequence.
RingQueue ==
  /\ Queue(depth) \in Seq(Results) /\ Len(Queue(depth)) = depth
  /\ \A i \in 1..depth : Queue(depth)[i] = Entry(i)
  /\ depth \in 0..MAX_RESULTS

(* The ring of the tile holds what RingQueue says it does. *)
LEMMA RingIsQueue == IInv => RingQueue
<1> SUFFICES ASSUME IInv PROVE RingQueue
  OBVIOUS
<1>1. depth \in 0..MAX_RESULTS /\ depth \in Nat
  BY RingSize DEF IInv, TypeOK
<1>2. \A i \in 1..depth : Entry(i) \in Results
  BY DEF IInv, RingInv
<1> QED BY <1>1, <1>2 DEF RingQueue, Queue

\* Everything counted is a number.
Sizes ==
  \A r \in Results :
    /\ delivered[r] \in Nat /\ sent[r] \in Nat
    /\ InTx(r) \in Nat /\ InRing(r) \in Nat
    /\ Staged(r) \in Nat /\ Pending(r) \in Nat /\ Piped(r) \in Nat

(* The numbers of results in the stages are natural numbers. *)
LEMMA SizesNat == SetFacts /\ IInv /\ FinitePipe => Sizes
<1> SUFFICES ASSUME SetFacts, IInv, FinitePipe, NEW r \in Results
             PROVE  /\ delivered[r] \in Nat /\ sent[r] \in Nat
                    /\ InTx(r) \in Nat /\ InRing(r) \in Nat
                    /\ Staged(r) \in Nat /\ Pending(r) \in Nat /\ Piped(r) \in Nat
  BY DEF Sizes
<1>1. delivered[r] \in Nat /\ sent[r] \in Nat
  BY ResultsConstants DEF IInv, TypeOK
<1>2. /\ tx \in Seq(Results) /\ msg.staged \in Seq(Items) /\ pending_txns \in Seq(Items)
      /\ Queue(depth) \in Seq(Results)
  BY RingIsQueue, Zenon DEF IInv, TypeOK, RingQueue
<1>3. InTx(r) \in Nat /\ InRing(r) \in Nat /\ Staged(r) \in Nat /\ Pending(r) \in Nat
  BY <1>2, CountNat, Zenon DEF InTx, InRing, Staged, Pending
<1>4. Piped(r) \in Nat
  BY Zenon DEF SetFacts, FiniteSubset, FiniteSize, Piped, FinitePipe
<1> QED BY <1>1, <1>3, <1>4, Zenon

(* The same after a step: the facts about sets do not change. *)
LEMMA SizesNext ==
  ASSUME SetFacts, IInv', FinitePipe'
  PROVE  Sizes'
<1>1. SetFacts'
  BY Zenon DEF SetFacts, FiniteSize, FiniteInterval, FiniteSubset, FiniteUnion, FiniteEmpty,
         FiniteOne, FiniteAdd, FiniteRemove, FiniteMoved
<1> QED BY <1>1, SizesNat, PTL

\* A result offered to the ring adds at most itself, and only if it answers the
\* present scheduler.
LEMMA EnqueueCounts ==
  ASSUME SetFacts, IInv, IInv', CurrentInv, NEW r \in Results, EnqueueResult(r)
  PROVE  /\ \A x \in Results : InRing(x)' <= InRing(x) + (IF x = r THEN 1 ELSE 0)
         /\ \A i \in 1..depth' : Entry(i)'.gen = scheduler_gen
<1>1. RingQueue /\ RingQueue'
  BY RingIsQueue, PTL
<1>2. /\ depth' \in depth..MAX_RESULTS /\ depth \in Nat
      /\ \A i \in 1..depth : Entry(i)' = Entry(i)
      /\ \A i \in 1..depth' : i > depth => Accepts(r) /\ i = depth + 1 /\ Entry(i)' = r
  BY <1>1, EnqueueKeeps, RingSize DEF RingQueue
<1> DEFINE q == Queue(depth)
<1>3. /\ q \in Seq(Results) /\ Len(q) = depth /\ \A i \in 1..depth : q[i] = Entry(i)
      /\ q' \in Seq(Results) /\ Len(q') = depth' /\ \A i \in 1..depth' : q'[i] = Entry(i)'
  BY <1>1, Zenon DEF RingQueue
<1>4. \A x \in Results : InRing(x) = Count({x}, q) /\ InRing(x)' = Count({x}, q')
  BY Zenon DEF InRing
<1> HIDE DEF q
<1>5. \A x \in Results : Count({x}, q) \in Nat
  BY <1>3, CountNat, Zenon
<1>6. CASE depth' = depth
  <2>1. q' = q
    BY <1>2, <1>3, <1>6, SameSeq, Zenon
  <2>2. \A x \in Results : Count({x}, q') <= Count({x}, q) + (IF x = r THEN 1 ELSE 0)
    BY <1>5, <2>1
  <2>3. \A i \in 1..depth' : Entry(i)'.gen = scheduler_gen
    BY <1>2, <1>6, Zenon DEF CurrentInv
  <2> QED BY <1>4, <2>2, <2>3, Zenon
<1>7. CASE depth' # depth
  <2>1. depth' = depth + 1 /\ Accepts(r) /\ \A i \in 1..depth' : i > depth => Entry(i)' = r
    BY <1>2, <1>7
  <2>2. q' = Append(q, r)
    <3>1. Append(q, r) \in Seq(Results) /\ Len(Append(q, r)) = depth'
      BY <1>3, <2>1
    <3>2. \A i \in 1..depth' : Append(q, r)[i] = q'[i]
      BY <1>2, <1>3, <2>1
    <3> QED BY <1>3, <3>1, <3>2, SameSeq, Zenon
  <2>3. \A x \in Results : Count({x}, q') = Count({x}, q) + (IF r \in {x} THEN 1 ELSE 0)
    BY <1>3, <2>2, CountAppend, Zenon
  <2>4. \A x \in Results : Count({x}, q') <= Count({x}, q) + (IF x = r THEN 1 ELSE 0)
    <3> SUFFICES ASSUME NEW x \in Results
                 PROVE  Count({x}, q') <= Count({x}, q) + (IF x = r THEN 1 ELSE 0)
      OBVIOUS
    <3>1. r \in {x} <=> x = r
      OBVIOUS
    <3>2. Count({x}, q') = Count({x}, q) + (IF x = r THEN 1 ELSE 0)
      BY <2>3, <3>1, Zenon
    <3>3. Count({x}, q) \in Nat
      BY <1>5, Zenon
    <3> QED BY <3>2, <3>3
  <2>5. \A i \in 1..depth' : Entry(i)'.gen = scheduler_gen
    BY <1>2, <2>1 DEF CurrentInv, Accepts, IsCurrent
  <2> QED BY <1>4, <2>4, <2>5, Zenon
<1> QED BY <1>6, <1>7, Zenon

\* A step that takes nothing in and delivers nothing.
LEMMA NoMore ==
  ASSUME SetFacts, IInv, IInv', CountInv, CurrentInv', FinitePipe',
         UNCHANGED <<sent, delivered>>,
         \A r \in Results : /\ InTx(r)' <= InTx(r) /\ InRing(r)' <= InRing(r)
                            /\ Staged(r)' <= Staged(r) /\ Pending(r)' <= Pending(r)
                            /\ Piped(r)' <= Piped(r)
  PROVE  CountInv'
<1>0. FinitePipe
  BY Zenon DEF CountInv
<1>1. Sizes /\ Sizes'
  BY <1>0, SizesNat, SizesNext, Zenon
<1> QED BY <1>1 DEF CountInv, Sizes

\* What stays where it is, is counted as before.
LEMMA SameCounts ==
  /\ UNCHANGED ring => \A r \in Results : InRing(r)' = InRing(r)
  /\ UNCHANGED tx => \A r \in Results : InTx(r)' = InTx(r)
  /\ msg'.staged = msg.staged => \A r \in Results : Staged(r)' = Staged(r)
  /\ UNCHANGED pending_txns => \A r \in Results : Pending(r)' = Pending(r)
  /\ UNCHANGED downstream => (FinitePipe => FinitePipe') /\ \A r \in Results : Piped(r)' = Piped(r)
  /\ UNCHANGED <<ring, tx, scheduler_gen>> => (CurrentInv => CurrentInv')
<1>1. UNCHANGED ring => \A r \in Results : InRing(r)' = InRing(r)
  <2>1. UNCHANGED ring => Queue(depth)' = Queue(depth)
    BY Zenon DEF ring, Queue, Entry
  <2> QED BY <2>1, Zenon DEF InRing
<1>2. UNCHANGED <<ring, tx, scheduler_gen>> => (CurrentInv => CurrentInv')
  <2> SUFFICES ASSUME UNCHANGED <<ring, tx, scheduler_gen>>, CurrentInv PROVE CurrentInv'
    OBVIOUS
  <2>1. \A i : Entry(i)' = Entry(i)
    BY SameEntries, Zenon DEF ring
  <2> QED BY <2>1, Zenon DEF CurrentInv, ring
<1>3. UNCHANGED tx => \A r \in Results : InTx(r)' = InTx(r)
  BY Zenon DEF InTx
<1>4. msg'.staged = msg.staged => \A r \in Results : Staged(r)' = Staged(r)
  BY Zenon DEF Staged, Waiting
<1>5. UNCHANGED pending_txns => \A r \in Results : Pending(r)' = Pending(r)
  BY Zenon DEF Pending, Waiting
<1>6. UNCHANGED downstream => (FinitePipe => FinitePipe') /\ \A r \in Results : Piped(r)' = Piped(r)
  BY Zenon DEF Piped, Waiting, FinitePipe
<1> QED BY <1>1, <1>2, <1>3, <1>4, <1>5, <1>6, Zenon

\* What is dropped is not counted any more.
LEMMA Dropped ==
  ASSUME SetFacts, Sizes, msg'.staged \in {msg.staged, <<>>}, pending_txns' \in {pending_txns, <<>>},
         tx' \in {tx, <<>>}
  PROVE  \A r \in Results :
           InTx(r)' <= InTx(r) /\ Staged(r)' <= Staged(r) /\ Pending(r)' <= Pending(r)
<1> SUFFICES ASSUME NEW r \in Results
             PROVE  InTx(r)' <= InTx(r) /\ Staged(r)' <= Staged(r) /\ Pending(r)' <= Pending(r)
  OBVIOUS
<1>1. InTx(r) \in Nat /\ Staged(r) \in Nat /\ Pending(r) \in Nat
  BY Zenon DEF Sizes
<1>2. InTx(r)' \in {InTx(r), 0}
  BY CountEmpty, Zenon DEF InTx
<1>3. Staged(r)' \in {Staged(r), 0}
  BY CountEmpty, Zenon DEF Staged, Waiting
<1>4. Pending(r)' \in {Pending(r), 0}
  BY CountEmpty, Zenon DEF Pending, Waiting
<1> QED BY <1>1, <1>2, <1>3, <1>4

\* Steps that at most drop something: what the ring holds, and where, is as before.
LEMMA DroppingCounts ==
  ASSUME SetFacts, IInv, IInv', CountInv,
         Idle \/ MessageBegin \/ Unhealthy \/ ClientReset \/ UNCHANGED vars
  PROVE  CountInv'
<1>1. /\ UNCHANGED <<scheduler_gen, ring, sent, delivered, downstream>>
      /\ msg'.staged \in {msg.staged, <<>>}
      /\ pending_txns' \in {pending_txns, <<>>}
      /\ tx' \in {tx, <<>>}
  <2>1. CASE StepBegin \/ DecodeEnd \/ StepEnd \/ UNCHANGED vars
    BY <2>1, Zenon DEF StepBegin, DecodeEnd, StepEnd, vars, work, net, link, peer
  <2>5. CASE Linking
    BY <2>5, LinkingOnly, Zenon DEF work, peer
  <2>2. CASE MessageEnd \/ MessageBegin
    <3>1. [NoMessage EXCEPT !.tail = tail, !.depth = depth].staged = <<>>
      BY Zenon DEF NoMessage
    <3>2. NoMessage.staged = <<>>
      BY Zenon DEF NoMessage
    <3> QED BY <2>2, <3>1, <3>2, Zenon DEF MessageEnd, MessageBegin, work, net, link, peer
  <2>3. CASE Unhealthy
    BY <2>3, Zenon DEF Unhealthy, Deactivate, BeginOwnershipGeneration, net, link, peer
  <2>4. CASE ClientReset
    BY <2>4, Zenon DEF ClientReset, Deactivate, BeginOwnershipGeneration, peer
  <2> QED BY <2>1, <2>2, <2>3, <2>4, <2>5, Zenon DEF Idle
<1>2. CurrentInv'
  <2>1. \A i : Entry(i)' = Entry(i)
    BY <1>1, SameEntries, Zenon DEF ring
  <2>2. \A i \in 1..Len(tx') : tx'[i].gen = scheduler_gen
    BY <1>1, NoPosition, Zenon DEF CountInv, CurrentInv
  <2> QED BY <1>1, <2>1, <2>2, Zenon DEF CountInv, CurrentInv, ring
<1>3. FinitePipe' /\ \A r \in Results : InRing(r)' = InRing(r) /\ Piped(r)' = Piped(r)
  BY <1>1, SameCounts, Zenon DEF CountInv
<1>4. Sizes
  BY SizesNat, Zenon DEF CountInv
<1>5. \A r \in Results : /\ InTx(r)' <= InTx(r) /\ InRing(r)' <= InRing(r)
                         /\ Staged(r)' <= Staged(r) /\ Pending(r)' <= Pending(r)
                         /\ Piped(r)' <= Piped(r)
  <2>1. \A r \in Results : InRing(r)' <= InRing(r) /\ Piped(r)' <= Piped(r)
    BY <1>3, <1>4 DEF Sizes
  <2> QED BY <1>1, <1>4, <2>1, Dropped, Zenon
<1> QED BY <1>1, <1>2, <1>3, <1>5, NoMore, Zenon

\* A rejected message takes back what it had put into the ring.
LEMMA RollbackCounts ==
  ASSUME SetFacts, IInv, IInv', CountInv, Rollback
  PROVE  CountInv'
<1>1. /\ pc = "decode" /\ depth' = msg.depth /\ msg'.staged = <<>>
      /\ UNCHANGED <<scheduler_gen, bam_results, head, sent, delivered, pending_txns, tx, downstream>>
  BY Zenon DEF Rollback, Restore, NoMessage, work, net, link, peer
<1>2. depth' <= depth /\ depth \in Nat /\ depth' \in Nat
  BY <1>1, RingSize DEF IInv, TypeOK, RingInv
<1>3. \A i : Entry(i)' = Entry(i)
  BY <1>1, SameEntries, Zenon
<1>4. CurrentInv'
  <2>1. \A i \in 1..depth' : i \in 1..depth
    BY <1>2
  <2> QED BY <1>1, <1>3, <2>1, Zenon DEF CountInv, CurrentInv
<1>5. RingQueue /\ RingQueue'
  BY RingIsQueue, PTL
<1>6. ASSUME NEW r \in Results PROVE InRing(r)' <= InRing(r)
  <2> DEFINE q == Queue(depth)
  <2>1. /\ q \in Seq(Results) /\ Len(q) = depth /\ \A i \in 1..depth : q[i] = Entry(i)
        /\ q' \in Seq(Results) /\ Len(q') = depth' /\ \A i \in 1..depth' : q'[i] = Entry(i)'
    BY <1>5, Zenon DEF RingQueue
  <2>2. InRing(r) = Count({r}, q) /\ InRing(r)' = Count({r}, q')
    BY Zenon DEF InRing
  <2> HIDE DEF q
  <2>3. At({r}, q') \in SUBSET At({r}, q)
    BY <1>2, <1>3, <2>1 DEF At
  <2>4. IsFiniteSet(At({r}, q))
    BY <2>1, CountNat, Zenon
  <2> QED BY <2>2, <2>3, <2>4, Zenon DEF SetFacts, FiniteSubset, Count
<1>7. FinitePipe' /\ \A r \in Results : Piped(r)' = Piped(r)
  BY <1>1, SameCounts, Zenon DEF CountInv
<1>8. Sizes
  BY SizesNat, Zenon DEF CountInv
<1>9. \A r \in Results : /\ InTx(r)' <= InTx(r) /\ InRing(r)' <= InRing(r)
                         /\ Staged(r)' <= Staged(r) /\ Pending(r)' <= Pending(r)
                         /\ Piped(r)' <= Piped(r)
  <2>1. \A r \in Results : Piped(r)' <= Piped(r)
    BY <1>7, <1>8 DEF Sizes
  <2> QED BY <1>1, <1>6, <1>8, <2>1, Dropped, Zenon
<1> QED BY <1>1, <1>4, <1>7, <1>9, NoMore, Zenon

\* A new scheduler starts with nothing queued.
LEMMA NewSchedulerCounts ==
  ASSUME SetFacts, IInv, IInv', CountInv, NewScheduler
  PROVE  CountInv'
<1>1. /\ depth' = 0 /\ tx' = <<>> /\ pending_txns' = <<>>
      /\ UNCHANGED <<msg, sent, delivered, downstream>>
  BY Zenon DEF NewScheduler, ForgetFeedback, BeginOwnershipGeneration, peer
<1>2. CurrentInv'
  BY <1>1 DEF CurrentInv
<1>3. FinitePipe' /\ \A r \in Results : Piped(r)' = Piped(r)
  BY <1>1, SameCounts, Zenon DEF CountInv
<1>4. Sizes
  BY SizesNat, Zenon DEF CountInv
<1>5. \A r \in Results : InRing(r)' = 0
  <2>1. Queue(depth)' = <<>>
    BY <1>1 DEF Queue
  <2> QED BY <2>1, CountEmpty, Zenon DEF InRing
<1>6. \A r \in Results : /\ InTx(r)' <= InTx(r) /\ InRing(r)' <= InRing(r)
                         /\ Staged(r)' <= Staged(r) /\ Pending(r)' <= Pending(r)
                         /\ Piped(r)' <= Piped(r)
  <2>1. \A r \in Results : InRing(r)' <= InRing(r) /\ Piped(r)' <= Piped(r)
    BY <1>3, <1>4, <1>5 DEF Sizes
  <2> QED BY <1>1, <1>4, <2>1, Dropped, Zenon
<1> QED BY <1>1, <1>2, <1>3, <1>6, NoMore, Zenon

\* A batch that is committed is answered at once or waits to be published.
LEMMA CommitCounts ==
  ASSUME SetFacts, IInv, IInv', CountInv, CommitBatch
  PROVE  CountInv'
<1> DEFINE item == Head(msg.staged)
<1>1. /\ msg.staged # <<>> /\ msg.staged \in Seq(Items) /\ pending_txns \in Seq(Items)
      /\ item \in Items /\ msg'.staged = Tail(msg.staged)
      /\ UNCHANGED <<scheduler_gen, sent, delivered, tx, downstream>>
  <2>1. msg \in Messages /\ msg.staged # <<>> /\ msg' = [msg EXCEPT !.staged = Tail(@)]
    BY Zenon DEF CommitBatch, IInv, TypeOK, Messages
  <2>2. msg.staged \in Seq(Items) /\ msg'.staged = Tail(msg.staged)
    BY <2>1, Zenon DEF Messages
  <2>3. item \in Items
    BY <2>1, <2>2
  <2>5. pending_txns \in Seq(Items)
    BY Zenon DEF IInv, TypeOK
  <2>4. UNCHANGED <<scheduler_gen, sent, delivered, tx, downstream>>
    BY Zenon DEF CommitBatch, net, link, peer
  <2> QED BY <2>1, <2>2, <2>3, <2>4, <2>5, Zenon
<1> HIDE DEF item
<1>2. Sizes /\ FinitePipe /\ FinitePipe'
      /\ \A r \in Results : InTx(r)' = InTx(r) /\ Piped(r)' = Piped(r)
  BY <1>1, SizesNat, SameCounts, Zenon DEF CountInv
<1>3. ASSUME NEW r \in Results
      PROVE  Staged(r) = Staged(r)' + (IF ResultOf(item) = r THEN 1 ELSE 0)
  <2>1. Count(Waiting(r), msg.staged) =
          Count(Waiting(r), Tail(msg.staged)) + (IF item \in Waiting(r) THEN 1 ELSE 0)
    BY <1>1, CountTail, Zenon DEF item
  <2>2. item \in Waiting(r) <=> ResultOf(item) = r
    BY <1>1, Zenon DEF Waiting
  <2> QED BY <1>1, <2>1, <2>2, Zenon DEF Staged, Waiting
<1>4. Sizes'
  BY <1>2, SizesNext, Zenon
<1>5. CASE EnqueueResult(ResultOf(item)) /\ UNCHANGED pending_txns
  <2>1. ResultOf(item) \in Results
    BY <1>1, Zenon DEF Items, Results, ResultOf
  <2>2. /\ \A x \in Results : InRing(x)' <= InRing(x) + (IF x = ResultOf(item) THEN 1 ELSE 0)
        /\ \A i \in 1..depth' : Entry(i)'.gen = scheduler_gen
    BY <1>5, <2>1, EnqueueCounts, Zenon DEF CountInv
  <2>3. CurrentInv'
    BY <1>1, <2>2, Zenon DEF CountInv, CurrentInv
  <2>4. \A r \in Results : Pending(r)' = Pending(r)
    BY <1>5, SameCounts, Zenon
  <2>5. ASSUME NEW r \in Results
        PROVE  delivered'[r] + InTx(r)' + InRing(r)' + Staged(r)' + Pending(r)' + Piped(r)'
                 <= sent'[r]
    <3>1. /\ delivered[r] \in Nat /\ sent[r] \in Nat /\ InTx(r) \in Nat /\ InRing(r) \in Nat
          /\ Staged(r) \in Nat /\ Pending(r) \in Nat /\ Piped(r) \in Nat
          /\ InRing(r)' \in Nat /\ Staged(r)' \in Nat /\ Pending(r)' \in Nat
      BY <1>2, <1>4, Zenon DEF Sizes
    <3>2. /\ delivered'[r] = delivered[r] /\ sent'[r] = sent[r]
          /\ InTx(r)' = InTx(r) /\ Piped(r)' = Piped(r)
          /\ Staged(r) = Staged(r)' + (IF ResultOf(item) = r THEN 1 ELSE 0)
      BY <1>1, <1>2, <1>3, Zenon
    <3>3. delivered[r] + InTx(r) + InRing(r) + Staged(r) + Pending(r) + Piped(r) <= sent[r]
      BY Zenon DEF CountInv
    <3>4. /\ InRing(r)' <= InRing(r) + (IF ResultOf(item) = r THEN 1 ELSE 0)
          /\ Pending(r)' = Pending(r)
      BY <2>2, <2>4, Zenon
    <3>5. InRing(r)' + Staged(r)' <= InRing(r) + Staged(r)
      BY ONLY <3>1, <3>2, <3>4
    <3>6. delivered[r] + InTx(r) + InRing(r)' + Staged(r)' + Pending(r) + Piped(r) <= sent[r]
      BY ONLY <3>1, <3>3, <3>5
    <3> QED BY <3>2, <3>4, <3>6, Zenon
  <2> QED BY <1>2, <2>3, <2>5, Zenon DEF CountInv
<1>6. CASE pending_txns' = Append(pending_txns, item) /\ UNCHANGED ring
  <2>1. CurrentInv' /\ \A r \in Results : InRing(r)' = InRing(r)
    BY <1>1, <1>6, SameCounts, Zenon DEF CountInv
  <2>2. ASSUME NEW r \in Results
        PROVE  Pending(r)' = Pending(r) + (IF ResultOf(item) = r THEN 1 ELSE 0)
    <3>1. Count(Waiting(r), Append(pending_txns, item)) =
            Count(Waiting(r), pending_txns) + (IF item \in Waiting(r) THEN 1 ELSE 0)
      BY <1>1, CountAppend, Zenon
    <3>2. item \in Waiting(r) <=> ResultOf(item) = r
      BY <1>1, Zenon DEF Waiting
    <3> QED BY <1>6, <3>1, <3>2, Zenon DEF Pending, Waiting
  <2>3. ASSUME NEW r \in Results
        PROVE  delivered'[r] + InTx(r)' + InRing(r)' + Staged(r)' + Pending(r)' + Piped(r)'
                 <= sent'[r]
    <3>1. /\ delivered[r] \in Nat /\ sent[r] \in Nat /\ InTx(r) \in Nat /\ InRing(r) \in Nat
          /\ Staged(r) \in Nat /\ Pending(r) \in Nat /\ Piped(r) \in Nat
          /\ InRing(r)' \in Nat /\ Staged(r)' \in Nat /\ Pending(r)' \in Nat
      BY <1>2, <1>4, Zenon DEF Sizes
    <3>2. /\ delivered'[r] = delivered[r] /\ sent'[r] = sent[r]
          /\ InTx(r)' = InTx(r) /\ Piped(r)' = Piped(r)
          /\ Staged(r) = Staged(r)' + (IF ResultOf(item) = r THEN 1 ELSE 0)
      BY <1>1, <1>2, <1>3, Zenon
    <3>3. delivered[r] + InTx(r) + InRing(r) + Staged(r) + Pending(r) + Piped(r) <= sent[r]
      BY Zenon DEF CountInv
    <3>4. /\ Pending(r)' = Pending(r) + (IF ResultOf(item) = r THEN 1 ELSE 0)
          /\ InRing(r)' = InRing(r)
      BY <2>1, <2>2, Zenon
    <3>5. Staged(r)' + Pending(r)' <= Staged(r) + Pending(r)
      BY ONLY <3>1, <3>2, <3>4
    <3>6. delivered[r] + InTx(r) + InRing(r) + Staged(r)' + Pending(r)' + Piped(r) <= sent[r]
      BY ONLY <3>1, <3>3, <3>5
    <3> QED BY <3>2, <3>4, <3>6, Zenon
  <2> QED BY <1>2, <2>1, <2>3, Zenon DEF CountInv
<1> QED BY <1>5, <1>6, Zenon DEF CommitBatch, item

\* A batch that arrives is staged, answered or, if nothing tells which it is,
\* never answered; its scheduler has sent one more.
LEMMA DecodeCounts ==
  ASSUME SetFacts, IInv, IInv', CountInv, NEW b \in Batches, DecodeBatch(b)
  PROVE  CountInv'
<1> DEFINE k    == [batch |-> b, gen |-> scheduler_gen]
           item == [batch |-> b, gen |-> scheduler_gen, n |-> dispatches']
<1>1. /\ sent' = [sent EXCEPT ![k] = @ + 1]
      /\ UNCHANGED <<scheduler_gen, pending_txns, downstream, tx, delivered>>
      /\ \/ msg' = [msg EXCEPT !.staged = Append(@, item), !.seen = @ + 1] /\ UNCHANGED ring
         \/ msg' = [msg EXCEPT !.seen = @ + 1] /\ (UNCHANGED ring \/ EnqueueResult(k))
  BY Zenon DEF DecodeBatch, work
<1>2. k \in Results /\ item \in Items /\ ResultOf(item) = k
  <2>1. scheduler_gen \in Gens /\ dispatches \in 0..DISPATCH_MAX /\ DISPATCH_MAX \in Nat
    BY ResultsConstants, Zenon DEF IInv, TypeOK
  <2>2. dispatches' \in 1..DISPATCH_MAX
    BY <2>1 DEF DecodeBatch
  <2> QED BY <2>1, <2>2, Zenon DEF Results, Items, ResultOf
<1>3. msg \in Messages /\ msg.staged \in Seq(Items)
  BY Zenon DEF IInv, TypeOK, Messages
<1> HIDE DEF k, item
<1>4. Sizes /\ FinitePipe /\ FinitePipe'
      /\ \A r \in Results : InTx(r)' = InTx(r) /\ Piped(r)' = Piped(r) /\ Pending(r)' = Pending(r)
  BY <1>1, SizesNat, SameCounts, Zenon DEF CountInv
<1>5. Sizes'
  BY <1>4, SizesNext, Zenon
<1>6. \A r \in Results : sent'[r] = sent[r] + (IF r = k THEN 1 ELSE 0)
  <2>1. sent \in [Results -> 0..DISPATCH_MAX]
    BY Zenon DEF IInv, TypeOK
  <2>2. \A r \in Results : sent'[r] = IF r = k THEN sent[k] + 1 ELSE sent[r]
    BY <1>1, <1>2, <2>1, Zenon
  <2> QED BY <1>2, <1>4, <2>2 DEF Sizes
<1>7. CASE msg' = [msg EXCEPT !.staged = Append(@, item), !.seen = @ + 1] /\ UNCHANGED ring
  <2>1. CurrentInv' /\ \A r \in Results : InRing(r)' = InRing(r)
    BY <1>1, <1>7, SameCounts, Zenon DEF CountInv
  <2>2. msg'.staged = Append(msg.staged, item)
    BY <1>3, <1>7, Zenon DEF Messages
  <2>3. ASSUME NEW r \in Results PROVE Staged(r)' = Staged(r) + (IF r = k THEN 1 ELSE 0)
    <3>1. Count(Waiting(r), Append(msg.staged, item)) =
            Count(Waiting(r), msg.staged) + (IF item \in Waiting(r) THEN 1 ELSE 0)
      BY <1>2, <1>3, CountAppend, Zenon
    <3>2. item \in Waiting(r) <=> r = k
      BY <1>2, Zenon DEF Waiting
    <3> QED BY <2>2, <3>1, <3>2, Zenon DEF Staged, Waiting
  <2>4. ASSUME NEW r \in Results
        PROVE  delivered'[r] + InTx(r)' + InRing(r)' + Staged(r)' + Pending(r)' + Piped(r)'
                 <= sent'[r]
    BY <1>1, <1>4, <1>5, <1>6, <2>1, <2>3 DEF CountInv, Sizes
  <2> QED BY <1>4, <2>1, <2>4, Zenon DEF CountInv
<1>8. CASE msg' = [msg EXCEPT !.seen = @ + 1] /\ (UNCHANGED ring \/ EnqueueResult(k))
  <2>1. msg'.staged = msg.staged
    BY <1>3, <1>8, Zenon DEF Messages
  <2>2. \A r \in Results : Staged(r)' = Staged(r)
    BY <2>1, SameCounts, Zenon
  <2>3. CurrentInv' /\ \A r \in Results : InRing(r)' <= InRing(r) + (IF r = k THEN 1 ELSE 0)
    <3>1. CASE UNCHANGED ring
      <4>1. CurrentInv' /\ \A r \in Results : InRing(r)' = InRing(r)
        BY <1>1, <3>1, SameCounts, Zenon DEF CountInv
      <4> QED BY <1>4, <4>1 DEF Sizes
    <3>2. CASE EnqueueResult(k)
      BY <1>1, <1>2, <3>2, EnqueueCounts, Zenon DEF CountInv, CurrentInv
    <3> QED BY <1>8, <3>1, <3>2, Zenon
  <2>4. ASSUME NEW r \in Results
        PROVE  delivered'[r] + InTx(r)' + InRing(r)' + Staged(r)' + Pending(r)' + Piped(r)'
                 <= sent'[r]
    BY <1>1, <1>4, <1>5, <1>6, <2>2, <2>3 DEF CountInv, Sizes
  <2> QED BY <1>4, <2>3, <2>4, Zenon DEF CountInv
<1> QED BY <1>1, <1>7, <1>8, Zenon

\* What is flushed moves from the ring to the stream.
LEMMA FlushCounts ==
  ASSUME SetFacts, IInv, IInv', CountInv, FlushResults
  PROVE  CountInv'
<1> DEFINE n == MessageSize
           q == Queue(depth)
           m == Queue(n)
<1>1. /\ depth > 0 /\ tx' = tx \o m
      /\ head' = (head + n) % MAX_RESULTS /\ depth' = depth - n
      /\ UNCHANGED <<scheduler_gen, bam_results, msg, sent, delivered, pending_txns, downstream>>
  BY Zenon DEF FlushResults, work, peer
<1>2. n \in 1..depth
  BY <1>1, Sized, Zenon
<1>3. RingQueue /\ RingQueue'
  BY RingIsQueue, PTL
<1>4. /\ q \in Seq(Results) /\ Len(q) = depth /\ \A i \in 1..depth : q[i] = Entry(i)
      /\ q' \in Seq(Results) /\ Len(q') = depth' /\ \A i \in 1..depth' : q'[i] = Entry(i)'
      /\ depth \in Nat
  BY <1>3, RingSize DEF RingQueue
<1>5. tx \in Seq(Results)
  BY Zenon DEF IInv, TypeOK
<1>6. \A r \in Results : /\ InTx(r) = Count({r}, tx) /\ InTx(r)' = Count({r}, tx')
                         /\ InRing(r) = Count({r}, q) /\ InRing(r)' = Count({r}, q')
  BY Zenon DEF InTx, InRing
<1>7. Len(m) = n /\ \A i \in 1..n : m[i] = Entry(i)
  BY <1>2, <1>4 DEF Queue
<1> HIDE DEF n, q
<1>8. m \in Seq(Results) /\ \A i \in 1..depth' : Entry(i)' = Entry(n + i)
  BY <1>1, <1>2, Sending, Zenon
<1> HIDE DEF m
<1>9. q = m \o q'
  <2>1. m \o q' \in Seq(Results) /\ Len(m \o q') = depth
    <3>1. m \o q' \in Seq(Results) /\ Len(m \o q') = Len(m) + Len(q')
      BY <1>4, <1>8, Joined, Zenon
    <3>2. Len(m) + Len(q') = depth
      BY <1>1, <1>2, <1>4, <1>7
    <3> QED BY <3>1, <3>2, Zenon
  <2>2. \A i \in 1..depth : (m \o q')[i] = q[i]
    <3> SUFFICES ASSUME NEW i \in 1..depth PROVE (m \o q')[i] = q[i]
      BY Zenon
    <3>1. CASE i \in 1..n
      BY <3>1, <1>4, <1>7, <1>8
    <3>2. CASE i \notin 1..n
      <4>1. i - n \in 1..depth' /\ i = n + (i - n)
        BY <3>2, <1>1, <1>2, <1>4
      <4>2. (m \o q')[i] = q'[i - n]
        BY <4>1, <1>2, <1>4, <1>7, <1>8
      <4> QED BY <4>1, <4>2, <1>4, <1>8, Zenon
    <3> QED BY <3>1, <3>2, Zenon
  <2> QED BY <2>1, <2>2, <1>4, SameSeq, Zenon
<1>10. CurrentInv'
  <2>1. \A i \in 1..depth' : n + i \in 1..depth
    BY <1>1, <1>2, <1>4
  <2>2. \A i \in 1..n : m[i].gen = scheduler_gen
    <3>1. \A i \in 1..n : i \in 1..depth
      BY <1>2, <1>4
    <3> QED BY <3>1, <1>7, Zenon DEF CountInv, CurrentInv
  <2>3. \A i \in 1..Len(tx') : tx'[i].gen = scheduler_gen
    <3> SUFFICES ASSUME NEW i \in 1..Len(tx') PROVE tx'[i].gen = scheduler_gen
      OBVIOUS
    <3>1. CASE i \in 1..Len(tx)
      BY <3>1, <1>1, <1>5, <1>8 DEF CountInv, CurrentInv
    <3>2. CASE i \notin 1..Len(tx)
      <4>1. i - Len(tx) \in 1..n /\ tx'[i] = m[i - Len(tx)]
        BY <3>2, <1>1, <1>5, <1>7, <1>8
      <4> QED BY <4>1, <2>2, Zenon
    <3> QED BY <3>1, <3>2, Zenon
  <2> QED BY <2>1, <2>3, <1>1, <1>8, Zenon DEF CountInv, CurrentInv
<1>11. Sizes /\ FinitePipe /\ FinitePipe' /\ msg'.staged = msg.staged
       /\ \A r \in Results : Pending(r)' = Pending(r) /\ Piped(r)' = Piped(r)
  BY <1>1, SizesNat, SameCounts, Zenon DEF CountInv
<1>12. Sizes'
  BY <1>11, SizesNext, Zenon
<1>13. ASSUME NEW r \in Results
       PROVE  delivered'[r] + InTx(r)' + InRing(r)' + Staged(r)' + Pending(r)' + Piped(r)'
                <= sent'[r]
  <2>1. Count({r}, tx') = Count({r}, tx) + Count({r}, m)
    BY <1>1, <1>5, <1>8, CountConcat, Zenon
  <2>2. Count({r}, m \o q') = Count({r}, m) + Count({r}, q')
    BY <1>4, <1>8, CountConcat, Zenon
  <2>3. Count({r}, m) \in Nat
    BY <1>8, CountNat, Zenon
  <2>4. InTx(r)' = InTx(r) + Count({r}, m) /\ InRing(r) = Count({r}, m) + InRing(r)'
    BY <1>6, <1>9, <2>1, <2>2, Zenon
  <2>5. Staged(r)' = Staged(r)
    BY <1>11, SameCounts, Zenon
  <2>6. delivered'[r] = delivered[r] /\ sent'[r] = sent[r] /\ Pending(r)' = Pending(r)
        /\ Piped(r)' = Piped(r)
    BY <1>1, <1>11, Zenon
  <2>7. delivered[r] + InTx(r) + InRing(r) + Staged(r) + Pending(r) + Piped(r) <= sent[r]
    BY Zenon DEF CountInv
  <2> HIDE DEF m
  <2>n. /\ delivered[r] \in Nat /\ sent[r] \in Nat /\ InTx(r) \in Nat /\ InRing(r) \in Nat
        /\ Staged(r) \in Nat /\ Pending(r) \in Nat /\ Piped(r) \in Nat
        /\ InTx(r)' \in Nat /\ InRing(r)' \in Nat
    BY <1>11, <1>12, Zenon DEF Sizes
  <2>8. InTx(r)' + InRing(r)' <= InTx(r) + InRing(r)
    BY ONLY <2>3, <2>4, <2>n
  <2>9. delivered[r] + InTx(r)' + InRing(r)' + Staged(r) + Pending(r) + Piped(r) <= sent[r]
    BY ONLY <2>7, <2>8, <2>n
  <2> QED BY <2>5, <2>6, <2>9, Zenon
<1> QED BY <1>10, <1>11, <1>13, Zenon DEF CountInv

\* How the batches in the pipeline are counted.
LEMMA PipedCounts ==
  ASSUME SetFacts, FinitePipe, NEW item \in Items
  PROVE  /\ downstream' = downstream \cup {item} =>
              /\ FinitePipe'
              /\ \A r \in Results :
                   Piped(r)' <= Piped(r) + (IF ResultOf(item) = r THEN 1 ELSE 0)
         /\ downstream' = downstream \ {item} /\ item \in downstream =>
              /\ FinitePipe'
              /\ \A r \in Results :
                   Piped(r) = Piped(r)' + (IF ResultOf(item) = r THEN 1 ELSE 0)
<1>0. \A r \in Results : item \in Waiting(r) <=> ResultOf(item) = r
  BY Zenon DEF Waiting
<1>1. \A r \in Results : /\ IsFiniteSet(Waiting(r) \cap downstream)
                         /\ Cardinality(Waiting(r) \cap downstream) \in Nat
  BY Zenon DEF SetFacts, FiniteSubset, FiniteSize, FinitePipe
<1>2. ASSUME downstream' = downstream \cup {item}
      PROVE  /\ FinitePipe'
             /\ \A r \in Results :
                  Piped(r)' <= Piped(r) + (IF ResultOf(item) = r THEN 1 ELSE 0)
  <2>1. FinitePipe'
    BY <1>2, Zenon DEF SetFacts, FiniteAdd, FinitePipe
  <2>2. ASSUME NEW r \in Results
        PROVE  Piped(r)' <= Piped(r) + (IF ResultOf(item) = r THEN 1 ELSE 0)
    <3> DEFINE P == Waiting(r) \cap downstream
    <3>1. Piped(r) = Cardinality(P) /\ Piped(r)' = Cardinality(Waiting(r) \cap downstream')
      BY Zenon DEF Piped, Waiting
    <3>2. Waiting(r) \cap downstream' = IF ResultOf(item) = r THEN P \cup {item} ELSE P
      BY <1>0, <1>2, Zenon
    <3>3. IsFiniteSet(P) /\ Cardinality(P) \in Nat
      BY <1>1, Zenon
    <3> HIDE DEF P
    <3>4. Cardinality(P \cup {item}) <= Cardinality(P) + 1
      <4>1. Cardinality(P \cup {item}) = IF item \in P THEN Cardinality(P) ELSE Cardinality(P) + 1
        BY <3>3, Zenon DEF SetFacts, FiniteAdd
      <4> QED BY <3>3, <4>1
    <3>5. CASE ResultOf(item) = r
      <4>1. Waiting(r) \cap downstream' = P \cup {item}
        BY <3>2, <3>5, Zenon
      <4>2. Piped(r)' = Cardinality(P \cup {item})
        BY <3>1, <4>1, Zenon
      <4> QED BY <3>1, <3>3, <3>4, <3>5, <4>2, Zenon
    <3>6. CASE ResultOf(item) # r
      <4>1. Waiting(r) \cap downstream' = P
        BY <3>2, <3>6, Zenon
      <4>2. Piped(r)' = Cardinality(P)
        BY <3>1, <4>1, Zenon
      <4> QED BY <3>1, <3>3, <3>6, <4>2
    <3> QED BY <3>5, <3>6, Zenon
  <2> QED BY <2>1, <2>2, Zenon
<1>3. ASSUME downstream' = downstream \ {item}, item \in downstream
      PROVE  /\ FinitePipe'
             /\ \A r \in Results :
                  Piped(r) = Piped(r)' + (IF ResultOf(item) = r THEN 1 ELSE 0)
  <2>1. FinitePipe'
    BY <1>3, Zenon DEF SetFacts, FiniteRemove, FinitePipe
  <2>2. ASSUME NEW r \in Results
        PROVE  Piped(r) = Piped(r)' + (IF ResultOf(item) = r THEN 1 ELSE 0)
    <3> DEFINE P == Waiting(r) \cap downstream
    <3>1. Piped(r) = Cardinality(P) /\ Piped(r)' = Cardinality(Waiting(r) \cap downstream')
      BY Zenon DEF Piped, Waiting
    <3>2. Waiting(r) \cap downstream' = P \ {item}
      BY <1>3, Zenon
    <3>3. IsFiniteSet(P) /\ Cardinality(P) \in Nat
      BY <1>1, Zenon
    <3>4. item \in P <=> ResultOf(item) = r
      BY <1>0, <1>3, Zenon
    <3> HIDE DEF P
    <3>5. Cardinality(P \ {item}) = IF item \in P THEN Cardinality(P) - 1 ELSE Cardinality(P)
      BY <3>3, Zenon DEF SetFacts, FiniteRemove
    <3>6. Piped(r)' = Cardinality(P \ {item})
      BY <3>1, <3>2, Zenon
    <3> QED BY <3>1, <3>3, <3>4, <3>5, <3>6
  <2> QED BY <2>1, <2>2, Zenon
<1> QED BY <1>2, <1>3, Zenon

\* A batch that is published is counted in the pipeline and not in the queue.
LEMMA DrainCounts ==
  ASSUME SetFacts, IInv, IInv', CountInv, Drain
  PROVE  CountInv'
<1> DEFINE item == Head(pending_txns)
<1>1. /\ pending_txns # <<>> /\ pending_txns' = Tail(pending_txns)
      /\ downstream' = downstream \cup {item}
      /\ UNCHANGED <<scheduler_gen, ring, msg, tx, sent, delivered>>
  BY Zenon DEF Drain, net, link, peer
<1>2. pending_txns \in Seq(Items)
  BY Zenon DEF IInv, TypeOK
<1>3. item \in Items
  BY <1>1, <1>2
<1> HIDE DEF item
<1>4. Sizes /\ FinitePipe /\ CurrentInv'
      /\ \A r \in Results : InTx(r)' = InTx(r) /\ InRing(r)' = InRing(r) /\ Staged(r)' = Staged(r)
  BY <1>1, SizesNat, SameCounts, Zenon DEF CountInv
<1>5. /\ FinitePipe'
      /\ \A r \in Results : Piped(r)' <= Piped(r) + (IF ResultOf(item) = r THEN 1 ELSE 0)
  BY <1>1, <1>3, <1>4, PipedCounts, Zenon
<1>6. Sizes'
  BY <1>5, SizesNext, Zenon
<1>7. ASSUME NEW r \in Results
      PROVE  delivered'[r] + InTx(r)' + InRing(r)' + Staged(r)' + Pending(r)' + Piped(r)'
               <= sent'[r]
  <2>1. Count(Waiting(r), pending_txns) =
          Count(Waiting(r), Tail(pending_txns)) + (IF item \in Waiting(r) THEN 1 ELSE 0)
    BY <1>1, <1>2, CountTail, Zenon DEF item
  <2>2. item \in Waiting(r) <=> ResultOf(item) = r
    BY <1>3, Zenon DEF Waiting
  <2>3. Pending(r) = Pending(r)' + (IF ResultOf(item) = r THEN 1 ELSE 0)
    BY <1>1, <2>1, <2>2, Zenon DEF Pending, Waiting
  <2>4. Piped(r)' <= Piped(r) + (IF ResultOf(item) = r THEN 1 ELSE 0)
    BY <1>5, Zenon
  <2>5. delivered[r] + InTx(r) + InRing(r) + Staged(r) + Pending(r) + Piped(r) <= sent[r]
    BY Zenon DEF CountInv
  <2>6. delivered'[r] = delivered[r] /\ sent'[r] = sent[r]
        /\ InTx(r)' = InTx(r) /\ InRing(r)' = InRing(r) /\ Staged(r)' = Staged(r)
    BY <1>1, <1>4, Zenon
  <2>n. /\ delivered[r] \in Nat /\ sent[r] \in Nat /\ InTx(r) \in Nat /\ InRing(r) \in Nat
        /\ Staged(r) \in Nat /\ Pending(r) \in Nat /\ Piped(r) \in Nat
        /\ Pending(r)' \in Nat /\ Piped(r)' \in Nat
    BY <1>4, <1>6, Zenon DEF Sizes
  <2>7. Pending(r)' + Piped(r)' <= Pending(r) + Piped(r)
    BY ONLY <2>3, <2>4, <2>n
  <2>8. delivered[r] + InTx(r) + InRing(r) + Staged(r) + Pending(r)' + Piped(r)' <= sent[r]
    BY ONLY <2>5, <2>7, <2>n
  <2> QED BY <2>6, <2>8, Zenon
<1> QED BY <1>4, <1>5, <1>7, Zenon DEF CountInv

\* A batch that leaves the pipeline has at most one result.
LEMMA FeedbackCounts ==
  ASSUME SetFacts, IInv, IInv', CountInv, NEW item \in downstream,
         Feedback(item) \/ PackRetires(item)
  PROVE  CountInv'
<1>1. /\ downstream' = downstream \ {item}
      /\ UNCHANGED <<scheduler_gen, msg, tx, sent, delivered, pending_txns>>
      /\ UNCHANGED ring \/ EnqueueResult(ResultOf(item))
  BY Zenon DEF Feedback, PackRetires, net, link, peer
<1>2. item \in Items /\ ResultOf(item) \in Results
  <2>1. item \in Items
    BY Zenon DEF IInv, TypeOK
  <2> QED BY <2>1, Zenon DEF Items, Results, ResultOf
<1>3. Sizes /\ FinitePipe
      /\ \A r \in Results : InTx(r)' = InTx(r) /\ Pending(r)' = Pending(r) /\ Staged(r)' = Staged(r)
  BY <1>1, SizesNat, SameCounts, Zenon DEF CountInv
<1>4. /\ FinitePipe'
      /\ \A r \in Results : Piped(r) = Piped(r)' + (IF ResultOf(item) = r THEN 1 ELSE 0)
  BY <1>1, <1>2, <1>3, PipedCounts, Zenon
<1>5. Sizes'
  BY <1>4, SizesNext, Zenon
<1>6. /\ CurrentInv'
      /\ \A r \in Results : InRing(r)' <= InRing(r) + (IF r = ResultOf(item) THEN 1 ELSE 0)
  <2>1. CASE UNCHANGED ring
    <3>1. CurrentInv' /\ \A r \in Results : InRing(r)' = InRing(r)
      BY <1>1, <2>1, SameCounts, Zenon DEF CountInv
    <3> QED BY <1>3, <3>1 DEF Sizes
  <2>2. CASE EnqueueResult(ResultOf(item))
    BY <1>1, <1>2, <2>2, EnqueueCounts, Zenon DEF CountInv, CurrentInv
  <2> QED BY <1>1, <2>1, <2>2, Zenon
<1>7. ASSUME NEW r \in Results
      PROVE  delivered'[r] + InTx(r)' + InRing(r)' + Staged(r)' + Pending(r)' + Piped(r)'
               <= sent'[r]
  <2>1. /\ Piped(r) = Piped(r)' + (IF ResultOf(item) = r THEN 1 ELSE 0)
        /\ InRing(r)' <= InRing(r) + (IF ResultOf(item) = r THEN 1 ELSE 0)
    BY <1>4, <1>6, Zenon
  <2>2. delivered[r] + InTx(r) + InRing(r) + Staged(r) + Pending(r) + Piped(r) <= sent[r]
    BY Zenon DEF CountInv
  <2>3. delivered'[r] = delivered[r] /\ sent'[r] = sent[r]
        /\ InTx(r)' = InTx(r) /\ Pending(r)' = Pending(r) /\ Staged(r)' = Staged(r)
    BY <1>1, <1>3, Zenon
  <2>n. /\ delivered[r] \in Nat /\ sent[r] \in Nat /\ InTx(r) \in Nat /\ InRing(r) \in Nat
        /\ Staged(r) \in Nat /\ Pending(r) \in Nat /\ Piped(r) \in Nat
        /\ InTx(r)' \in Nat /\ InRing(r)' \in Nat /\ Piped(r)' \in Nat
    BY <1>3, <1>5, Zenon DEF Sizes
  <2>4. InRing(r)' + Piped(r)' <= InRing(r) + Piped(r)
    BY ONLY <2>1, <2>n
  <2>5. delivered[r] + InTx(r) + InRing(r)' + Staged(r) + Pending(r) + Piped(r)' <= sent[r]
    BY ONLY <2>2, <2>4, <2>n
  <2> QED BY <2>3, <2>5, Zenon
<1> QED BY <1>4, <1>6, <1>7, Zenon DEF CountInv

\* A result that arrives counts for the scheduler it was meant for.
LEMMA DeliverCounts ==
  ASSUME SetFacts, IInv, IInv', CountInv, Deliver
  PROVE  CountInv'
<1> DEFINE k == Head(tx)
<1>1. /\ tx # <<>> /\ tx' = Tail(tx)
      /\ delivered' = [delivered EXCEPT ![[batch |-> k.batch, gen |-> scheduler_gen]] = @ + 1]
      /\ UNCHANGED <<scheduler_gen, ring, msg, sent, pending_txns, downstream>>
  BY Zenon DEF Deliver, work
<1>2. tx \in Seq(Results)
  BY Zenon DEF IInv, TypeOK
<1>3. k \in Results /\ k.gen = scheduler_gen
  <2>1. Len(tx) >= 1 /\ k = tx[1] /\ k \in Results
    BY <1>1, <1>2
  <2>2. 1 \in 1..Len(tx)
    BY <1>2, <2>1
  <2> QED BY <2>1, <2>2, Zenon DEF CountInv, CurrentInv
<1>4. [batch |-> k.batch, gen |-> scheduler_gen] = k
  BY <1>3, Zenon DEF Results
<1>5. CurrentInv'
  <2>1. \A i \in 1..Len(Tail(tx)) : i + 1 \in 1..Len(tx) /\ Tail(tx)[i] = tx[i + 1]
    BY <1>1, <1>2
  <2>2. \A i : Entry(i)' = Entry(i)
    BY <1>1, SameEntries, Zenon DEF ring
  <2> QED BY <1>1, <2>1, <2>2, Zenon DEF CountInv, CurrentInv, ring
<1> HIDE DEF k
<1>6. Sizes /\ FinitePipe /\ FinitePipe'
      /\ \A r \in Results : /\ InRing(r)' = InRing(r) /\ Pending(r)' = Pending(r)
                            /\ Staged(r)' = Staged(r) /\ Piped(r)' = Piped(r)
  BY <1>1, SizesNat, SameCounts, Zenon DEF CountInv
<1>7. Sizes'
  BY <1>6, SizesNext, Zenon
<1>8. ASSUME NEW r \in Results
      PROVE  delivered'[r] + InTx(r)' + InRing(r)' + Staged(r)' + Pending(r)' + Piped(r)'
               <= sent'[r]
  <2>1. Count({r}, tx) = Count({r}, Tail(tx)) + (IF k \in {r} THEN 1 ELSE 0)
    BY <1>1, <1>2, CountTail, Zenon DEF k
  <2>2. InTx(r) = InTx(r)' + (IF k = r THEN 1 ELSE 0)
    BY <1>1, <2>1, Zenon DEF InTx
  <2>3. delivered'[r] = IF k = r THEN delivered[r] + 1 ELSE delivered[r]
    <3>1. delivered \in [Results -> Nat]
      BY Zenon DEF IInv, TypeOK
    <3> QED BY <1>1, <1>3, <1>4, <3>1, Zenon
  <2>4. delivered[r] + InTx(r) + InRing(r) + Staged(r) + Pending(r) + Piped(r) <= sent[r]
    BY Zenon DEF CountInv
  <2>5. sent'[r] = sent[r] /\ InRing(r)' = InRing(r) /\ Pending(r)' = Pending(r)
        /\ Staged(r)' = Staged(r) /\ Piped(r)' = Piped(r)
    BY <1>1, <1>6, Zenon
  <2>n. /\ delivered[r] \in Nat /\ sent[r] \in Nat /\ InTx(r) \in Nat /\ InRing(r) \in Nat
        /\ Staged(r) \in Nat /\ Pending(r) \in Nat /\ Piped(r) \in Nat
        /\ InTx(r)' \in Nat /\ delivered'[r] \in Nat
    BY <1>6, <1>7, Zenon DEF Sizes
  <2>6. delivered'[r] + InTx(r)' <= delivered[r] + InTx(r)
    BY ONLY <2>2, <2>3, <2>n
  <2>7. delivered'[r] + InTx(r)' + InRing(r) + Staged(r) + Pending(r) + Piped(r) <= sent[r]
    BY ONLY <2>4, <2>6, <2>n
  <2> QED BY <2>5, <2>7, Zenon
<1> QED BY <1>5, <1>6, <1>8, Zenon DEF CountInv

\* Initially nothing is sent and nothing counted.
LEMMA InitCounts == SetFacts /\ Init => CountInv
<1> SUFFICES ASSUME SetFacts, Init PROVE CountInv
  OBVIOUS
<1>1. CurrentInv /\ FinitePipe
  BY DEF SetFacts, FiniteEmpty, Init, CurrentInv, FinitePipe
<1>2. Queue(depth) = <<>> /\ msg.staged = <<>>
  BY DEF Init, Queue, NoMessage
<1>3. ASSUME NEW r \in Results
      PROVE  delivered[r] + InTx(r) + InRing(r) + Staged(r) + Pending(r) + Piped(r) <= sent[r]
  <2>1. InTx(r) = 0 /\ InRing(r) = 0 /\ Staged(r) = 0 /\ Pending(r) = 0
    BY <1>2, CountEmpty, Zenon DEF Init, InTx, InRing, Staged, Pending
  <2>2. Piped(r) = 0
    <3>1. Waiting(r) \cap downstream = {}
      BY Zenon DEF Init
    <3> QED BY <3>1, Zenon DEF SetFacts, FiniteEmpty, Piped
  <2>3. delivered[r] = 0 /\ sent[r] = 0
    BY Zenon DEF Init
  <2> QED BY <2>1, <2>2, <2>3
<1> QED BY <1>1, <1>3, Zenon DEF CountInv

\* Every step keeps the counts.
LEMMA NextCounts == SetFacts /\ IInv /\ IInv' /\ CountInv /\ [Next]_vars => CountInv'
<1> SUFFICES ASSUME SetFacts, IInv, IInv', CountInv, [Next]_vars PROVE CountInv'
  OBVIOUS
<1>1. doomed \subseteq downstream
  BY Zenon DEF IInv, TypeOK
<1>2. \/ Idle \/ MessageBegin \/ Unhealthy \/ ClientReset \/ UNCHANGED vars
      \/ Rollback \/ NewScheduler \/ CommitBatch \/ FlushResults \/ Drain \/ Deliver
      \/ \E b \in Batches : DecodeBatch(b)
      \/ \E item \in downstream : Feedback(item)
      \/ \E item \in doomed : PackRetires(item)
  BY Repeated, Zenon DEF Next, Idle, Linking
<1>3. CASE Idle \/ MessageBegin \/ Unhealthy \/ ClientReset \/ UNCHANGED vars
  BY <1>3, DroppingCounts, Zenon
<1>4. CASE Rollback \/ NewScheduler
  BY <1>4, RollbackCounts, NewSchedulerCounts, Zenon
<1>5. CASE CommitBatch \/ FlushResults
  BY <1>5, CommitCounts, FlushCounts, Zenon
<1>6. CASE Drain \/ Deliver
  BY <1>6, DrainCounts, DeliverCounts, Zenon
<1>7. CASE \E b \in Batches : DecodeBatch(b)
  BY <1>7, DecodeCounts, Zenon
<1>8. ASSUME NEW item \in downstream, Feedback(item) PROVE CountInv'
  BY <1>8, FeedbackCounts, Zenon
<1>9. ASSUME NEW item \in doomed, PackRetires(item) PROVE CountInv'
  <2>1. item \in downstream
    BY <1>1, Zenon
  <2> QED BY <1>9, <2>1, FeedbackCounts, Zenon
<1> QED BY <1>2, <1>3, <1>4, <1>5, <1>6, <1>7, <1>8, <1>9, Zenon

\* What is counted bounds what the property counts.
LEMMA CountsBound == SetFacts /\ IInv /\ CountInv => OneResultPerDispatch
<1> SUFFICES ASSUME SetFacts, IInv, CountInv, NEW r \in Results
             PROVE  delivered[r] + Occurs(r, tx) + Occurs(r, Queue(depth)) + Unanswered(r)
                      <= sent[r]
  BY Zenon DEF OneResultPerDispatch
<1>1. \A s : {i \in DOMAIN s : s[i] = r} = At({r}, s)
  BY Zenon DEF At
<1>2. Occurs(r, tx) = InTx(r) /\ Occurs(r, Queue(depth)) = InRing(r)
  BY <1>1, Zenon DEF Occurs, InTx, InRing, Count
<1>3. Unanswered(r) = Staged(r) + Pending(r) + Piped(r)
  BY Zenon DEF Unanswered, Staged, Pending, Piped, Count, At, Waiting
<1>4. Sizes
  BY SizesNat, Zenon DEF CountInv
<1> QED BY <1>2, <1>3, <1>4 DEF CountInv, Sizes

INSTANCE FiniteSetTheorems

\* Moving positions by m does not change how many there are.
LEMMA Moved == FiniteMoved
<1> SUFFICES ASSUME NEW P \in SUBSET Nat, IsFiniteSet(P), NEW m \in Nat
             PROVE  /\ IsFiniteSet({i + m : i \in P})
                    /\ Cardinality({i + m : i \in P}) = Cardinality(P)
  BY Zenon DEF FiniteMoved
<1> DEFINE T == {i + m : i \in P}
           f == [i \in P |-> i + m]
<1>1. f \in Injection(P, T)
  BY DEF Injection, IsInjective
<1>2. f \in Surjection(P, T)
  BY DEF Surjection
<1>3. ExistsBijection(P, T)
  BY <1>1, <1>2 DEF ExistsBijection, Bijection
<1> QED BY <1>3, FS_Bijection

(* The facts about finite sets that the counting rests on are theorems. *)
LEMMA SetTheorems == SetFacts
<1>1. FiniteSize
  BY FS_CardinalityType, Zenon DEF FiniteSize
<1>2. FiniteInterval
  BY FS_Interval DEF FiniteInterval
<1>3. FiniteSubset
  BY FS_Subset, Zenon DEF FiniteSubset
<1>4. FiniteUnion
  BY FS_Union, Zenon DEF FiniteUnion
<1>5. FiniteEmpty
  BY FS_EmptySet, Zenon DEF FiniteEmpty
<1>6. FiniteOne
  BY FS_Singleton, Zenon DEF FiniteOne
<1>7. FiniteAdd
  BY FS_AddElement, Zenon DEF FiniteAdd
<1>8. FiniteRemove
  BY FS_RemoveElement, Zenon DEF FiniteRemove
<1> QED BY <1>1, <1>2, <1>3, <1>4, <1>5, <1>6, <1>7, <1>8, Moved, Zenon DEF SetFacts

\* A scheduler never gets, and never has coming, more results for a batch than it
\* sent that batch, whatever is rolled back, reset or handed to a new scheduler.
THEOREM ResultsCounted == Spec => []OneResultPerDispatch
<1>1. IInv /\ CountInv => OneResultPerDispatch
  BY SetTheorems, CountsBound, Zenon
<1>2. Init => CountInv
  BY SetTheorems, InitCounts, Zenon
<1>3. IInv /\ IInv' /\ CountInv /\ [Next]_vars => CountInv'
  BY SetTheorems, NextCounts, Zenon
<1> QED BY <1>1, <1>2, <1>3, InitIInv, NextIInv, PTL DEF Spec
=============================================================================

------------------------- MODULE BamPackWorkProofs -------------------------
(***************************************************************************)
(* Proofs about BamPackWork, for every set of batches and names, every     *)
(* size of the work table and every history of slots and generations.      *)
(*                                                                         *)
(* First what needs no counting: the order in which the members of a batch *)
(* reach pack, the agreement of pack's records with fd_pack's bundles, and *)
(* the slot a batch is executed for.  The pipeline keeps the members of a  *)
(* batch in order, so the assembly in pack is always that of the batch on  *)
(* the link or in hand; a member whose assembly is gone has an old stamp,  *)
(* or belongs to a batch that a Block Engine bundle displaced.             *)
(* Every bundle that fd_pack drops by itself has its record retired in the *)
(* same step, except for an expiry, which waits for the check at the top   *)
(* of after_frag.                                                          *)
(*                                                                         *)
(* Then what is counted.  That the queue of results never fills is a       *)
(* matter of pace: a fragment adds at most one to the results there are or *)
(* may still be, and after_credit takes one away unless there is none.     *)
(* The pace in turn needs the order of the members on the link: a batch    *)
(* starts only when no other is in assembly.  With no result dropped, a    *)
(* batch leaves pack's hands exactly when it is answered, scheduled,       *)
(* retired or displaced.                                                   *)
(***************************************************************************)
EXTENDS BamPackWork, TLAPS

(***************************************************************************)
(* Order, records and slots.                                               *)
(***************************************************************************)

\* The part of TypeOK about the links, the assembly and the slots.
Shaped ==
  /\ pc \in {"credit", "sched", "limit", "poll", "lead", "member", "evict", "insert"}
  /\ slot \in Nat /\ own_gen \in Gens /\ pack_gen \in Gens
  /\ line \in Lines \cup {None}
  /\ frag \in Frags \cup {None, Other}
  /\ leader \in Nat /\ min_admission \in Nat /\ observed \in Nat /\ check_slot \in Nat
  /\ current \in Assemblies \cup {None}
  /\ displaced \subseteq Names

\* The part about bundles and records.
Stored ==
  /\ pool \subseteq Items /\ pending \subseteq Items /\ scheduled \subseteq Items
  /\ live \in [Names -> SUBSET Txns]

Typed == Shaped /\ Stored

\* The members of a batch come one after the other, and the assembly, if any, is
\* that of the batch on the link or in hand.
Order ==
  /\ pc \in {"credit", "sched", "limit", "poll", "lead"} => frag = None
  /\ pc = "member" => frag \in Frags
  /\ current # None => current.item.gen = pack_gen
  /\ frag \in {None, Other} /\ current # None =>
       /\ line # None /\ line.item = current.item
       /\ line.next = current.received /\ line.next > 0
  /\ pc = "member" /\ current # None =>
       current.item = frag.item /\ current.received = frag.idx /\ frag.idx > 0
  /\ pc # "member" /\ frag \in Frags =>
       /\ current # None /\ current.item = frag.item /\ current.received = frag.idx
       /\ ~frag.failed
  /\ frag \in Frags /\ ~frag.failed /\ frag.idx + 1 # Len(Members[frag.item.batch]) =>
       line # None /\ line.item = frag.item /\ line.next = frag.idx + 1

\* A member whose assembly is gone has an old stamp or was displaced: an assembly
\* ends before its last member only when a member fails, and nothing follows that
\* one, when its generation is over, or when a Block Engine bundle takes its place.
\* Pending records are of pack's generation.
Stamps ==
  /\ pack_gen <= own_gen
  /\ line # None => line.item.gen <= own_gen
  /\ pc = "member" => frag.item.gen <= pack_gen
  /\ pc = "member" /\ frag.idx > 0 /\ current = None =>
       frag.item.gen < pack_gen \/ frag.item.n \in displaced
  /\ frag \in {None, Other} /\ current = None /\ line # None /\ line.next > 0 =>
       line.item.gen < pack_gen \/ line.item.n \in displaced
  /\ frag \in Frags /\ line # None /\ line.next > 0 =>
       /\ line.item = frag.item /\ ~frag.failed
       /\ frag.idx + 1 # Len(Members[frag.item.batch])
  /\ \A i \in pending : i.gen = pack_gen

\* fd_pack's bundles are the pending records, but for those that have expired
\* and are about to be evicted.
Match ==
  /\ check_slot # 0 => pc = "evict" /\ leader = 0
  /\ pool = {i \in pending : check_slot = 0 \/ ~BlockhashExpired(i.batch, check_slot)}

\* While leader, pending work is still good for the leader slot.
Valid ==
  leader # 0 => \A i \in pending : ~AdmissionInvalid(i.batch, leader, min_admission)

RInv == Typed /\ Order /\ Stamps /\ Match /\ Valid

-----------------------------------------------------------------------------
\* Types.

\* The invariant holds at the start.
LEMMA RInvInit == Init => RInv
<1> SUFFICES ASSUME Init PROVE RInv
  OBVIOUS
<1> USE DEF Init
<1>1. Typed
  <2>1. 1 \in Gens
    BY PackConstants DEF Gens
  <2> QED BY <2>1 DEF Typed, Shaped, Stored
<1>2. Order
  BY PackTokens DEF Order
<1>3. Stamps
  BY PackTokens DEF Stamps
<1>4. Match /\ Valid
  BY DEF Match, Valid
<1> QED BY <1>1, <1>2, <1>3, <1>4 DEF RInv

\* The members of a batch are transactions.
LEMMA BatchMembers ==
  ASSUME NEW b \in Batches
  PROVE  {Members[b][k] : k \in DOMAIN Members[b]} \in SUBSET Txns
<1>1. Members[b] \in Seq(Txns)
  BY PackConstants
<1>2. \A k \in DOMAIN Members[b] : Members[b][k] \in Txns
  BY <1>1
<1> QED BY <1>2

\* An assembly whose fields change is an assembly of the same item.
LEMMA AssemblyOpen ==
  ASSUME NEW c \in Assemblies, NEW o \in BOOLEAN
  PROVE  /\ [c EXCEPT !.open = o] \in Assemblies
         /\ [c EXCEPT !.open = o].item = c.item
         /\ [c EXCEPT !.open = o].received = c.received
  BY DEF Assemblies

\* The same of the expiry.
LEMMA AssemblyExpired ==
  ASSUME NEW c \in Assemblies, NEW e \in BOOLEAN
  PROVE  /\ [c EXCEPT !.expired = e] \in Assemblies
         /\ [c EXCEPT !.expired = e].item = c.item
         /\ [c EXCEPT !.expired = e].received = c.received
  BY DEF Assemblies

\* The same of the count.
LEMMA AssemblyReceived ==
  ASSUME NEW c \in Assemblies, NEW r \in Nat
  PROVE  /\ [c EXCEPT !.received = r] \in Assemblies
         /\ [c EXCEPT !.received = r].item = c.item
         /\ [c EXCEPT !.received = r].received = r
  BY DEF Assemblies

\* Ending a leader slot keeps the types, and of the assembly what Order needs.
LEMMA FinishTyped ==
  ASSUME Typed, FinishLeaderSlot
  PROVE  /\ leader' \in Nat /\ min_admission' \in Nat
         /\ current' \in Assemblies \cup {None}
         /\ current' = None <=> current = None
         /\ current # None => current'.item = current.item /\ current'.received = current.received
<1>1. leader' \in Nat /\ min_admission' \in Nat
  BY DEF Typed, Shaped, Stored, FinishLeaderSlot, Larger
<1>2. CASE current = None
  BY <1>1, <1>2 DEF FinishLeaderSlot
<1>3. CASE current # None
  <2>1. current \in Assemblies /\ FALSE \in BOOLEAN
    BY <1>3 DEF Typed, Shaped, Stored
  <2>2. current' = [current EXCEPT !.open = FALSE]
    BY <1>3 DEF FinishLeaderSlot
  <2> QED BY <1>1, <1>3, <2>1, <2>2, AssemblyOpen, PackTokens, Zenon
<1> QED BY <1>2, <1>3

\* An observed slot is a slot.
LEMMA ObserveTyped ==
  ASSUME Typed, NEW sig \in Nat, Observe(sig)
  PROVE  observed' \in Nat /\ check_slot' \in Nat /\ pool' \subseteq pool
  BY Zenon DEF Typed, Shaped, Stored, Observe, Unexpired

\* Every step keeps the links, the assembly and the slots typed.
LEMMA ShapedNext ==
  ASSUME Typed, Order, [Next]_vars
  PROVE  Shaped'
<1> USE DEF Shaped
<1>t. Shaped
  BY DEF Typed
<1>h. \A b \in Batches : Hash[b] \in Nat
  BY PackConstants
<1>1. CASE Tick
  BY <1>1, <1>t DEF Tick, slots, work
<1>2. ASSUME NEW b \in Batches, NEW n \in Names, Dispatch(b, n) PROVE Shaped'
  BY <1>2, <1>t DEF Dispatch, outside, slots, work, Lines, Items
<1>3. CASE BeginGeneration
  BY <1>3, <1>t, PackConstants DEF BeginGeneration, slots, work, Gens
<1>4. CASE AfterCredit
  BY <1>4, <1>t DEF AfterCredit, Sync, outside, slots, work
<1>5. CASE SlotEnds
  BY <1>5, <1>t, FinishTyped DEF SlotEnds, outside
<1>6. CASE GoOn
  BY <1>6, <1>t DEF GoOn, outside, slots, work
<1>7. CASE InsertInitializer
  BY <1>7, <1>t DEF InsertInitializer, outside, slots
<1>8. ASSUME NEW i \in pool, Schedule(i) PROVE Shaped'
  BY <1>8, <1>t DEF Schedule, outside, slots
<1>9. CASE NoFrag
  BY <1>9, <1>t DEF NoFrag, outside, slots, work
<1>10. CASE Reset
  BY <1>10, <1>t, FinishTyped DEF Reset, outside
<1>11. CASE BecameLeader
  BY <1>11, <1>t, FinishTyped DEF BecameLeader, outside, work
<1>12. CASE Lead
  BY <1>12, <1>t DEF Lead, outside
<1>13. ASSUME NEW t \in Txns, Replayed(t) PROVE Shaped'
  BY <1>13, <1>t DEF Replayed, outside, slots
<1>14. ASSUME NEW t \in Txns, NEW landed \in BOOLEAN, Executed(t, landed) PROVE Shaped'
  BY <1>14, <1>t DEF Executed, outside, slots
<1>15. ASSUME NEW failed \in BOOLEAN, ReceiveMember(failed) PROVE Shaped'
  <2>1. line \in Lines
    BY <1>15, <1>t DEF ReceiveMember
  <2>2. [line EXCEPT !.next = @ + 1] \in Lines
    BY <2>1 DEF Lines
  <2>3. line' \in Lines \cup {None}
    BY <1>15, <2>2 DEF ReceiveMember
  <2>4. line.item \in Items /\ line.next \in Nat
    BY <2>1 DEF Lines
  <2>5. (Hash[line.item.batch] + RESOLV_LIFETIME < slot) \in BOOLEAN
    OBVIOUS
  <2>6. frag' \in Frags
    BY <1>15, <2>4, <2>5 DEF ReceiveMember, Frags
  <2>7. pack_gen' \in Gens /\ current' \in Assemblies \cup {None}
    BY <1>15, <1>t DEF ReceiveMember, Sync, work
  <2> QED BY <1>15, <1>t, <2>3, <2>6, <2>7 DEF ReceiveMember, outside, slots
<1>16. ASSUME NEW sig \in 0..slot, ReceiveOther(sig) PROVE Shaped'
  BY <1>16, <1>t, ObserveTyped DEF ReceiveOther, outside
<1>27. ASSUME NEW sig \in 0..slot, ReceiveBundle(sig) PROVE Shaped'
  <2>1. NamesOf(Assembling) \subseteq Names
    BY <1>t DEF NamesOf, Assembling, Assemblies, Items
  <2> QED BY <1>27, <1>t, <2>1, ObserveTyped DEF ReceiveBundle
<1>17. CASE StaleMember
  BY <1>17, <1>t DEF StaleMember, outside, slots, work
<1>18. CASE FailedMember
  BY <1>18, <1>t DEF FailedMember, outside, slots
<1>19. CASE FirstMember
  <2>1. frag \in Frags
    BY <1>19 DEF FirstMember, Order
  <2>2. frag.item \in Items /\ frag.item.batch \in Batches /\ frag.expired \in BOOLEAN
    BY <2>1 DEF Frags, Items
  <2>3. current' \in Assemblies
    BY <1>19, <2>2 DEF FirstMember, Assemblies
  <2> QED BY <1>19, <1>t, <1>h, <2>2, <2>3, ObserveTyped DEF FirstMember, outside
<1>20. CASE NextMember
  <2>1. frag \in Frags
    BY <1>20 DEF NextMember, Order
  <2>2. frag.item.batch \in Batches /\ frag.expired \in BOOLEAN
    BY <2>1 DEF Frags, Items
  <2>3. current # None => (current.expired \/ frag.expired) \in BOOLEAN
    OBVIOUS
  <2>4. current' \in Assemblies \cup {None} /\ frag' \in Frags \cup {None, Other}
    BY <1>20, <1>t, <2>3, AssemblyExpired, Zenon DEF NextMember
  <2> QED BY <1>20, <1>t, <1>h, <2>2, <2>4, ObserveTyped DEF NextMember, outside
<1>21. CASE CheckPending
  BY <1>21, <1>t DEF CheckPending, outside
<1>22. CASE InsertOther
  BY <1>22, <1>t DEF InsertOther, outside, slots
<1>23. CASE CountMember
  <2>1. current \in Assemblies
    BY <1>23, <1>t DEF CountMember, Order
  <2>2. current.received + 1 \in Nat
    BY <2>1 DEF Assemblies
  <2>3. current' \in Assemblies
    BY <1>23, <2>1, <2>2, AssemblyReceived DEF CountMember
  <2> QED BY <1>23, <1>t, <2>3 DEF CountMember, outside, slots
<1>24. CASE Reject
  BY <1>24, <1>t DEF Reject, outside, slots
<1>25. ASSUME NEW evicted \in SUBSET pool, NEW taken \in BOOLEAN, Admit(evicted, taken)
       PROVE  Shaped'
  BY <1>25, <1>t DEF Admit, outside, slots
<1>26. CASE UNCHANGED vars
  BY <1>26, <1>t DEF vars, outside, slots, work
<1> QED BY <1>1, <1>2, <1>3, <1>4, <1>5, <1>6, <1>7, <1>8, <1>9, <1>10, <1>11, <1>12, <1>13,
           <1>14, <1>15, <1>16, <1>17, <1>18, <1>19, <1>20, <1>21, <1>22, <1>23, <1>24,
           <1>25, <1>26, <1>27 DEF Next

-----------------------------------------------------------------------------
\* The order of the members.

\* A member in hand is the only one of its assembly.
LEMMA MemberInHand ==
  ASSUME Typed, Order, pc = "insert", frag \notin {None, Other}
  PROVE  /\ frag \in Frags /\ current \in Assemblies /\ current.item = frag.item
         /\ current.item \in Items /\ current.received \in Nat
         /\ Assembling = {current.item}
<1>1. frag \in Frags /\ current # None /\ current.item = frag.item
  BY DEF Typed, Shaped, Stored, Order
<1>2. current \in Assemblies /\ current.item \in Items /\ current.received \in Nat
  BY <1>1 DEF Typed, Shaped, Stored, Assemblies
<1> QED BY <1>1, <1>2 DEF Assembling

\* A step that leaves the links and the assembly's identity and count alone.
LEMMA SameOrder ==
  ASSUME Typed, Order, UNCHANGED <<line, pack_gen>>,
         pc' = pc \/ (pc # "member" /\ pc' # "member"),
         current' = None <=> current = None,
         current # None => current'.item = current.item /\ current'.received = current.received,
         frag' = frag \/ (frag \in {None, Other} /\ frag' \in {None, Other}),
         pc' \in {"credit", "sched", "limit", "poll", "lead"} => frag' = None
  PROVE  Order'
<1>1. frag' \in Frags => frag' = frag
  BY PackTokens
<1>2. frag' \in {None, Other} => frag \in {None, Other}
  OBVIOUS
<1>3. pc' = "member" => pc = "member" /\ frag' = frag
  BY PackTokens DEF Order
<1> QED BY <1>1, <1>2, <1>3 DEF Order

\* Taking over a new generation leaves no assembly of another one.
LEMMA SyncOrder ==
  ASSUME Typed, Order, Sync
  PROVE  /\ current' # None => current' = current /\ current.item.gen = pack_gen'
         /\ pack_gen' = own_gen
  BY DEF Sync, Order, StaleAssembly, work

\* Every step keeps the order.
LEMMA OrderNext ==
  ASSUME Typed, Order, [Next]_vars
  PROVE  Order'
<1>1. CASE Tick
  BY <1>1, SameOrder DEF Tick, work, Order
<1>2. ASSUME NEW b \in Batches, NEW n \in Names, Dispatch(b, n) PROVE Order'
  <2>1. /\ line = None /\ UNCHANGED <<pc, frag, pack_gen, current>>
    BY <1>2 DEF Dispatch, work
  <2>2. frag \in {None, Other} => current = None
    BY <2>1 DEF Order
  <2> QED BY <2>1, <2>2 DEF Order
<1>3. CASE BeginGeneration
  BY <1>3, SameOrder DEF BeginGeneration, work, Order
<1>4. CASE AfterCredit
  <2>1. /\ pc = "credit" /\ Sync /\ pc' = "sched" /\ UNCHANGED <<line, frag>> /\ frag = None
    BY <1>4 DEF AfterCredit, Order
  <2>2. frag \notin Frags
    BY <2>1, PackTokens
  <2> QED BY <2>1, <2>2, SyncOrder DEF Order
<1>5. CASE SlotEnds
  BY <1>5, FinishTyped, SameOrder DEF SlotEnds, Order
<1>6. CASE GoOn
  BY <1>6, SameOrder DEF GoOn, work, Order
<1>7. CASE InsertInitializer
  BY <1>7, SameOrder DEF InsertInitializer, Order
<1>8. ASSUME NEW i \in pool, Schedule(i) PROVE Order'
  BY <1>8, SameOrder DEF Schedule, Order
<1>9. CASE NoFrag
  BY <1>9, SameOrder DEF NoFrag, work, Order
<1>10. CASE Reset
  BY <1>10, FinishTyped, SameOrder, Zenon DEF Reset, Order
<1>11. CASE BecameLeader
  BY <1>11, FinishTyped, SameOrder, Zenon DEF BecameLeader, work, Order
<1>12. CASE Lead
  BY <1>12, SameOrder, Zenon DEF Lead, Order
<1>13. ASSUME NEW t \in Txns, Replayed(t) PROVE Order'
  BY <1>13, SameOrder, Zenon DEF Replayed, Order
<1>14. ASSUME NEW t \in Txns, NEW landed \in BOOLEAN, Executed(t, landed) PROVE Order'
  BY <1>14, SameOrder DEF Executed, Order
<1>15. ASSUME NEW failed \in BOOLEAN, ReceiveMember(failed) PROVE Order'
  <2>1. /\ pc = "poll" /\ line # None /\ Sync /\ pc' = "member" /\ frag = None
        /\ frag' = [item |-> line.item, idx |-> line.next, failed |-> failed,
                    expired |-> Hash[line.item.batch] + RESOLV_LIFETIME < slot]
        /\ line' = IF failed \/ line.next + 1 = Len(Members[line.item.batch])
                   THEN None ELSE [line EXCEPT !.next = @ + 1]
    BY <1>15 DEF ReceiveMember, Order
  <2>2. line \in Lines /\ line.item \in Items /\ line.next \in Nat
    BY <2>1 DEF Typed, Shaped, Stored, Lines
  <2>3. /\ frag' \in Frags /\ frag'.item = line.item /\ frag'.idx = line.next
        /\ frag'.failed = failed
    BY <2>1, <2>2 DEF Frags
  <2>4. frag' \notin {None, Other}
    BY <2>3, PackTokens
  <2>5. ~failed /\ line.next + 1 # Len(Members[line.item.batch]) =>
          line' # None /\ line'.item = line.item /\ line'.next = line.next + 1
    BY <2>1, <2>2, PackTokens DEF Lines
  <2>6. current' # None => /\ current'.item.gen = pack_gen'
                           /\ current'.item = line.item /\ current'.received = line.next
                           /\ line.next > 0
    BY <2>1, SyncOrder DEF Order
  <2> QED BY <2>1, <2>3, <2>4, <2>5, <2>6 DEF Order
<1>16. ASSUME NEW sig \in 0..slot, ReceiveOther(sig) PROVE Order'
  BY <1>16, SameOrder DEF ReceiveOther, Order
<1>27. ASSUME NEW sig \in 0..slot, ReceiveBundle(sig) PROVE Order'
  BY <1>27, PackTokens DEF ReceiveBundle, Order
<1>17. CASE StaleMember
  <2>1. /\ pc = "member" /\ pc' = "evict" /\ frag' = None /\ frag.item.gen # pack_gen
        /\ UNCHANGED <<line, pack_gen, current>>
    BY <1>17 DEF StaleMember, work
  <2>2. current = None
    BY <2>1 DEF Order
  <2> QED BY <2>1, <2>2, PackTokens DEF Order
<1>18. CASE FailedMember
  BY <1>18, PackTokens DEF FailedMember, Order
<1>19. CASE FirstMember
  <2>1. /\ pc = "member" /\ pc' = "evict" /\ frag.item.gen = pack_gen /\ ~frag.failed
        /\ frag.idx = 0 /\ UNCHANGED <<line, frag, pack_gen>> /\ frag \in Frags
        /\ current' = [item |-> frag.item, received |-> 0, open |-> TRUE,
                       expired |-> frag.expired]
    BY <1>19 DEF FirstMember, Order
  <2>2. frag.item \in Items /\ frag.expired \in BOOLEAN
    BY <2>1 DEF Frags
  <2>3. current' \in Assemblies /\ current'.item = frag.item /\ current'.received = 0
    BY <2>1, <2>2 DEF Assemblies
  <2>4. current' # None /\ frag \notin {None, Other}
    BY <2>1, <2>3, PackTokens, Zenon
  <2> QED BY <2>1, <2>3, <2>4, Zenon DEF Order
<1>20. CASE NextMember
  <2>1. /\ pc = "member" /\ pc' = "evict" /\ frag.item.gen = pack_gen /\ ~frag.failed
        /\ frag.idx > 0 /\ UNCHANGED <<line, pack_gen>> /\ frag \in Frags
        /\ frag \notin {None, Other}
    BY <1>20, PackTokens DEF NextMember, Order
  <2>2. CASE current # None
    <3>1. current \in Assemblies /\ current.item = frag.item /\ current.received = frag.idx
      BY <2>1, <2>2 DEF Order, Typed, Shaped, Stored
    <3>2. current' = [current EXCEPT !.expired = current.expired \/ frag.expired]
          /\ frag' = frag
      BY <1>20, <2>2, <3>1 DEF NextMember
    <3>3. (current.expired \/ frag.expired) \in BOOLEAN
      OBVIOUS
    <3>4. current' # None /\ current'.item = frag.item /\ current'.received = frag.idx
      BY <3>1, <3>2, <3>3, AssemblyExpired, PackTokens, Zenon
    <3> QED BY <2>1, <3>2, <3>4 DEF Order
  <2>3. CASE current = None
    <3>1. frag' = None /\ current' = None
      BY <1>20, <2>3, Zenon DEF NextMember
    <3> QED BY <2>1, <3>1, PackTokens DEF Order
  <2> QED BY <2>2, <2>3
<1>21. CASE CheckPending
  BY <1>21, SameOrder DEF CheckPending, Order
<1>22. CASE InsertOther
  BY <1>22, SameOrder DEF InsertOther, Order
<1>23. CASE CountMember
  <2>1. /\ pc = "insert" /\ frag \notin {None, Other} /\ ~Complete /\ pc' = "credit"
        /\ frag' = None /\ UNCHANGED <<line, pack_gen>>
        /\ current' = [current EXCEPT !.received = current.received + 1]
    BY <1>23 DEF CountMember
  <2>2. /\ frag \in Frags /\ current \in Assemblies /\ current.item = frag.item
        /\ current.received \in Nat /\ current.received = frag.idx /\ ~frag.failed
        /\ current # None
    BY <2>1, MemberInHand, PackTokens DEF Order
  <2>3. /\ current' \in Assemblies /\ current'.item = current.item
        /\ current'.received = current.received + 1
    BY <2>1, <2>2, AssemblyReceived
  <2>4. line # None /\ line.item = current.item /\ line.next = current.received + 1
    BY <2>1, <2>2 DEF Order, Complete
  <2>5. current'.item.gen = pack_gen
    BY <2>2, <2>3 DEF Order
  <2> QED BY <2>1, <2>2, <2>3, <2>4, <2>5, PackTokens DEF Order
<1>24. CASE Reject
  BY <1>24, PackTokens, Zenon DEF Reject, Order
<1>25. ASSUME NEW evicted \in SUBSET pool, NEW taken \in BOOLEAN, Admit(evicted, taken)
       PROVE  Order'
  BY <1>25, PackTokens, Zenon DEF Admit, Order
<1>26. CASE UNCHANGED vars
  BY <1>26, SameOrder DEF vars, work, Order
<1> QED BY <1>1, <1>2, <1>3, <1>4, <1>5, <1>6, <1>7, <1>8, <1>9, <1>10, <1>11, <1>12, <1>13,
           <1>14, <1>15, <1>16, <1>17, <1>18, <1>19, <1>20, <1>21, <1>22, <1>23, <1>24,
           <1>25, <1>26, <1>27 DEF Next

-----------------------------------------------------------------------------
\* Records and bundles.

BundleStep == \E sig \in 0..slot : ReceiveBundle(sig)

AdmitStep ==
  \E evicted \in SUBSET pool, taken \in BOOLEAN : Admit(evicted, taken)

\* Only admission adds a record.
LEMMA PendingShrinks ==
  ASSUME [Next]_vars, ~AdmitStep
  PROVE  pending' \subseteq pending
<1> USE DEF work
<1>1. CASE Tick \/ BeginGeneration \/ GoOn \/ NoFrag \/ NextMember \/ CountMember \/ UNCHANGED vars
  BY <1>1 DEF Tick, BeginGeneration, GoOn, NoFrag, NextMember, CountMember, vars
<1>2. CASE \E b \in Batches, n \in Names : Dispatch(b, n)
  BY <1>2 DEF Dispatch
<1>3. CASE AfterCredit \/ \E failed \in BOOLEAN : ReceiveMember(failed)
  BY <1>3 DEF AfterCredit, ReceiveMember, Sync
<1>4. CASE SlotEnds \/ Reset \/ BecameLeader
  BY <1>4 DEF SlotEnds, Reset, BecameLeader, FinishLeaderSlot, EvictInvalidPending
<1>5. CASE InsertInitializer \/ InsertOther
  BY <1>5, Zenon DEF InsertInitializer, InsertOther, Reconcile
<1>6. CASE \E i \in pool : Schedule(i)
  BY <1>6 DEF Schedule
<1>7. CASE Lead \/ CheckPending
  BY <1>7 DEF Lead, CheckPending, EvictInvalidPending
<1>8. CASE \E t \in Txns : Replayed(t)
  BY <1>8 DEF Replayed, Landed
<1>9. CASE \E t \in Txns, landed \in BOOLEAN : Executed(t, landed)
  BY <1>9 DEF Executed, Landed
<1>10. CASE BundleStep \/ \E sig \in 0..slot : ReceiveOther(sig)
  BY <1>10 DEF BundleStep, ReceiveBundle, ReceiveOther
<1>11. CASE StaleMember \/ FailedMember \/ FirstMember \/ Reject
  BY <1>11 DEF StaleMember, FailedMember, FirstMember, Reject
<1> QED BY <1>1, <1>2, <1>3, <1>4, <1>5, <1>6, <1>7, <1>8, <1>9, <1>10, <1>11
        DEF Next, AdmitStep, BundleStep

\* What has expired is not good for any slot.
LEMMA ExpiredInvalid ==
  ASSUME NEW b \in Batches, NEW now \in Nat, NEW min, BlockhashExpired(b, now)
  PROVE  AdmissionInvalid(b, now, min)
<1>1. now # 0
  BY PackConstants DEF BlockhashExpired
<1> QED BY <1>1 DEF AdmissionInvalid

\* Records and bundles agree while no slot waits to be checked.
LEMMA Agree ==
  ASSUME Typed, Match
  PROVE  /\ pc # "evict" => check_slot = 0
         /\ check_slot = 0 => pool = pending
  BY DEF Match

\* Observing a slot leaves records of expired bundles, for after_frag to check.
LEMMA ObserveMatch ==
  ASSUME Typed, Match, pc # "evict", pc' = "evict", NEW sig \in Nat, Observe(sig),
         UNCHANGED <<leader, pending>>
  PROVE  Match'
<1>1. check_slot = 0 /\ pool = pending
  BY Agree
<1>2. CASE leader = 0 /\ sig > observed
  <2>1. check_slot' = sig /\ sig # 0
    BY <1>2 DEF Observe, Typed, Shaped, Stored
  <2>2. pool' = {i \in pending : ~BlockhashExpired(i.batch, sig)}
    BY <1>1, <1>2 DEF Observe, Unexpired
  <2> QED BY <1>2, <2>1, <2>2 DEF Match, BlockhashExpired
<1>3. CASE ~(leader = 0 /\ sig > observed)
  BY <1>1, <1>3 DEF Observe, Match
<1> QED BY <1>2, <1>3

\* What admission does to the records, where the batch replaces its earlier
\* dispatches old: every other record that goes gets a result.
Admitted(evicted, old, keep) ==
  LET rest == pending \ (old \cup evicted)
      lost == (pending \cap evicted) \ old
      next == IF keep THEN {current.item} ELSE {}
  IN  /\ \A j \in old : j.batch = current.item.batch
      /\ pending' = rest \cup next
      /\ pool' = (pool \ (old \cup evicted)) \cup next
      /\ EnqueueAnd(lost \cup IF keep THEN {} ELSE {current.item}, old)
      /\ keep => ~NoRoom(rest, lost)

\* It is one of these.
LEMMA AdmitFacts ==
  ASSUME NEW evicted \in SUBSET pool, NEW taken \in BOOLEAN, Admit(evicted, taken)
  PROVE  \E old \in SUBSET pending, keep \in BOOLEAN : Admitted(evicted, old, keep)
<1> DEFINE i    == current.item
           old  == Duplicates(i)
           rest == pending \ (old \cup evicted)
           lost == (pending \cap evicted) \ old
           keep == taken /\ ~NoRoom(rest, lost)
           next == IF keep THEN {i} ELSE {}
<1>1. \A j \in old : j \in pending /\ j.batch = i.batch
  BY Zenon DEF Admit, Replaces
<1>2. /\ pending' = rest \cup next
      /\ pool' = (pool \ (old \cup evicted)) \cup next
      /\ EnqueueAnd(lost \cup IF keep THEN {} ELSE {i}, {j \in old : j.batch = i.batch})
  BY Zenon DEF Admit
<1>3. {j \in old : j.batch = i.batch} = old
  BY <1>1
<1>4. keep \in BOOLEAN /\ (keep => ~NoRoom(rest, lost))
  OBVIOUS
<1> HIDE DEF old, keep
<1>5. Admitted(evicted, old, keep)
  BY <1>1, <1>2, <1>3, <1>4, Zenon DEF Admitted
<1> QED BY <1>1, <1>4, <1>5, Zenon

\* Every step keeps records and bundles together.
LEMMA MatchNext ==
  ASSUME Typed, Order, Match, [Next]_vars
  PROVE  Match'
<1>a. /\ pc # "evict" => check_slot = 0 /\ pool = pending
      /\ check_slot = 0 => pool = pending
  BY Agree
<1>h. \A i \in pending : i.batch \in Batches
  BY DEF Typed, Shaped, Stored, Items
<1>1. ASSUME UNCHANGED <<pc, leader, check_slot, pool, pending>> PROVE Match'
  BY <1>1 DEF Match, BlockhashExpired
<1>2. ASSUME check_slot' = 0, pool' = pending' PROVE Match'
  BY <1>2 DEF Match
<1>3. CASE Tick \/ BeginGeneration \/ UNCHANGED vars
  BY <1>1, <1>3 DEF Tick, BeginGeneration, vars, slots, work
<1>4. CASE \E b \in Batches, n \in Names : Dispatch(b, n)
  BY <1>1, <1>4 DEF Dispatch, slots, work
<1>5. CASE AfterCredit
  BY <1>2, <1>5, <1>a DEF AfterCredit, Sync, slots, work
<1>6. CASE SlotEnds
  BY <1>2, <1>6, <1>a DEF SlotEnds, FinishLeaderSlot, EvictInvalidPending
<1>7. CASE GoOn \/ NoFrag
  BY <1>2, <1>7, <1>a DEF GoOn, NoFrag, slots, work
<1>8. CASE InsertInitializer
  BY <1>2, <1>8, <1>a DEF InsertInitializer, Reconcile, slots
<1>9. ASSUME NEW i \in pool, Schedule(i) PROVE Match'
  BY <1>2, <1>9, <1>a DEF Schedule, slots
<1>10. CASE Reset
  BY <1>2, <1>10, <1>a DEF Reset, FinishLeaderSlot, EvictInvalidPending
<1>11. CASE BecameLeader
  BY <1>2, <1>11, <1>a, Zenon DEF BecameLeader, FinishLeaderSlot, EvictInvalidPending, work
<1>12. CASE Lead
  <2>1. /\ check_slot' = 0 /\ pool = pending
        /\ pending' = {i \in pending : ~AdmissionInvalid(i.batch, slot, min_admission)}
        /\ pool' = Unexpired(slot) \ {i \in pending : AdmissionInvalid(i.batch, slot, min_admission)}
    BY <1>12, <1>a DEF Lead
  <2>2. \A i \in pending : BlockhashExpired(i.batch, slot)
                            => AdmissionInvalid(i.batch, slot, min_admission)
    BY <1>h, ExpiredInvalid DEF Typed, Shaped, Stored
  <2>3. pool' = pending'
    BY <2>1, <2>2 DEF Unexpired
  <2> QED BY <1>2, <2>1, <2>3
<1>13. ASSUME NEW t, Landed(t), pc = "poll" PROVE pool' = pending'
  <2>1. pool = pending
    BY <1>13, <1>a
  <2> QED BY <1>13, <2>1, Zenon DEF Landed, WithSignature
<1>14. CASE \E t \in Txns : Replayed(t)
  BY <1>2, <1>13, <1>14, <1>a DEF Replayed, slots
<1>15. CASE \E t \in Txns, landed \in BOOLEAN : Executed(t, landed)
  BY <1>2, <1>13, <1>15, <1>a DEF Executed, slots
<1>16. CASE \E failed \in BOOLEAN : ReceiveMember(failed)
  BY <1>2, <1>16, <1>a, Zenon DEF ReceiveMember, Sync, slots, work
<1>17. CASE \E sig \in 0..slot : ReceiveOther(sig)
  BY <1>17, ObserveMatch DEF ReceiveOther, Typed, Shaped, Stored
<1>25. CASE BundleStep
  BY <1>25, ObserveMatch DEF BundleStep, ReceiveBundle, Typed, Shaped, Stored
<1>18. CASE StaleMember
  BY <1>2, <1>18, <1>a DEF StaleMember, slots, work
<1>19. CASE FailedMember
  BY <1>2, <1>19, <1>a DEF FailedMember, slots
<1>20. CASE FirstMember \/ NextMember
  <2>1. frag \in Frags
    BY <1>20 DEF Order, FirstMember, NextMember
  <2>2. Hash[frag.item.batch] \in Nat
    BY <2>1, PackConstants DEF Frags, Items
  <2> QED BY <1>20, <2>2, ObserveMatch DEF FirstMember, NextMember
<1>21. CASE CheckPending
  <2>1. CASE leader = 0 /\ check_slot # 0
    <3>1. /\ check_slot' = 0
          /\ pending' = {i \in pending : ~AdmissionInvalid(i.batch, check_slot, min_admission)}
          /\ pool' = pool \ {i \in pending : AdmissionInvalid(i.batch, check_slot, min_admission)}
      BY <1>21, <2>1 DEF CheckPending, EvictInvalidPending
    <3>2. \A i \in pending : BlockhashExpired(i.batch, check_slot)
                              => AdmissionInvalid(i.batch, check_slot, min_admission)
      BY <1>h, ExpiredInvalid DEF Typed, Shaped, Stored
    <3>3. pool = {i \in pending : ~BlockhashExpired(i.batch, check_slot)}
      BY <2>1 DEF Match
    <3>4. pool' = pending'
      BY <3>1, <3>2, <3>3
    <3> QED BY <1>2, <3>1, <3>4
  <2>2. CASE check_slot = 0
    BY <1>2, <1>21, <2>2, <1>a DEF CheckPending
  <2> QED BY <2>1, <2>2 DEF Match
<1>22. CASE InsertOther
  BY <1>2, <1>22, <1>a DEF InsertOther, Reconcile, slots
<1>23. CASE CountMember \/ Reject
  BY <1>2, <1>23, <1>a DEF CountMember, Reject, slots
<1>24. CASE AdmitStep
  <2>1. PICK evicted \in SUBSET pool, taken \in BOOLEAN : Admit(evicted, taken)
    BY <1>24 DEF AdmitStep
  <2>2. PICK old \in SUBSET pending, keep \in BOOLEAN : Admitted(evicted, old, keep)
    BY <2>1, AdmitFacts, Zenon
  <2>3. check_slot' = 0 /\ pool = pending
    BY <2>1, <1>a DEF Admit, slots
  <2>4. pool' = pending'
    BY <2>2, <2>3 DEF Admitted
  <2> QED BY <1>2, <2>3, <2>4
<1> QED BY <1>3, <1>4, <1>5, <1>6, <1>7, <1>8, <1>9, <1>10, <1>11, <1>12, <1>14, <1>15, <1>16,
           <1>17, <1>18, <1>19, <1>20, <1>21, <1>22, <1>23, <1>24, <1>25
        DEF Next, AdmitStep, BundleStep

\* Every step keeps pending work good for the leader slot.
LEMMA ValidNext ==
  ASSUME Typed, Order, Match, Valid, [Next]_vars
  PROVE  Valid'
<1>1. ASSUME pending' \subseteq pending, UNCHANGED <<leader, min_admission>> PROVE Valid'
  BY <1>1 DEF Valid, AdmissionInvalid, BlockhashExpired
<1>2. ASSUME leader' = 0 PROVE Valid'
  BY <1>2 DEF Valid
<1>3. CASE SlotEnds \/ Reset
  BY <1>2, <1>3 DEF SlotEnds, Reset, FinishLeaderSlot
<1>4. CASE BecameLeader
  BY <1>2, <1>4, Zenon DEF BecameLeader, FinishLeaderSlot
<1>5. CASE Lead
  BY <1>5, Zenon DEF Lead, Valid, AdmissionInvalid, BlockhashExpired
<1>6. CASE AdmitStep
  <2>1. PICK evicted \in SUBSET pool, taken \in BOOLEAN : Admit(evicted, taken)
    BY <1>6 DEF AdmitStep
  <2>2. PICK old \in SUBSET pending, keep \in BOOLEAN : Admitted(evicted, old, keep)
    BY <2>1, AdmitFacts
  <2>3. /\ UNCHANGED <<leader, min_admission>>
        /\ leader # 0 => ~AdmissionInvalid(current.item.batch, leader, min_admission)
    BY <2>1, Zenon DEF Admit, slots, BestKnownSlot
  <2>4. pending' \subseteq pending \cup {current.item}
    BY <2>2 DEF Admitted
  <2> QED BY <2>3, <2>4 DEF Valid, AdmissionInvalid, BlockhashExpired
<1>7. CASE ~AdmitStep /\ UNCHANGED <<leader, min_admission>>
  BY <1>1, <1>7, PendingShrinks, Zenon
<1>8. \/ SlotEnds \/ Reset \/ BecameLeader \/ Lead \/ AdmitStep
      \/ UNCHANGED <<leader, min_admission>>
  BY DEF Next, AdmitStep, vars, slots, Tick, Dispatch, BeginGeneration, AfterCredit, GoOn,
         InsertInitializer, Schedule, NoFrag, Replayed, Executed, ReceiveMember, ReceiveOther,
         ReceiveBundle, StaleMember, FailedMember, FirstMember, NextMember, CheckPending, InsertOther,
         CountMember, Reject
<1> QED BY <1>3, <1>4, <1>5, <1>6, <1>7, <1>8

-----------------------------------------------------------------------------
\* Generations.

\* Generations are numbers.
LEMMA StampTypes ==
  ASSUME Typed
  PROVE  /\ own_gen \in Nat /\ pack_gen \in Nat
         /\ line # None => line \in Lines /\ line.item \in Items /\ line.item.gen \in Nat
                           /\ line.next \in Nat /\ line.item.n \in Names
         /\ frag \in Frags => frag.item \in Items /\ frag.item.gen \in Nat
                              /\ frag.idx \in Nat /\ frag.item.n \in Names
         /\ current # None => current \in Assemblies /\ current.item \in Items
                              /\ current.item.gen \in Nat /\ current.item.n \in Names
<1>1. own_gen \in Nat /\ pack_gen \in Nat
  BY DEF Typed, Shaped, Stored, Gens
<1>2. \A i \in Items : i.gen \in Nat /\ i.n \in Names
  BY DEF Items, Gens
<1>3. line # None => line \in Lines /\ line.item \in Items /\ line.next \in Nat
  BY DEF Typed, Shaped, Stored, Lines
<1>4. frag \in Frags => frag.item \in Items /\ frag.idx \in Nat
  BY DEF Frags
<1>5. current # None => current \in Assemblies /\ current.item \in Items
  BY DEF Typed, Shaped, Stored, Assemblies
<1> QED BY <1>1, <1>2, <1>3, <1>4, <1>5

\* A member in hand belongs to the assembly there is; there is none before the
\* first member, and without one a later member of pack's generation was displaced.
LEMMA MemberAssembly ==
  ASSUME Typed, Order, pc = "member"
  PROVE  /\ Assembling \cup {frag.item} = {frag.item}
         /\ current # None => Assembling = {frag.item}
         /\ frag.idx = 0 => current = None /\ Assembling = {}
         /\ Stamps /\ frag.idx # 0 /\ frag.item.gen = pack_gen /\ current = None =>
              frag.item.n \in displaced
<1>1. frag \in Frags /\ frag.idx \in Nat /\ frag.item.gen \in Nat /\ pack_gen \in Nat
  BY StampTypes DEF Order
<1>2. current # None => current.item = frag.item /\ frag.idx > 0
  BY DEF Order
<1>3. Stamps /\ frag.idx # 0 /\ frag.item.gen = pack_gen /\ current = None =>
        frag.item.n \in displaced
  BY <1>1 DEF Stamps
<1>4. frag.idx = 0 => current = None
  BY <1>1, <1>2
<1>5. Assembling = IF current = None THEN {} ELSE {current.item}
  BY DEF Assembling
<1>6. Assembling \cup {frag.item} = {frag.item}
  BY <1>2, <1>5
<1> QED BY <1>2, <1>3, <1>4, <1>5, <1>6, Zenon

\* A step that leaves the links, the generation and the assembly's item alone.
LEMMA SameStamps ==
  ASSUME Typed, Order, Stamps, UNCHANGED <<line, own_gen, pack_gen, displaced>>,
         pc' = pc \/ (pc # "member" /\ pc' # "member"),
         current' = None <=> current = None,
         frag' = frag \/ (frag \in {None, Other} /\ frag' \in {None, Other}),
         pending' \subseteq pending
  PROVE  Stamps'
<1>1. frag' \in Frags => frag' = frag
  BY PackTokens
<1>2. frag' \in {None, Other} => frag \in {None, Other}
  OBVIOUS
<1>3. pc' = "member" => pc = "member" /\ frag' = frag
  BY PackTokens DEF Order
<1> QED BY <1>1, <1>2, <1>3 DEF Stamps

\* What taking over a new generation does.
LEMMA SyncCases ==
  ASSUME Typed, Order, Stamps, Sync
  PROVE  \/ own_gen = pack_gen /\ UNCHANGED <<pack_gen, current, pool, pending, owed>>
         \/ /\ pack_gen < own_gen /\ pack_gen' = own_gen
            /\ current' = None /\ pending' = {}
            /\ owed' = owed \ NamesOf(pending \cup Assembling)
<1>1. CASE own_gen = pack_gen
  BY <1>1 DEF Sync, work
<1>2. CASE own_gen # pack_gen
  <2>1. /\ pack_gen' = own_gen /\ pending' = {}
        /\ current' = IF StaleAssembly THEN None ELSE current
        /\ owed' = owed \ NamesOf({i \in pending \cup Assembling : i.gen # own_gen})
    BY <1>2 DEF Sync
  <2>2. current' = None
    BY <1>2, <2>1 DEF StaleAssembly, Order
  <2>3. \A i \in pending \cup Assembling : i.gen # own_gen
    BY <1>2 DEF Stamps, Assembling, Order
  <2>4. {i \in pending \cup Assembling : i.gen # own_gen} = pending \cup Assembling
    BY <2>3
  <2>5. pack_gen < own_gen
    BY <1>2, StampTypes, SMTT(60) DEF Stamps
  <2> QED BY <2>1, <2>2, <2>4, <2>5
<1> QED BY <1>1, <1>2

\* Every step keeps the stamps.
LEMMA StampsNext ==
  ASSUME Typed, Order, Stamps, [Next]_vars
  PROVE  Stamps'
<1>t. /\ own_gen \in Nat /\ pack_gen \in Nat
      /\ line # None => line \in Lines /\ line.item \in Items /\ line.item.gen \in Nat
                        /\ line.next \in Nat
      /\ frag \in Frags => frag.item \in Items /\ frag.item.gen \in Nat /\ frag.idx \in Nat
  BY StampTypes
<1>1. CASE Tick \/ GoOn \/ NoFrag \/ UNCHANGED vars
  BY <1>1, SameStamps, Zenon DEF Tick, GoOn, NoFrag, vars, work, outside
<1>2. ASSUME NEW b \in Batches, NEW n \in Names, Dispatch(b, n) PROVE Stamps'
  <2>1. /\ line = None /\ UNCHANGED <<pc, frag, own_gen, pack_gen, current, pending, displaced>>
        /\ line' = [item |-> [n |-> n, batch |-> b, gen |-> own_gen], next |-> 0]
    BY <1>2 DEF Dispatch, work, outside
  <2>2. line'.item.gen = own_gen /\ line'.next = 0
    BY <2>1
  <2>3. ~(line'.next > 0)
    BY <2>2
  <2> QED BY <2>1, <2>2, <2>3, <1>t, SMTT(60) DEF Stamps
<1>3. CASE BeginGeneration
  <2>1. own_gen' = own_gen + 1
        /\ UNCHANGED <<pc, line, frag, pack_gen, current, pending, displaced>>
    BY <1>3 DEF BeginGeneration, work
  <2> QED BY <2>1, <1>t, SMTT(60) DEF Stamps
<1>4. CASE AfterCredit
  <2>1. /\ Sync /\ pc = "credit" /\ pc' = "sched"
        /\ UNCHANGED <<line, frag, own_gen, displaced>> /\ frag = None
    BY <1>4 DEF AfterCredit, outside, Order
  <2>2. CASE own_gen = pack_gen /\ UNCHANGED <<pack_gen, current, pending>>
    BY <2>1, <2>2, SameStamps
  <2>3. CASE /\ pack_gen < own_gen /\ pack_gen' = own_gen
             /\ current' = None /\ pending' = {}
    <3>1. line # None /\ line.next > 0 => line.item.gen < own_gen \/ line.item.n \in displaced
      <4>1. CASE current = None
        BY <2>1, <2>3, <4>1, <1>t, SMTT(60) DEF Stamps
      <4>2. CASE current # None
        BY <2>1, <2>3, <4>2, <1>t DEF Order
      <4> QED BY <4>1, <4>2, Zenon
    <3> QED BY <2>1, <2>3, <3>1, <1>t, PackTokens, SMTT(60) DEF Stamps
  <2> QED BY <2>1, <2>2, <2>3, SyncCases
<1>5. CASE SlotEnds \/ Reset
  <2>1. pending' \subseteq pending
    BY <1>5 DEF SlotEnds, Reset, FinishLeaderSlot, EvictInvalidPending
  <2> QED BY <1>5, <2>1, FinishTyped, SameStamps DEF SlotEnds, Reset, outside
<1>6. CASE BecameLeader
  <2>1. pending' \subseteq pending
    BY <1>6 DEF BecameLeader, FinishLeaderSlot, EvictInvalidPending, work
  <2> QED BY <1>6, <2>1, FinishTyped, SameStamps DEF BecameLeader, outside, work
<1>7. CASE InsertInitializer \/ InsertOther
  BY <1>7, SameStamps, Zenon DEF InsertInitializer, InsertOther, Reconcile, outside
<1>8. CASE \E i \in pool : Schedule(i)
  BY <1>8, SameStamps DEF Schedule, outside
<1>9. CASE Lead \/ CheckPending
  BY <1>9, SameStamps DEF Lead, CheckPending, EvictInvalidPending, outside
<1>10. CASE \E t \in Txns : Replayed(t)
  BY <1>10, SameStamps DEF Replayed, Landed, outside
<1>11. CASE \E t \in Txns, landed \in BOOLEAN : Executed(t, landed)
  BY <1>11, SameStamps DEF Executed, Landed, outside
<1>12. ASSUME NEW failed \in BOOLEAN, ReceiveMember(failed) PROVE Stamps'
  <2>1. /\ pc = "poll" /\ line # None /\ Sync /\ pc' = "member" /\ frag = None
        /\ frag' = [item |-> line.item, idx |-> line.next, failed |-> failed,
                    expired |-> Hash[line.item.batch] + RESOLV_LIFETIME < slot]
        /\ line' = IF failed \/ line.next + 1 = Len(Members[line.item.batch])
                   THEN None ELSE [line EXCEPT !.next = @ + 1]
        /\ UNCHANGED <<own_gen, displaced>>
    BY <1>12 DEF ReceiveMember, Order, outside
  <2>2. /\ frag' \in Frags /\ frag'.item = line.item /\ frag'.idx = line.next
        /\ frag'.failed = failed /\ frag' \notin {None, Other}
    <3>1. /\ frag' \in Frags /\ frag'.item = line.item /\ frag'.idx = line.next
          /\ frag'.failed = failed
      BY <2>1, <1>t DEF Frags
    <3> QED BY <3>1, PackTokens
  <2>3. line' # None =>
          /\ line'.item = line.item /\ ~failed
          /\ line.next + 1 # Len(Members[line.item.batch])
    BY <2>1, <1>t DEF Lines
  <2>4. line.item.gen <= own_gen
    BY <2>1 DEF Stamps
  <2>5. CASE own_gen = pack_gen /\ UNCHANGED <<pack_gen, current, pending>>
    <3>1. line.next > 0 /\ current = None =>
            line.item.gen < pack_gen \/ line.item.n \in displaced
      BY <2>1 DEF Stamps
    <3>2. \A i \in pending' : i.gen = pack_gen'
      BY <2>5 DEF Stamps
    <3> QED BY <2>1, <2>2, <2>3, <2>4, <2>5, <3>1, <3>2, <1>t DEF Stamps
  <2>6. CASE /\ pack_gen < own_gen /\ pack_gen' = own_gen
             /\ current' = None /\ pending' = {}
    <3>1. line.next > 0 => line.item.gen < own_gen \/ line.item.n \in displaced
      <4>1. CASE current = None
        BY <2>1, <2>6, <4>1, <1>t DEF Stamps
      <4>2. CASE current # None
        BY <2>1, <2>6, <4>2, <1>t DEF Order
      <4> QED BY <4>1, <4>2
    <3> QED BY <2>1, <2>2, <2>3, <2>4, <2>6, <3>1, <1>t DEF Stamps
  <2> QED BY <2>1, <2>5, <2>6, SyncCases
<1>13. CASE \E sig \in 0..slot : ReceiveOther(sig)
  BY <1>13, SameStamps DEF ReceiveOther, Order, outside
<1>22. CASE BundleStep
  <2>1. PICK sig \in 0..slot : ReceiveBundle(sig)
    BY <1>22 DEF BundleStep
  <2>2. /\ pc = "poll" /\ pc' = "evict" /\ frag = None /\ frag' = Other /\ current' = None
        /\ UNCHANGED <<line, own_gen, pack_gen, pending>>
        /\ displaced' = displaced \cup NamesOf(Assembling)
    BY <2>1 DEF ReceiveBundle, Order
  <2>3. line # None /\ line.next > 0 => line.item.gen < pack_gen \/ line.item.n \in displaced'
    <3>1. CASE current = None
      BY <2>2, <3>1 DEF Stamps
    <3>2. CASE current # None
      BY <2>2, <3>2 DEF Order, Assembling, NamesOf
    <3> QED BY <3>1, <3>2
  <2> QED BY <2>2, <2>3, PackTokens, Zenon DEF Stamps
<1>m. pc = "member" => frag \in Frags /\ frag \notin {None, Other}
  BY PackTokens DEF Order
<1>14. CASE StaleMember
  <2>1. /\ pc = "member" /\ pc' = "evict" /\ frag' = None /\ frag.item.gen # pack_gen
        /\ UNCHANGED <<line, own_gen, pack_gen, current, pending, displaced>>
    BY <1>14 DEF StaleMember, outside, work
  <2>2. line # None /\ line.next > 0 => line.item.gen < pack_gen
    BY <2>1, <1>m, <1>t, SMTT(60) DEF Stamps
  <2> QED BY <2>1, <2>2, PackTokens DEF Stamps
<1>15. CASE FailedMember
  <2>1. /\ pc = "member" /\ pc' = "evict" /\ frag' = None /\ frag.failed
        /\ UNCHANGED <<line, own_gen, pack_gen, pending, displaced>>
    BY <1>15 DEF FailedMember, outside
  <2>2. ~(line # None /\ line.next > 0)
    BY <2>1, <1>m DEF Stamps
  <2> QED BY <2>1, <2>2, PackTokens DEF Stamps
<1>16. CASE FirstMember
  BY <1>16, <1>m, Zenon DEF FirstMember, Stamps, outside
<1>17. CASE NextMember
  <2>1. /\ pc = "member" /\ pc' = "evict" /\ frag.item.gen = pack_gen /\ frag.idx > 0
        /\ UNCHANGED <<line, own_gen, pack_gen, pending, displaced>>
    BY <1>17 DEF NextMember, outside
  <2>2. CASE current # None
    <3>1. current.item = frag.item /\ current.received = frag.idx
      BY <2>1, <2>2, Zenon DEF Order
    <3>2. frag' = frag
      BY <1>17, <2>2, <3>1, Zenon DEF NextMember
    <3> QED BY <2>1, <3>2, <1>m, Zenon DEF Stamps
  <2>3. CASE current = None
    <3>1. frag' = None /\ current' = None
      BY <1>17, <2>3, Zenon DEF NextMember
    <3>2. line # None /\ line.next > 0 =>
            line.item.gen < pack_gen \/ line.item.n \in displaced
      BY <2>1, <2>3, <1>m, Zenon DEF Stamps
    <3> QED BY <2>1, <3>1, <3>2, PackTokens, Zenon DEF Stamps
  <2> QED BY <2>2, <2>3, Zenon
<1>18. CASE CountMember
  <2>1. /\ pc = "insert" /\ pc' = "credit" /\ frag \notin {None, Other} /\ frag' = None
        /\ current' = [current EXCEPT !.received = current.received + 1]
        /\ UNCHANGED <<line, own_gen, pack_gen, pending, displaced>>
    BY <1>18, Zenon DEF CountMember, outside
  <2>2. current' # None
    BY <2>1, MemberInHand, AssemblyReceived, PackTokens
  <2> QED BY <2>1, <2>2, PackTokens, Zenon DEF Stamps
<1>19. ASSUME pc = "insert", frag \notin {None, Other}, Complete
       PROVE  ~(line # None /\ line.next > 0) /\ current.item.gen = pack_gen
  <2>1. frag \in Frags /\ current.item = frag.item /\ current.received = frag.idx
        /\ current # None
    BY <1>19, MemberInHand, Zenon DEF Order
  <2> QED BY <1>19, <2>1, Zenon DEF Complete, Stamps, Order
<1>20. CASE Reject
  <2>1. /\ pc' = "credit" /\ frag' = None
        /\ UNCHANGED <<line, own_gen, pack_gen, pending, displaced>>
        /\ ~(line # None /\ line.next > 0)
    BY <1>19, <1>20, Zenon DEF Reject, outside
  <2> QED BY <2>1, PackTokens, Zenon DEF Stamps
<1>21. CASE AdmitStep
  <2>1. PICK evicted \in SUBSET pool, taken \in BOOLEAN : Admit(evicted, taken)
    BY <1>21, Zenon DEF AdmitStep
  <2>2. PICK old \in SUBSET pending, keep \in BOOLEAN : Admitted(evicted, old, keep)
    BY <2>1, AdmitFacts, Zenon
  <2>3. pending' \subseteq pending \cup {current.item}
    BY <2>2, Zenon DEF Admitted
  <2>4. /\ pc' = "credit" /\ frag' = None /\ UNCHANGED <<line, own_gen, pack_gen, displaced>>
        /\ ~(line # None /\ line.next > 0) /\ current.item.gen = pack_gen
    BY <2>1, <1>19, Zenon DEF Admit, outside
  <2> QED BY <2>3, <2>4, PackTokens, Zenon DEF Stamps
<1> QED BY <1>1, <1>2, <1>3, <1>4, <1>5, <1>6, <1>7, <1>8, <1>9, <1>10, <1>11, <1>12, <1>13,
           <1>14, <1>15, <1>16, <1>17, <1>18, <1>20, <1>21, <1>22 DEF Next, AdmitStep, BundleStep

-----------------------------------------------------------------------------
\* Scheduled records.

DispatchStep == \E b \in Batches, n \in Names : Dispatch(b, n)
ScheduleStep == \E i \in pool : Schedule(i)
ExecutedStep == \E t \in Txns, landed \in BOOLEAN : Executed(t, landed)

\* Only a dispatch adds to what is owed.
LEMMA OwedShrinks ==
  ASSUME [Next]_vars, ~DispatchStep
  PROVE  owed' \subseteq owed
<1>q. ASSUME NEW S, NEW Q, EnqueueAnd(S, Q) PROVE owed' \subseteq owed
  BY <1>q, Zenon DEF EnqueueAnd
<1> USE DEF queue
<1>1. CASE \/ Tick \/ BeginGeneration \/ GoOn \/ NoFrag \/ StaleMember \/ NextMember
           \/ CountMember \/ ScheduleStep \/ UNCHANGED vars
  BY <1>1, Zenon DEF Tick, BeginGeneration, GoOn, NoFrag, StaleMember, NextMember, CountMember,
              ScheduleStep, Schedule, vars
<1>2. CASE AfterCredit \/ \E failed \in BOOLEAN : ReceiveMember(failed)
  BY <1>2, Zenon DEF AfterCredit, ReceiveMember, Sync
<1>3. CASE SlotEnds \/ Reset \/ BecameLeader \/ Lead \/ CheckPending
  BY <1>3, <1>q, Zenon DEF SlotEnds, Reset, BecameLeader, Lead, CheckPending, FinishLeaderSlot,
                    EvictInvalidPending, Enqueue
<1>4. CASE InsertInitializer \/ InsertOther \/ FailedMember \/ FirstMember \/ Reject
  BY <1>4, <1>q, Zenon DEF InsertInitializer, InsertOther, FailedMember, FirstMember, Reject,
                    Reconcile, Enqueue
<1>5. CASE ExecutedStep \/ \E t \in Txns : Replayed(t)
  BY <1>5, <1>q, Zenon DEF ExecutedStep, Executed, Replayed, Landed, Enqueue
<1>6. CASE AdmitStep
  BY <1>6, <1>q, Zenon DEF AdmitStep, Admit
<1>7. CASE BundleStep \/ \E sig \in 0..slot : ReceiveOther(sig)
  BY <1>7, <1>q, Zenon DEF BundleStep, ReceiveBundle, Enqueue, ReceiveOther
<1> QED BY <1>1, <1>2, <1>3, <1>4, <1>5, <1>6, <1>7, Zenon
        DEF Next, DispatchStep, ScheduleStep, ExecutedStep, AdmitStep, BundleStep

\* Only a Block Engine bundle displaces.
LEMMA DisplacedStays ==
  ASSUME [Next]_vars, ~BundleStep
  PROVE  displaced' = displaced
  BY Zenon DEF Next, BundleStep, vars, outside, Tick, Dispatch, BeginGeneration, AfterCredit,
     SlotEnds, GoOn, InsertInitializer, Schedule, NoFrag, Reset, BecameLeader, Lead, Replayed,
     Executed, ReceiveMember, ReceiveOther, StaleMember, FailedMember, FirstMember, NextMember,
     CheckPending, InsertOther, CountMember, Reject, Admit

\* Only scheduling adds to the scheduled records and, with execution, changes
\* what they wait for.
LEMMA ScheduledShrinks ==
  ASSUME [Next]_vars, ~ScheduleStep
  PROVE  scheduled' \subseteq scheduled /\ (ExecutedStep \/ live' = live)
<1> USE DEF done
<1>1. CASE ExecutedStep
  BY <1>1, Zenon DEF ExecutedStep, Executed
<1>2. CASE Lead
  BY <1>2, Zenon DEF Lead
<1>3. CASE ~ExecutedStep /\ ~Lead
  BY <1>3, Zenon DEF Next, vars, Tick, Dispatch, BeginGeneration, AfterCredit, SlotEnds, GoOn,
     InsertInitializer, ScheduleStep, NoFrag, Reset, BecameLeader, Replayed, ExecutedStep,
     ReceiveMember, ReceiveBundle, ReceiveOther, StaleMember, FailedMember, FirstMember,
     NextMember, CheckPending, InsertOther, CountMember, Reject, Admit
<1> QED BY <1>1, <1>2, <1>3, Zenon

-----------------------------------------------------------------------------
\* The theorems.

\* Every step keeps bundles and records typed.
LEMMA StoredNext ==
  ASSUME Typed, Order, Match, [Next]_vars
  PROVE  Stored'
<1>1. pending' \subseteq Items
  <2>1. CASE AdmitStep
    <3>1. PICK evicted \in SUBSET pool, taken \in BOOLEAN : Admit(evicted, taken)
      BY <2>1, Zenon DEF AdmitStep
    <3>2. PICK old \in SUBSET pending, keep \in BOOLEAN : Admitted(evicted, old, keep)
      BY <3>1, AdmitFacts, Zenon
    <3>3. current.item \in Items
      BY <3>1, MemberInHand, Zenon DEF Admit
    <3> QED BY <3>2, <3>3, Zenon DEF Admitted, Typed, Stored
  <2>2. CASE ~AdmitStep
    BY <2>2, PendingShrinks, Zenon DEF Typed, Stored
  <2> QED BY <2>1, <2>2, Zenon
<1>2. pool' \subseteq Items
  <2>1. Match'
    BY MatchNext, Zenon
  <2> QED BY <1>1, <2>1, Zenon DEF Match
<1>3. scheduled' \subseteq Items /\ live' \in [Names -> SUBSET Txns]
  <2>1. CASE ScheduleStep
    <3>1. PICK i \in pool : Schedule(i)
      BY <2>1, Zenon DEF ScheduleStep
    <3>2. i \in Items /\ i.n \in Names /\ i.batch \in Batches
      BY Zenon DEF Typed, Stored, Items
    <3>3. {Members[i.batch][k] : k \in DOMAIN Members[i.batch]} \in SUBSET Txns
      BY <3>2, BatchMembers, Zenon
    <3> QED BY <3>1, <3>2, <3>3, Zenon DEF Schedule, Typed, Stored
  <2>2. CASE ExecutedStep /\ ~ScheduleStep
    <3>1. PICK t \in Txns, landed \in BOOLEAN : Executed(t, landed)
      BY <2>2, Zenon DEF ExecutedStep
    <3>2. live' \in [Names -> SUBSET Txns]
      BY <3>1, Zenon DEF Executed, Typed, Stored, done
    <3> QED BY <2>2, <3>2, ScheduledShrinks, Zenon DEF Typed, Stored
  <2>3. CASE ~ScheduleStep /\ ~ExecutedStep
    BY <2>3, ScheduledShrinks, Zenon DEF Typed, Stored
  <2> QED BY <2>1, <2>2, <2>3, Zenon
<1> QED BY <1>1, <1>2, <1>3, Zenon DEF Stored

\* Every step keeps it.
LEMMA RInvNext == RInv /\ [Next]_vars => RInv'
<1> SUFFICES ASSUME RInv, [Next]_vars PROVE RInv'
  OBVIOUS
<1>1. Shaped' /\ Stored'
  BY ShapedNext, StoredNext, Zenon DEF RInv
<1>2. Order' /\ Stamps' /\ Match' /\ Valid'
  BY OrderNext, StampsNext, MatchNext, ValidNext, Zenon DEF RInv
<1> QED BY <1>1, <1>2, Zenon DEF RInv, Typed

\* So it always holds.
LEMMA RecordInvariant == Spec => []RInv
  BY RInvInit, RInvNext, PTL DEF Spec

\* Pending records and fd_pack's bundles agree whenever either is used.
THEOREM PackRecordsMatch == Spec => []RecordsMatchPool
<1>1. RInv => RecordsMatchPool
  BY Agree, Zenon DEF RInv, RecordsMatchPool
<1> QED BY <1>1, RecordInvariant, PTL

\* Nothing is executed for a slot that has been closed, or with a blockhash that
\* has expired.
THEOREM PackSlotClosed == Spec => NeverForClosedSlot
<1>1. RInv /\ [Next]_vars =>
        \A i \in scheduled' \ scheduled :
          min_admission <= leader /\ ~BlockhashExpired(i.batch, leader)
  <2> SUFFICES ASSUME RInv, [Next]_vars, NEW i \in scheduled' \ scheduled
               PROVE  min_admission <= leader /\ ~BlockhashExpired(i.batch, leader)
    OBVIOUS
  <2>1. ScheduleStep
    BY ScheduledShrinks, Zenon
  <2>2. PICK j \in pool : Schedule(j)
    BY <2>1, Zenon DEF ScheduleStep
  <2>3. i = j /\ i \in pending /\ leader # 0 /\ Target[i.batch] = leader
    BY <2>2, Zenon DEF Schedule, CandidateReady
  <2>4. ~AdmissionInvalid(i.batch, leader, min_admission)
    BY <2>3, Zenon DEF RInv, Valid
  <2>5. i.batch \in Batches /\ leader \in Nat /\ min_admission \in Nat /\ Hash[i.batch] \in Nat
    BY <2>3, PackConstants, Zenon DEF RInv, Typed, Shaped, Stored, Items
  <2> QED BY <2>3, <2>4, <2>5, SMTT(60) DEF AdmissionInvalid, Larger
<1>2. RInv /\ [Next]_vars =>
        [\A i \in scheduled' \ scheduled :
           min_admission <= leader /\ ~BlockhashExpired(i.batch, leader)]_vars
  BY <1>1, Zenon
<1> QED BY <1>2, RecordInvariant, PTL DEF Spec, NeverForClosedSlot

(***************************************************************************)
(* Counting.                                                               *)
(***************************************************************************)

\* Where no fragment has been taken from the links since the last drain.
Drained == {"sched", "limit", "poll", "lead", "member"}

\* The work table holds its work; results, and what may become one, keep within
\* the pace.
Room ==
  /\ IsFiniteSet(pending) /\ IsFiniteSet(scheduled) /\ result_cnt \in Nat
  /\ Cardinality(pending) + Cardinality(scheduled) <= WORK_MAX
  /\ result_cnt + Cardinality(pending) + Cardinality(Assembling) <= WORK_MAX + 1
  /\ pc \in Drained => result_cnt + Cardinality(pending) <= WORK_MAX

\* What is owed and was not displaced is what is on its way, in assembly or
\* pending, each in one place.
Ledger ==
  /\ \A i, j \in pending : i.n = j.n => i = j
  /\ \A n \in Names :
       n \in owed /\ n \notin displaced <=> \/ OnTheWay(n)
                                            \/ n \in NamesOf(Assembling)
                                            \/ n \in NamesOf(pending)
  /\ \A n \in Names : OnTheWay(n) => n \notin NamesOf(Assembling) /\ n \notin NamesOf(pending)
  /\ NamesOf(Assembling) \cap NamesOf(pending) = {}
  /\ pc = "member" /\ frag.idx = 0 /\ line # None /\ line.next = 0 =>
       line.item.n # frag.item.n

\* Scheduled records are done with: their names are neither owed nor shared.
Apart ==
  /\ \A i \in scheduled : i.n \notin owed
  /\ \A i, j \in scheduled : i.n = j.n => i = j

IInv == RInv /\ Room /\ Ledger /\ Apart /\ OneRecordPerTransaction /\ owed \subseteq Names

-----------------------------------------------------------------------------
\* The ledger, as long as no result is dropped.

\* What a step may have to answer: pending work, the assembly, a failed member.
Fits(S) ==
  \/ S \subseteq pending \cup Assembling
  \/ pc = "member" /\ current = None /\ S = {frag.item}

NoneDropped ==
  \A S, Q : Fits(S) /\ EnqueueAnd(S, Q) => owed' = owed \ NamesOf(S \cup Q)

\* A step that gives up some pending records and touches no batch on its way or
\* in assembly.
ShedStep ==
  /\ \/ \E bad \in SUBSET pending : pending' = pending \ bad /\ Enqueue(bad)
     \/ UNCHANGED <<pending, result_cnt, owed>>
  /\ UNCHANGED <<line, displaced>> /\ Assembling' = Assembling
  /\ pc # "member" /\ pc' # "member"
  /\ pc' \in Drained => pc \in Drained
  /\ scheduled' \subseteq scheduled

\* The steps that only give up pending records.
Shedding ==
  \/ SlotEnds \/ GoOn \/ InsertInitializer \/ NoFrag \/ Reset \/ BecameLeader \/ Lead
  \/ \E t \in Txns : Replayed(t)
  \/ \E t \in Txns, landed \in BOOLEAN : Executed(t, landed)
  \/ \E sig \in 0..slot : ReceiveOther(sig)
  \/ CheckPending \/ InsertOther

\* Every step named in Shedding is a ShedStep.
LEMMA SheddingSheds ==
  ASSUME Typed, Shedding
  PROVE  ShedStep
<1> USE DEF ShedStep, Drained, Assembling, outside
<1>f. ASSUME FinishLeaderSlot
      PROVE  /\ \E bad \in SUBSET pending : pending' = pending \ bad /\ Enqueue(bad)
             /\ Assembling' = Assembling
  <2>1. \E bad \in SUBSET pending : pending' = pending \ bad /\ Enqueue(bad)
    BY <1>f, Zenon DEF FinishLeaderSlot, EvictInvalidPending
  <2> QED BY <1>f, <2>1, FinishTyped, Zenon
<1>r. ASSUME NEW evicted, Reconcile(evicted)
      PROVE  \E bad \in SUBSET pending : pending' = pending \ bad /\ Enqueue(bad)
  <2>1. pending' = pending \ (pending \cap evicted) /\ Enqueue(pending \cap evicted)
    BY <1>r, Zenon DEF Reconcile
  <2> QED BY <2>1, Zenon
<1>d. ASSUME NEW t, Landed(t)
      PROVE  \E bad \in SUBSET pending : pending' = pending \ bad /\ Enqueue(bad)
  BY <1>d, Zenon DEF Landed, WithSignature
<1>1. CASE SlotEnds
  BY <1>1, <1>f, Zenon DEF SlotEnds, done
<1>2. CASE GoOn \/ NoFrag
  BY <1>2, Zenon DEF GoOn, NoFrag, done, work, queue
<1>3. CASE InsertInitializer
  BY <1>3, <1>r, Zenon DEF InsertInitializer, done
<1>4. CASE Reset
  BY <1>4, <1>f, Zenon DEF Reset, done
<1>5. CASE BecameLeader
  BY <1>5, <1>f, Zenon DEF BecameLeader, done, work, queue
<1>6. CASE Lead
  <2>1. \E bad \in SUBSET pending : pending' = pending \ bad /\ Enqueue(bad)
    BY <1>6, Zenon DEF Lead
  <2> QED BY <1>6, <2>1, Zenon DEF Lead
<1>7. CASE \E t \in Txns : Replayed(t)
  BY <1>7, <1>d, Zenon DEF Replayed, done
<1>8. ASSUME NEW t \in Txns, NEW landed \in BOOLEAN, Executed(t, landed)
      PROVE  ShedStep
  <2>1. scheduled' \subseteq scheduled
    BY <1>8, Zenon DEF Executed, done
  <2> QED BY <1>8, <2>1, <1>d, Zenon DEF Executed, queue
<1>9. CASE \E sig \in 0..slot : ReceiveOther(sig)
  BY <1>9, Zenon DEF ReceiveOther, done, queue
<1>10. CASE CheckPending
  <2>1. \/ \E bad \in SUBSET pending : pending' = pending \ bad /\ Enqueue(bad)
        \/ UNCHANGED <<pending, result_cnt, owed>>
    BY <1>10, Zenon DEF CheckPending, EvictInvalidPending, queue
  <2> QED BY <1>10, <2>1, Zenon DEF CheckPending, done
<1>11. CASE InsertOther
  BY <1>11, <1>r, Zenon DEF InsertOther, done
<1> QED BY <1>1, <1>2, <1>3, <1>4, <1>5, <1>6, <1>7, <1>8, <1>9, <1>10, <1>11, Zenon DEF Shedding

\* A step that leaves all that the ledger speaks of alone.
LEMMA SameLedger ==
  ASSUME Ledger, UNCHANGED <<line, owed, pending, displaced>>, Assembling' = Assembling,
         (pc = "member" /\ frag.idx = 0) <=> (pc' = "member" /\ frag'.idx = 0),
         pc' = "member" /\ frag'.idx = 0 => frag' = frag
  PROVE  Ledger'
<1>1. \A n \in Names : OnTheWay(n)' <=> OnTheWay(n)
  BY Zenon DEF OnTheWay
<1>2. NamesOf(Assembling)' = NamesOf(Assembling) /\ NamesOf(pending)' = NamesOf(pending)
  BY Zenon DEF NamesOf
<1> QED BY <1>1, <1>2, Zenon DEF Ledger

\* Names of sets of items.
LEMMA NamesFacts ==
  /\ NamesOf({}) = {}
  /\ \A i : NamesOf({i}) = {i.n}
  /\ \A S, T : NamesOf(S \cup T) = NamesOf(S) \cup NamesOf(T)
  BY Zenon DEF NamesOf

\* What the ledger will say when the names on their way are known.
LedgerWith(way) ==
  /\ \A n \in Names : OnTheWay(n)' <=> n \in way
  /\ \A i, j \in pending' : i.n = j.n => i = j
  /\ \A n \in Names :
       n \in owed' /\ n \notin displaced' <=> \/ n \in way
                                              \/ n \in NamesOf(Assembling')
                                              \/ n \in NamesOf(pending')
  /\ \A n \in way : n \notin NamesOf(Assembling') /\ n \notin NamesOf(pending')
  /\ NamesOf(Assembling') \cap NamesOf(pending') = {}
  /\ pc' = "member" /\ frag'.idx = 0 /\ line' # None /\ line'.next = 0 =>
       line'.item.n # frag'.item.n

\* It does say so.
LEMMA LedgerIs ==
  ASSUME NEW way, LedgerWith(way)
  PROVE  Ledger'
<1>1. NamesOf(Assembling)' = NamesOf(Assembling') /\ NamesOf(pending)' = NamesOf(pending')
  BY Zenon DEF NamesOf
<1> QED BY <1>1, Zenon DEF Ledger, LedgerWith

\* The names that are on their way.
Way == {n \in Names : OnTheWay(n)}

\* Giving up pending records leaves the rest of the ledger as it is.
LEMMA ShedLedger ==
  ASSUME Ledger, NoneDropped, ShedStep
  PROVE  Ledger'
<1>s. /\ UNCHANGED <<line, displaced>> /\ Assembling' = Assembling
      /\ pc # "member" /\ pc' # "member"
  BY Zenon DEF ShedStep
<1>1. CASE UNCHANGED <<pending, owed>>
  BY <1>s, <1>1, SameLedger, Zenon
<1>2. ASSUME NEW bad \in SUBSET pending, pending' = pending \ bad, Enqueue(bad)
      PROVE  Ledger'
  <2>1. owed' = owed \ NamesOf(bad)
    <3>1. Fits(bad) /\ EnqueueAnd(bad, {})
      BY <1>2, Zenon DEF Fits, Enqueue
    <3>2. bad \cup {} = bad
      OBVIOUS
    <3> QED BY <3>1, <3>2, Zenon DEF NoneDropped
  <2>2. \A n \in Names : OnTheWay(n)' <=> n \in Way
    BY <1>s, Zenon DEF OnTheWay, Way
  <2>3. NamesOf(pending') = NamesOf(pending) \ NamesOf(bad)
    BY <1>2 DEF NamesOf, Ledger
  <2>4. NamesOf(bad) \subseteq NamesOf(pending)
    BY Zenon DEF NamesOf
  <2>5. \A i, j \in pending' : i.n = j.n => i = j
    BY <1>2, Zenon DEF Ledger
  <2>6. LedgerWith(Way)
    BY <1>s, <2>1, <2>2, <2>3, <2>4, <2>5, Zenon DEF LedgerWith, Ledger, Way
  <2> QED BY <2>6, LedgerIs, Zenon
<1> QED BY <1>1, <1>2, Zenon DEF ShedStep

\* Every step keeps the ledger.
LEMMA LedgerNext ==
  ASSUME Typed, Order, Stamps, Ledger, NoneDropped, [Next]_vars
  PROVE  Ledger'
<1>t. /\ line # None => line \in Lines /\ line.item.n \in Names /\ line.next \in Nat
      /\ frag \in Frags => frag.item.n \in Names /\ frag.idx \in Nat
      /\ current # None => current \in Assemblies /\ current.item.n \in Names
  BY StampTypes, Zenon
<1>m. pc = "member" => frag \in Frags
  BY Zenon DEF Order
<1>n. \A i \in pending : i.n \in Names
  BY Zenon DEF Typed, Shaped, Stored, Items
<1>l. /\ \A i, j \in pending : i.n = j.n => i = j
      /\ \A n \in Names :
           n \in owed /\ n \notin displaced <=> \/ n \in Way
                                                \/ n \in NamesOf(Assembling)
                                                \/ n \in NamesOf(pending)
      /\ \A n \in Way : n \notin NamesOf(Assembling) /\ n \notin NamesOf(pending)
      /\ NamesOf(Assembling) \cap NamesOf(pending) = {}
      /\ pc = "member" /\ frag.idx = 0 /\ line # None /\ line.next = 0 =>
           line.item.n # frag.item.n
  BY Zenon DEF Ledger, Way
<1>0. CASE BundleStep
  <2>1. PICK sig \in 0..slot : ReceiveBundle(sig)
    BY <1>0, Zenon DEF BundleStep
  <2> DEFINE S == {i \in Assembling : current.open}
  <2>2. /\ pc = "poll" /\ pc' = "evict" /\ current' = None /\ Enqueue(S)
        /\ displaced' = displaced \cup NamesOf(Assembling) /\ UNCHANGED <<line, pending>>
    BY <2>1, Zenon DEF ReceiveBundle
  <2>3. owed' = owed \ NamesOf(S)
    <3>1. Fits(S) /\ EnqueueAnd(S, {})
      BY <2>2, Zenon DEF Fits, Enqueue
    <3>2. S \cup {} = S
      OBVIOUS
    <3> HIDE DEF S
    <3> QED BY <3>1, <3>2, Zenon DEF NoneDropped
  <2>4. NamesOf(S) \subseteq NamesOf(Assembling)
    BY Zenon DEF NamesOf
  <2>5. NamesOf(Assembling') = {}
    BY <2>2, NamesFacts, Zenon DEF Assembling
  <2>6. \A k \in Names : OnTheWay(k)' <=> k \in Way
    BY <2>2, Zenon DEF OnTheWay, Way
  <2> HIDE DEF S
  <2>9. LedgerWith(Way)
    BY <2>2, <2>3, <2>4, <2>5, <2>6, <1>l, Zenon DEF LedgerWith
  <2> QED BY <2>9, LedgerIs, Zenon
<1> SUFFICES ASSUME ~BundleStep PROVE Ledger'
  BY <1>0, Zenon
<1>d. displaced' = displaced
  BY DisplacedStays, Zenon
<1>1. CASE Shedding
  <2>1. ShedStep
    BY <1>1, SheddingSheds, Zenon
  <2> QED BY <2>1, ShedLedger, Zenon
<1>2. CASE Tick \/ BeginGeneration \/ UNCHANGED vars
  BY <1>2, SameLedger, <1>d, Zenon DEF Tick, BeginGeneration, vars, work, queue, Assembling
<1>3. ASSUME NEW b \in Batches, NEW n \in Names, Dispatch(b, n) PROVE Ledger'
  <2>1. /\ line = None /\ UNCHANGED <<pc, frag, current, pending>>
        /\ n \notin owed /\ n \notin displaced /\ owed' = owed \cup {n}
        /\ line' = [item |-> [n |-> n, batch |-> b, gen |-> own_gen], next |-> 0]
    BY <1>3, Zenon DEF Dispatch, work
  <2>2. line' \in Lines /\ line'.item.n = n /\ line'.next = 0
    BY <2>1, Zenon DEF Lines, Items, Typed, Shaped, Stored
  <2>3. line' # None
    BY <2>2, PackTokens, Zenon
  <2>4. \A k \in Names : OnTheWay(k)' <=> k \in Way \cup {n}
    BY <2>1, <2>2, <2>3, Zenon DEF OnTheWay, Way
  <2>5. Assembling' = Assembling
    BY <2>1, Zenon DEF Assembling
  <2>6. pc = "member" /\ frag.idx = 0 => frag.item.n \in Way
    BY <1>m, <1>t, Zenon DEF Way, OnTheWay
  <2>9. LedgerWith(Way \cup {n})
    BY <2>1, <2>2, <2>4, <2>5, <2>6, <1>l, <1>d, Zenon DEF LedgerWith
  <2> QED BY <2>9, LedgerIs, Zenon
<1>4. CASE AfterCredit
  <2>1. Sync /\ pc = "credit" /\ pc' = "sched" /\ UNCHANGED line
    BY <1>4, Zenon DEF AfterCredit
  <2>2. \A k \in Names : OnTheWay(k)' <=> k \in Way
    BY <2>1, Zenon DEF OnTheWay, Way
  <2>3. CASE UNCHANGED <<current, pending, owed>>
    BY <2>1, <2>3, SameLedger, <1>d, Zenon DEF Assembling
  <2>4. CASE /\ current' = None /\ pending' = {}
             /\ owed' = owed \ NamesOf(pending \cup Assembling)
    <3>1. Assembling' = {}
      BY <2>4, Zenon DEF Assembling
    <3>2. owed' = owed \ (NamesOf(pending) \cup NamesOf(Assembling))
      BY <2>4, NamesFacts, Zenon
    <3>3. NamesOf(Assembling') = {} /\ NamesOf(pending') = {}
      BY <2>4, <3>1, NamesFacts, Zenon
    <3>9. LedgerWith(Way)
      BY <2>1, <2>2, <2>4, <3>2, <3>3, <1>l, <1>d, Zenon DEF LedgerWith
    <3> QED BY <3>9, LedgerIs, Zenon
  <2> QED BY <2>1, <2>3, <2>4, SyncCases, Zenon
<1>5. ASSUME NEW i \in pool, Schedule(i) PROVE Ledger'
  <2>1. /\ i \in pending /\ pc = "sched" /\ pc' = "limit" /\ UNCHANGED <<line, current>>
        /\ pending' = pending \ {i} /\ owed' = owed \ {i.n}
    BY <1>5, Zenon DEF Schedule, CandidateReady
  <2>2. \A k \in Names : OnTheWay(k)' <=> k \in Way
    BY <2>1, Zenon DEF OnTheWay, Way
  <2>3. Assembling' = Assembling
    BY <2>1, Zenon DEF Assembling
  <2>4. NamesOf(pending') = NamesOf(pending) \ {i.n} /\ i.n \in NamesOf(pending)
    BY <2>1, <1>l DEF NamesOf
  <2>5. \A k, j \in pending' : k.n = j.n => k = j
    BY <2>1, <1>l, Zenon
  <2>9. LedgerWith(Way)
    BY <2>1, <2>2, <2>3, <2>4, <2>5, <1>l, <1>d, ZenonT(60) DEF LedgerWith
  <2> QED BY <2>9, LedgerIs, Zenon
<1>6. ASSUME NEW failed \in BOOLEAN, ReceiveMember(failed) PROVE Ledger'
  <2>1. /\ pc = "poll" /\ line # None /\ Sync /\ pc' = "member"
        /\ frag' = [item |-> line.item, idx |-> line.next, failed |-> failed,
                    expired |-> Hash[line.item.batch] + RESOLV_LIFETIME < slot]
        /\ line' = IF failed \/ line.next + 1 = Len(Members[line.item.batch])
                   THEN None ELSE [line EXCEPT !.next = @ + 1]
    BY <1>6, Zenon DEF ReceiveMember
  <2>2. frag'.item = line.item /\ frag'.idx = line.next
    BY <2>1, Zenon
  <2>3. line' # None => line'.next = line.next + 1 /\ line'.next # 0
    BY <2>1, <1>t DEF Lines
  <2>4. \A k \in Names : OnTheWay(k)' <=> k \in Way
    BY <2>1, <2>2, <2>3, Zenon DEF OnTheWay, Way
  <2>5. CASE UNCHANGED <<current, pending, owed>>
    <3>1. Assembling' = Assembling
      BY <2>5, Zenon DEF Assembling
    <3>9. LedgerWith(Way)
      BY <2>3, <2>4, <2>5, <3>1, <1>l, <1>d, Zenon DEF LedgerWith
    <3> QED BY <3>9, LedgerIs, Zenon
  <2>6. CASE /\ current' = None /\ pending' = {}
             /\ owed' = owed \ NamesOf(pending \cup Assembling)
    <3>1. Assembling' = {}
      BY <2>6, Zenon DEF Assembling
    <3>2. owed' = owed \ (NamesOf(pending) \cup NamesOf(Assembling))
      BY <2>6, NamesFacts, Zenon
    <3>3. NamesOf(Assembling') = {} /\ NamesOf(pending') = {}
      BY <2>6, <3>1, NamesFacts, Zenon
    <3>9. LedgerWith(Way)
      BY <2>3, <2>4, <2>6, <3>2, <3>3, <1>l, <1>d, Zenon DEF LedgerWith
    <3> QED BY <3>9, LedgerIs, Zenon
  <2> QED BY <2>1, <2>5, <2>6, SyncCases, Zenon
<1>7. ASSUME pc = "member", pc' # "member", UNCHANGED line, frag.idx = 0
      PROVE  /\ \A k \in Names : OnTheWay(k)' <=> k \in Way \ {frag.item.n}
             /\ frag.item.n \in Way
  <2>1. frag \in Frags /\ frag.item.n \in Names
    BY <1>7, <1>m, <1>t, Zenon
  <2>2. frag.item.n \in Way
    BY <1>7, <2>1, Zenon DEF OnTheWay, Way
  <2>3. line # None /\ line.next = 0 => line.item.n # frag.item.n
    BY <1>7, <1>l, Zenon
  <2>4. \A k \in Names : OnTheWay(k)' <=> k \in Way \ {frag.item.n}
    BY <1>7, <2>1, <2>3, Zenon DEF OnTheWay, Way
  <2> QED BY <2>2, <2>4, Zenon
<1>8. CASE StaleMember
  <2>1. /\ pc = "member" /\ pc' = "evict" /\ UNCHANGED <<line, current, pending>>
        /\ owed' = IF frag.idx = 0 THEN owed \ {frag.item.n} ELSE owed
    BY <1>8, Zenon DEF StaleMember, work
  <2>2. Assembling' = Assembling
    BY <2>1, Zenon DEF Assembling
  <2>3. CASE frag.idx = 0
    <3>9. LedgerWith(Way \ {frag.item.n})
      BY <2>1, <2>2, <2>3, <1>7, <1>l, <1>d, Zenon DEF LedgerWith
    <3> QED BY <3>9, LedgerIs, Zenon
  <2>4. CASE frag.idx # 0
    BY <2>1, <2>2, <2>4, SameLedger, <1>d, Zenon
  <2> QED BY <2>3, <2>4, Zenon
<1>9. CASE FailedMember
  <2>1. /\ pc = "member" /\ pc' = "evict" /\ UNCHANGED <<line, pending>> /\ current' = None
        /\ Enqueue(Assembling \cup {frag.item}) /\ frag.item.gen = pack_gen
    BY <1>9, Zenon DEF FailedMember
  <2>2. Assembling \cup {frag.item} = {frag.item}
    BY <2>1, MemberAssembly, Zenon
  <2>3. Fits({frag.item}) /\ EnqueueAnd({frag.item}, {})
    BY <2>1, <2>2, MemberAssembly, Zenon DEF Fits, Enqueue
  <2>4. owed' = owed \ {frag.item.n}
    <3>1. owed' = owed \ NamesOf({frag.item} \cup {})
      BY <2>3, Zenon DEF NoneDropped
    <3> QED BY <3>1, NamesFacts, Zenon
  <2>5. Assembling' = {}
    BY <2>1, Zenon DEF Assembling
  <2>6. CASE frag.idx = 0
    <3>1. Assembling = {}
      BY <2>1, <2>6, MemberAssembly, Zenon
    <3>2. NamesOf(Assembling) = {} /\ NamesOf(Assembling') = {}
      BY <2>5, <3>1, NamesFacts, Zenon
    <3>3. /\ \A k \in Names : OnTheWay(k)' <=> k \in Way \ {frag.item.n}
          /\ frag.item.n \in Way
      BY <2>1, <2>6, <1>7, Zenon
    <3>9. LedgerWith(Way \ {frag.item.n})
      BY <2>1, <2>4, <3>2, <3>3, <1>l, <1>d, Zenon DEF LedgerWith
    <3> QED BY <3>9, LedgerIs, Zenon
  <2>7. CASE frag.idx # 0
    <3>1. \/ NamesOf(Assembling) = {frag.item.n}
          \/ NamesOf(Assembling) = {} /\ frag.item.n \in displaced
      <4>1. CASE current # None
        BY <2>1, <4>1, MemberAssembly, NamesFacts, Zenon
      <4>2. CASE current = None
        BY <2>1, <2>7, <4>2, MemberAssembly, NamesFacts, Zenon DEF Assembling
      <4> QED BY <4>1, <4>2, Zenon
    <3>3. \A k \in Names : OnTheWay(k)' <=> k \in Way
      BY <2>1, <2>7, Zenon DEF OnTheWay, Way
    <3>4. NamesOf(Assembling') = {}
      BY <2>5, NamesFacts, Zenon
    <3>9. LedgerWith(Way)
      BY <2>1, <2>4, <3>1, <3>3, <3>4, <1>l, <1>d, Zenon DEF LedgerWith
    <3> QED BY <3>9, LedgerIs, Zenon
  <2> QED BY <2>6, <2>7, Zenon
<1>10. CASE FirstMember
  <2>1. /\ pc = "member" /\ pc' = "evict" /\ frag.idx = 0 /\ Enqueue(Assembling)
        /\ UNCHANGED <<line, pending>>
        /\ current' = [item |-> frag.item, received |-> 0, open |-> TRUE,
                       expired |-> frag.expired]
    BY <1>10, Zenon DEF FirstMember
  <2>2. Assembling = {}
    BY <2>1, MemberAssembly, Zenon
  <2>3. owed' = owed
    <3>1. Fits(Assembling) /\ EnqueueAnd(Assembling, {})
      BY <2>1, Zenon DEF Fits, Enqueue
    <3>2. owed' = owed \ NamesOf(Assembling \cup {})
      BY <3>1, Zenon DEF NoneDropped
    <3> QED BY <2>2, <3>2, NamesFacts, Zenon
  <2>4. current' # None /\ current'.item = frag.item
    <3>1. frag \in Frags /\ frag.item \in Items /\ frag.expired \in BOOLEAN
      BY <2>1, <1>m, Zenon DEF Frags
    <3>2. current' \in Assemblies
      BY <2>1, <3>1, Zenon DEF Assemblies
    <3> QED BY <2>1, <3>2, PackTokens, Zenon
  <2>5. NamesOf(Assembling') = {frag.item.n}
    BY <2>4, NamesFacts, Zenon DEF Assembling
  <2>6. NamesOf(Assembling) = {}
    BY <2>2, NamesFacts, Zenon
  <2>7. /\ \A k \in Names : OnTheWay(k)' <=> k \in Way \ {frag.item.n}
        /\ frag.item.n \in Way
    BY <2>1, <1>7, Zenon
  <2>9. LedgerWith(Way \ {frag.item.n})
    BY <2>1, <2>3, <2>5, <2>6, <2>7, <1>l, <1>d, Zenon DEF LedgerWith
  <2> QED BY <2>9, LedgerIs, Zenon
<1>11. CASE NextMember
  <2>1. /\ pc = "member" /\ pc' = "evict" /\ frag.idx # 0 /\ UNCHANGED <<line, pending, owed>>
    BY <1>11, <1>m, <1>t DEF NextMember, queue
  <2>2. Assembling' = Assembling
    <3>1. CASE current = None
      BY <1>11, <3>1, Zenon DEF NextMember, Assembling
    <3>2. CASE current # None
      <4>1. (current.expired \/ frag.expired) \in BOOLEAN
        OBVIOUS
      <4>2. current' # None /\ current'.item = current.item
        BY <1>11, <3>2, <4>1, <1>t, AssemblyExpired, PackTokens, Zenon DEF NextMember
      <4> QED BY <3>2, <4>2, Zenon DEF Assembling
    <3> QED BY <3>1, <3>2, Zenon
  <2> QED BY <2>1, <2>2, SameLedger, <1>d, Zenon
<1>12. CASE CountMember
  <2>1. /\ pc = "insert" /\ pc' = "credit" /\ frag \notin {None, Other}
        /\ current' = [current EXCEPT !.received = current.received + 1]
        /\ UNCHANGED <<line, pending, owed>>
    BY <1>12, Zenon DEF CountMember, queue
  <2>2. current # None /\ current' # None /\ current'.item = current.item
    BY <2>1, MemberInHand, AssemblyReceived, PackTokens
  <2>3. Assembling' = Assembling
    BY <2>2, Zenon DEF Assembling
  <2> QED BY <2>1, <2>3, SameLedger, <1>d, Zenon
<1>13. ASSUME pc = "insert", pc' = "credit", UNCHANGED line
       PROVE  \A k \in Names : OnTheWay(k)' <=> k \in Way
  BY <1>13, Zenon DEF OnTheWay, Way
<1>14. CASE Reject
  <2>1. /\ pc = "insert" /\ pc' = "credit" /\ frag \notin {None, Other} /\ current' = None
        /\ Enqueue({current.item}) /\ UNCHANGED <<line, pending>>
    BY <1>14, Zenon DEF Reject
  <2>2. Assembling = {current.item}
    BY <2>1, MemberInHand, Zenon
  <2>3. owed' = owed \ {current.item.n}
    <3>1. Fits(Assembling) /\ EnqueueAnd(Assembling, {})
      BY <2>1, <2>2, Zenon DEF Fits, Enqueue
    <3>2. owed' = owed \ NamesOf(Assembling \cup {})
      BY <3>1, Zenon DEF NoneDropped
    <3> QED BY <2>2, <3>2, NamesFacts, Zenon
  <2>4. NamesOf(Assembling) = {current.item.n} /\ Assembling' = {}
    BY <2>1, <2>2, NamesFacts, Zenon DEF Assembling
  <2>9. LedgerWith(Way)
    BY <2>1, <2>3, <2>4, <1>13, <1>l, <1>d, NamesFacts, Zenon DEF LedgerWith
  <2> QED BY <2>9, LedgerIs, Zenon
<1>15. CASE AdmitStep
  <2>1. PICK evicted \in SUBSET pool, taken \in BOOLEAN : Admit(evicted, taken)
    BY <1>15, Zenon DEF AdmitStep
  <2>2. PICK old \in SUBSET pending, keep \in BOOLEAN : Admitted(evicted, old, keep)
    BY <2>1, AdmitFacts, Zenon
  <2>3. /\ pc = "insert" /\ pc' = "credit" /\ frag \notin {None, Other} /\ current' = None
        /\ UNCHANGED line
    BY <2>1, Zenon DEF Admit
  <2>4. NamesOf(Assembling) = {current.item.n} /\ Assembling' = {}
    BY <2>3, MemberInHand, NamesFacts, Zenon DEF Assembling
  <2>o. /\ pending' = (pending \ (old \cup evicted)) \cup IF keep THEN {current.item} ELSE {}
        /\ owed' = owed \ NamesOf(((pending \cap evicted) \ old)
                                     \cup (IF keep THEN {} ELSE {current.item}) \cup old)
    <3> DEFINE S == ((pending \cap evicted) \ old) \cup IF keep THEN {} ELSE {current.item}
    <3>1. EnqueueAnd(S, old)
      BY <2>2, Zenon DEF Admitted
    <3>2. S \subseteq pending \cup Assembling
      BY <2>3, MemberInHand, Zenon
    <3>3. Fits(S)
      BY <3>2, Zenon DEF Fits
    <3> HIDE DEF S
    <3>4. owed' = owed \ NamesOf(S \cup old)
      BY <3>1, <3>3, Zenon DEF NoneDropped
    <3> QED BY <2>2, <3>4, Zenon DEF Admitted, S
  <2> DEFINE gone == (pending \cap evicted) \cup old
             rest == pending \ (old \cup evicted)
  <2>5. NamesOf(rest) = NamesOf(pending) \ NamesOf(gone)
    BY <1>l DEF NamesOf
  <2>6. NamesOf(gone) \subseteq NamesOf(pending)
    BY Zenon DEF NamesOf
  <2>7. CASE keep
    <3>1. pending' = rest \cup {current.item} /\ owed' = owed \ NamesOf(gone)
      <4>1. ((pending \cap evicted) \ old) \cup {} \cup old = gone
        OBVIOUS
      <4> QED BY <2>o, <2>7, <4>1, Zenon
    <3>2. NamesOf(pending') = NamesOf(rest) \cup {current.item.n}
      <4> HIDE DEF rest
      <4> QED BY <3>1, Zenon DEF NamesOf
    <3>3. \A i, j \in pending' : i.n = j.n => i = j
      BY <3>1, <2>4, <1>l, SMTT(60) DEF NamesOf
    <3> HIDE DEF gone, rest
    <3>9. LedgerWith(Way)
      BY <2>3, <2>4, <2>5, <2>6, <3>1, <3>2, <3>3, <1>13, <1>l, <1>d, NamesFacts, Zenon DEF LedgerWith
    <3> QED BY <3>9, LedgerIs, Zenon
  <2>8. CASE ~keep
    <3>1. pending' = rest /\ owed' = owed \ NamesOf(gone \cup {current.item})
      <4>1. /\ ((pending \cap evicted) \ old) \cup {current.item} \cup old
                 = gone \cup {current.item}
            /\ rest \cup {} = rest
        OBVIOUS
      <4> QED BY <2>o, <2>8, <4>1, Zenon
    <3>2. NamesOf(gone \cup {current.item}) = NamesOf(gone) \cup {current.item.n}
      <4> HIDE DEF gone
      <4> QED BY Zenon DEF NamesOf
    <3>3. \A i, j \in pending' : i.n = j.n => i = j
      BY <3>1, <1>l, Zenon
    <3> HIDE DEF gone, rest
    <3>9. LedgerWith(Way)
      BY <2>3, <2>4, <2>5, <2>6, <3>1, <3>2, <3>3, <1>13, <1>l, <1>d, NamesFacts, Zenon DEF LedgerWith
    <3> QED BY <3>9, LedgerIs, Zenon
  <2> QED BY <2>7, <2>8, Zenon
<1> QED BY <1>1, <1>2, <1>3, <1>4, <1>5, <1>6, <1>8, <1>9, <1>10, <1>11, <1>12, <1>14, <1>15, Zenon
        DEF Next, Shedding, AdmitStep, BundleStep

-----------------------------------------------------------------------------
\* Scheduled records and the ledger.

\* What is pending is owed.
LEMMA PendingOwed ==
  ASSUME Typed, Ledger
  PROVE  \A i \in pending : i.n \in owed /\ i.n \in Names
<1>1. \A i \in pending : i.n \in Names /\ i.n \in NamesOf(pending)
  BY Zenon DEF Typed, Shaped, Stored, Items, NamesOf
<1> QED BY <1>1, Zenon DEF Ledger

\* Every step keeps the scheduled records apart.
LEMMA ApartNext ==
  ASSUME Typed, Ledger, Apart, [Next]_vars
  PROVE  Apart'
<1>1. CASE DispatchStep
  BY <1>1, Zenon DEF DispatchStep, Dispatch, Apart, NamesOf, done
<1>2. CASE ScheduleStep
  <2>1. PICK i \in pool : Schedule(i)
    BY <1>2, Zenon DEF ScheduleStep
  <2>2. i \in pending /\ scheduled' = scheduled \cup {i} /\ owed' = owed \ {i.n}
    BY <2>1, Zenon DEF Schedule, CandidateReady
  <2>3. \A j \in scheduled : j.n # i.n
    BY <2>2, PendingOwed, Zenon DEF Apart
  <2> QED BY <2>2, <2>3, Zenon DEF Apart
<1>3. CASE ~DispatchStep /\ ~ScheduleStep
  BY <1>3, OwedShrinks, ScheduledShrinks, Zenon DEF Apart
<1> QED BY <1>1, <1>2, <1>3, Zenon

\* The records that wait for their leading transaction.
Waiting == pending \cup {k \in scheduled : Sig0(k) \in live[k.n]}

\* Every step keeps the records of one transaction to one.
LEMMA OneRecordNext ==
  ASSUME Typed, Order, Ledger, Match, Apart, OneRecordPerTransaction, [Next]_vars
  PROVE  OneRecordPerTransaction'
<1>1. ASSUME Waiting' \subseteq Waiting PROVE OneRecordPerTransaction'
  BY <1>1, Zenon DEF Waiting, OneRecordPerTransaction, Sig0
<1>s. \A i \in scheduled : i.n \in Names
  BY Zenon DEF Typed, Shaped, Stored, Items
<1>2. CASE ScheduleStep
  <2>1. PICK i \in pool : Schedule(i)
    BY <1>2, Zenon DEF ScheduleStep
  <2>2. /\ i \in pending /\ pending' = pending \ {i} /\ scheduled' = scheduled \cup {i}
        /\ live' = [live EXCEPT ![i.n] = {Members[i.batch][k] : k \in DOMAIN Members[i.batch]}]
    BY <2>1, Zenon DEF Schedule, CandidateReady
  <2>3. \A j \in scheduled : j.n # i.n
    BY <2>2, PendingOwed, Zenon DEF Apart
  <2>4. \A j \in scheduled : live'[j.n] = live[j.n]
    BY <2>2, <2>3, <1>s, Zenon DEF Typed, Shaped, Stored
  <2>5. Waiting' \subseteq Waiting
    BY <2>2, <2>4, Zenon DEF Waiting, Sig0
  <2> QED BY <1>1, <2>5, Zenon
<1>3. CASE AdmitStep
  <2>1. PICK evicted \in SUBSET pool, taken \in BOOLEAN : Admit(evicted, taken)
    BY <1>3, Zenon DEF AdmitStep
  <2> DEFINE i == current.item
  <2>2. /\ pc = "insert" /\ UNCHANGED <<scheduled, live>>
        /\ pending' \subseteq (pending \ Duplicates(i)) \cup {i}
        /\ \A j \in Duplicates(i) : j \in pending
    BY <2>1, Zenon DEF Admit, Replaces, done
  <2>3. pool = pending
    BY <2>2, Agree, Zenon
  <2>4. \A j \in pending : Sig0(j) = Sig0(i) => j \in Duplicates(i)
    BY <2>3, Zenon DEF Duplicates
  <2>5. \A j \in scheduled : Sig0(j) \in live[j.n] => Sig0(j) # Sig0(i)
    <3> SUFFICES ASSUME NEW j \in scheduled, Sig0(j) \in live[j.n], Sig0(j) = Sig0(i)
                 PROVE  FALSE
      OBVIOUS
    <3>1. j \in Duplicates(i)
      BY Zenon DEF Duplicates
    <3> QED BY <2>2, <3>1, PendingOwed, Zenon DEF Apart
  <2>6. \A k \in Waiting' : k = i \/ (k \in Waiting /\ Sig0(k) # Sig0(i))
    BY <2>2, <2>4, <2>5, Zenon DEF Waiting, Sig0
  <2>7. \A k, j \in Waiting : Sig0(k) = Sig0(j) => k = j
    BY Zenon DEF Waiting, OneRecordPerTransaction
  <2>8. \A k, j \in Waiting' : Sig0(k) = Sig0(j) => k = j
    BY <2>6, <2>7, Zenon
  <2> QED BY <2>8, Zenon DEF Waiting, OneRecordPerTransaction, Sig0
<1>4. CASE ExecutedStep
  <2>1. PICK t \in Txns, landed \in BOOLEAN : Executed(t, landed)
    BY <1>4, Zenon DEF ExecutedStep
  <2>2. scheduled' \subseteq scheduled /\ pending' \subseteq pending
    BY <2>1, Zenon DEF Executed, Landed, done
  <2>3. \A n \in Names : live'[n] \subseteq live[n]
    BY <2>1, <1>s, Zenon DEF Executed, Typed, Shaped, Stored, done
  <2>4. Waiting' \subseteq Waiting
    BY <2>2, <2>3, <1>s, Zenon DEF Waiting, Sig0
  <2> QED BY <1>1, <2>4, Zenon
<1>5. CASE ~ScheduleStep /\ ~AdmitStep /\ ~ExecutedStep
  <2>1. pending' \subseteq pending /\ scheduled' \subseteq scheduled /\ live' = live
    BY <1>5, PendingShrinks, ScheduledShrinks, Zenon
  <2>2. Waiting' \subseteq Waiting
    BY <2>1, Zenon DEF Waiting, Sig0
  <2> QED BY <1>1, <2>2, Zenon
<1> QED BY <1>2, <1>3, <1>4, <1>5, Zenon

-----------------------------------------------------------------------------
\* Counting results.

INSTANCE FiniteSetTheorems

\* With room in the queue every result is kept.
LEMMA Enqueued ==
  ASSUME NEW S, NEW Q, IsFiniteSet(S), result_cnt \in Nat,
         result_cnt + Cardinality(S) <= QUEUE_CAP, EnqueueAnd(S, Q)
  PROVE  /\ result_cnt' = result_cnt + Cardinality(S)
         /\ owed' = owed \ NamesOf(S \cup Q)
<1>1. PICK kept \in SUBSET S :
        /\ Cardinality(kept) = Smaller(Cardinality(S), QUEUE_CAP - result_cnt)
        /\ result_cnt' = result_cnt + Cardinality(kept)
        /\ owed' = owed \ NamesOf(kept \cup Q)
  BY Zenon DEF EnqueueAnd
<1>2. Cardinality(kept) \in Nat /\ Cardinality(S) \in Nat
  BY FS_Subset, FS_CardinalityType, Zenon
<1>3. QUEUE_CAP \in Nat
  BY PackConstants DEF QUEUE_CAP
<1>4. Cardinality(S) = Cardinality(kept)
  BY <1>1, <1>2, <1>3 DEF Smaller
<1>5. kept = S
  BY <1>4, FS_Subset, Zenon
<1> QED BY <1>1, <1>5, Zenon

\* At most one batch is in assembly.
LEMMA AssemblyCount ==
  /\ IsFiniteSet(Assembling)
  /\ current = None => Assembling = {} /\ Cardinality(Assembling) = 0
  /\ current # None => Assembling = {current.item} /\ Cardinality(Assembling) = 1
<1>1. CASE current = None
  BY <1>1, FS_EmptySet, Zenon DEF Assembling
<1>2. CASE current # None
  BY <1>2, FS_Singleton, Zenon DEF Assembling
<1> QED BY <1>1, <1>2, Zenon

\* So its size is 0 or 1.
LEMMA AssemblySize == Cardinality(Assembling) \in 0..1
  BY AssemblyCount

\* The numbers of Room are naturals, and leave room for one result per record.
LEMMA RoomNumbers ==
  ASSUME Room
  PROVE  /\ result_cnt \in Nat /\ Cardinality(pending) \in Nat
         /\ Cardinality(scheduled) \in Nat /\ Cardinality(Assembling) \in 0..1
         /\ result_cnt + Cardinality(pending) + Cardinality(Assembling) <= WORK_MAX + 1
         /\ WORK_MAX + 1 <= QUEUE_CAP /\ WORK_MAX \in Nat /\ QUEUE_CAP \in Nat
<1>1. Cardinality(pending) \in Nat /\ Cardinality(scheduled) \in Nat
  BY FS_CardinalityType, Zenon DEF Room
<1>2. Cardinality(Assembling) \in 0..1
  BY AssemblySize, Zenon
<1>3. QUEUE_CAP \in Nat /\ WORK_MAX \in Nat /\ WORK_MAX + 1 <= QUEUE_CAP
  BY PackConstants DEF QUEUE_CAP
<1> QED BY <1>1, <1>2, <1>3, Zenon DEF Room

\* Pending records and the assembly together fit the queue, each with a result.
LEMMA AllFit ==
  ASSUME Room, NEW S \in SUBSET (pending \cup Assembling)
  PROVE  IsFiniteSet(S) /\ result_cnt + Cardinality(S) <= QUEUE_CAP
<1>1. /\ IsFiniteSet(pending \cup Assembling)
      /\ Cardinality(pending \cup Assembling)
           = Cardinality(pending) + Cardinality(Assembling) - Cardinality(pending \cap Assembling)
  BY AssemblyCount, FS_Union, Zenon DEF Room
<1>2. IsFiniteSet(pending \cap Assembling)
  <2>1. pending \cap Assembling \in SUBSET pending
    OBVIOUS
  <2> QED BY <2>1, FS_Subset, Zenon DEF Room
<1>3. IsFiniteSet(S) /\ Cardinality(S) <= Cardinality(pending \cup Assembling)
  BY <1>1, FS_Subset, Zenon
<1>4. /\ Cardinality(S) \in Nat /\ Cardinality(pending \cup Assembling) \in Nat
      /\ Cardinality(pending \cap Assembling) \in Nat
  BY <1>1, <1>2, <1>3, FS_CardinalityType, Zenon
<1> QED BY <1>1, <1>3, <1>4, RoomNumbers

\* So no result is dropped.
LEMMA NothingDropped ==
  ASSUME Room
  PROVE  /\ NoneDropped
         /\ \A S, Q : Fits(S) /\ EnqueueAnd(S, Q) => result_cnt' = result_cnt + Cardinality(S)
<1>1. ASSUME NEW S, NEW Q, Fits(S), EnqueueAnd(S, Q)
      PROVE  result_cnt' = result_cnt + Cardinality(S) /\ owed' = owed \ NamesOf(S \cup Q)
  <2>1. IsFiniteSet(S) /\ result_cnt + Cardinality(S) <= QUEUE_CAP
    <3>1. CASE S \in SUBSET (pending \cup Assembling)
      BY <3>1, AllFit, Zenon
    <3>2. CASE pc = "member" /\ S = {frag.item}
      <4>1. IsFiniteSet({frag.item}) /\ Cardinality({frag.item}) = 1
        BY FS_Singleton, Zenon
      <4>2. result_cnt + 1 <= QUEUE_CAP
        BY <3>2, RoomNumbers DEF Room, Drained
      <4> QED BY <3>2, <4>1, <4>2, Zenon
    <3> QED BY <1>1, <3>1, <3>2, Zenon DEF Fits
  <2>2. result_cnt \in Nat
    BY Zenon DEF Room
  <2> QED BY <1>1, <2>1, <2>2, Enqueued, Zenon
<1> QED BY <1>1, Zenon DEF NoneDropped

\* Giving up pending records leaves the sum of Room as it is.
LEMMA ShedRoom ==
  ASSUME Room, NEW bad \in SUBSET pending, pending' = pending \ bad, Enqueue(bad)
  PROVE  /\ IsFiniteSet(pending')
         /\ result_cnt' \in Nat /\ Cardinality(pending') \in Nat
         /\ result_cnt' + Cardinality(pending') = result_cnt + Cardinality(pending)
         /\ Cardinality(pending') <= Cardinality(pending)
<1>1. IsFiniteSet(bad) /\ Cardinality(bad) \in Nat
  BY FS_Subset, FS_CardinalityType, Zenon DEF Room
<1>2. IsFiniteSet(pending) /\ Cardinality(pending) \in Nat /\ result_cnt \in Nat
  BY RoomNumbers, Zenon DEF Room
<1>3. /\ IsFiniteSet(pending \ bad)
      /\ Cardinality(pending \ bad) = Cardinality(pending) - Cardinality(pending \cap bad)
  BY <1>2, FS_Difference, Zenon
<1>4. pending \cap bad = bad
  OBVIOUS
<1>5. IsFiniteSet(pending') /\ Cardinality(pending') = Cardinality(pending) - Cardinality(bad)
  BY <1>3, <1>4, Zenon
<1>6. Cardinality(pending') \in Nat
  BY <1>5, FS_CardinalityType, Zenon
<1>7. result_cnt' = result_cnt + Cardinality(bad)
  <2>1. Fits(bad) /\ EnqueueAnd(bad, {})
    BY Zenon DEF Fits, Enqueue
  <2> QED BY <2>1, NothingDropped, Zenon
<1> QED BY <1>1, <1>2, <1>5, <1>6, <1>7

\* A step that only gives up pending records keeps the pace.
LEMMA ShedKeepsRoom ==
  ASSUME Room, ShedStep
  PROVE  Room'
<1>1. /\ IsFiniteSet(pending') /\ result_cnt' \in Nat /\ Cardinality(pending') \in Nat
      /\ result_cnt' + Cardinality(pending') = result_cnt + Cardinality(pending)
      /\ Cardinality(pending') <= Cardinality(pending)
  <2>1. CASE UNCHANGED <<pending, result_cnt>>
    BY <2>1, RoomNumbers DEF Room
  <2>2. CASE \E bad \in SUBSET pending : pending' = pending \ bad /\ Enqueue(bad)
    BY <2>2, ShedRoom, Zenon
  <2> QED BY <2>1, <2>2, Zenon DEF ShedStep
<1>2. /\ IsFiniteSet(scheduled') /\ Cardinality(scheduled') <= Cardinality(scheduled)
      /\ Cardinality(scheduled') \in Nat
  BY FS_Subset, FS_CardinalityType, Zenon DEF ShedStep, Room
<1>3. Cardinality(Assembling)' = Cardinality(Assembling)
  BY Zenon DEF ShedStep
<1>4. Cardinality(pending') + Cardinality(scheduled') <= WORK_MAX
  BY <1>1, <1>2, RoomNumbers DEF Room
<1>5. result_cnt' + Cardinality(pending') + Cardinality(Assembling)' <= WORK_MAX + 1
  BY <1>1, <1>3, RoomNumbers, Zenon
<1>6. pc' \in Drained => result_cnt' + Cardinality(pending') <= WORK_MAX
  BY <1>1, Zenon DEF ShedStep, Room
<1> QED BY <1>1, <1>2, <1>4, <1>5, <1>6, Zenon DEF Room

\* Taking over a new generation only gives up records and the assembly.
LEMMA SyncFacts ==
  ASSUME Room, Sync
  PROVE  /\ pending' \subseteq pending /\ IsFiniteSet(pending')
         /\ Cardinality(pending') \in Nat /\ Cardinality(pending') <= Cardinality(pending)
         /\ Cardinality(Assembling)' \in 0..1
         /\ Cardinality(Assembling)' <= Cardinality(Assembling)
         /\ current' = current \/ current' = None
<1>1. pending' \subseteq pending /\ (current' = current \/ current' = None)
  BY Zenon DEF Sync, work
<1>2. /\ IsFiniteSet(pending') /\ Cardinality(pending') <= Cardinality(pending)
      /\ Cardinality(pending') \in Nat
  BY <1>1, FS_Subset, FS_CardinalityType, Zenon DEF Room
<1>3. CASE current' = None
  <2>1. Assembling' = {} /\ Cardinality({}) = 0
    BY <1>3, FS_EmptySet, Zenon DEF Assembling
  <2> QED BY <1>1, <1>2, <2>1, AssemblyCount
<1>4. CASE current' = current
  <2>1. Assembling' = Assembling
    BY <1>4, Zenon DEF Assembling
  <2> QED BY <1>1, <1>2, <2>1, AssemblyCount
<1> QED BY <1>1, <1>3, <1>4, Zenon

\* What admission adds to the counts: the records that go, but for those the batch
\* replaces, turn into results; the batch itself into a result or a record.
LEMMA AdmitCounts ==
  ASSUME Typed, Order, Room, NEW evicted \in SUBSET pool, NEW taken \in BOOLEAN,
         Admit(evicted, taken)
  PROVE  /\ IsFiniteSet(pending') /\ result_cnt' \in Nat /\ Cardinality(pending') \in Nat
         /\ Cardinality(pending') + Cardinality(scheduled) <= WORK_MAX
         /\ result_cnt' + Cardinality(pending') <= result_cnt + Cardinality(pending) + 1
<1>1. PICK old \in SUBSET pending, keep \in BOOLEAN : Admitted(evicted, old, keep)
  BY AdmitFacts, Zenon
<1> DEFINE i    == current.item
           rest == pending \ (old \cup evicted)
           lost == (pending \cap evicted) \ old
<1>2. /\ pending' = rest \cup IF keep THEN {i} ELSE {}
      /\ EnqueueAnd(lost \cup IF keep THEN {} ELSE {i}, old)
      /\ keep => ~NoRoom(rest, lost)
  BY <1>1, Zenon DEF Admitted
<1>3. rest \in SUBSET pending /\ lost \in SUBSET pending /\ rest \cap lost = {}
  OBVIOUS
<1>4. i \in Assembling
  BY MemberInHand, Zenon DEF Admit
<1> HIDE DEF i, rest, lost
<1>5. /\ IsFiniteSet(rest) /\ IsFiniteSet(lost)
      /\ Cardinality(rest) \in Nat /\ Cardinality(lost) \in Nat
  BY <1>3, FS_Subset, FS_CardinalityType, Zenon DEF Room
<1>6. Cardinality(rest) + Cardinality(lost) <= Cardinality(pending)
  <2>1. Cardinality(rest \cup lost) = Cardinality(rest) + Cardinality(lost) - Cardinality({})
    BY <1>3, <1>5, FS_Union, Zenon
  <2>2. Cardinality(rest \cup lost) <= Cardinality(pending)
    BY <1>3, FS_Subset, Zenon DEF Room
  <2>3. Cardinality({}) = 0
    BY FS_EmptySet, Zenon
  <2> QED BY <1>5, <2>1, <2>2, <2>3
<1>7. \A S : IsFiniteSet(S) => /\ IsFiniteSet(S \cup {i}) /\ Cardinality(S \cup {i}) \in Nat
                               /\ Cardinality(S \cup {i}) <= Cardinality(S) + 1
  <2> TAKE S
  <2> HAVE IsFiniteSet(S)
  <2>1. Cardinality(S) \in Nat
    BY FS_CardinalityType, Zenon
  <2>2. /\ IsFiniteSet(S \cup {i})
        /\ Cardinality(S \cup {i}) = IF i \in S THEN Cardinality(S) ELSE Cardinality(S) + 1
    BY FS_AddElement, Zenon
  <2> QED BY ONLY <2>1, <2>2
<1>8. \A S \in SUBSET (pending \cup Assembling) :
        EnqueueAnd(S, old) => result_cnt' = result_cnt + Cardinality(S)
  BY NothingDropped, Zenon DEF Fits
<1>9. CASE keep
  <2>1. pending' = rest \cup {i} /\ EnqueueAnd(lost, old)
    <3>1. lost \cup {} = lost
      OBVIOUS
    <3> QED BY <1>2, <1>9, <3>1, Zenon
  <2>2. result_cnt' = result_cnt + Cardinality(lost)
    BY <1>3, <1>8, <2>1, Zenon
  <2>3. /\ IsFiniteSet(pending') /\ Cardinality(pending') \in Nat
        /\ Cardinality(pending') <= Cardinality(rest) + 1
    BY <1>5, <1>7, <2>1, Zenon
  <2>4. Cardinality(rest) + Cardinality(scheduled) < WORK_MAX
    BY <1>2, <1>5, <1>9, RoomNumbers DEF NoRoom
  <2> QED BY <1>5, <1>6, <2>2, <2>3, <2>4, RoomNumbers
<1>10. CASE ~keep
  <2>1. pending' = rest /\ EnqueueAnd(lost \cup {i}, old)
    <3>1. rest \cup {} = rest
      OBVIOUS
    <3> QED BY <1>2, <1>10, <3>1, Zenon
  <2>2. result_cnt' = result_cnt + Cardinality(lost \cup {i})
    BY <1>3, <1>4, <1>8, <2>1, Zenon
  <2>3. Cardinality(lost \cup {i}) \in Nat /\ Cardinality(lost \cup {i}) <= Cardinality(lost) + 1
    BY <1>5, <1>7, Zenon
  <2>4. IsFiniteSet(pending') /\ Cardinality(pending') = Cardinality(rest)
    BY ONLY <1>5, <2>1
  <2>5. /\ result_cnt \in Nat /\ Cardinality(pending) \in Nat /\ Cardinality(scheduled) \in Nat
        /\ Cardinality(pending) + Cardinality(scheduled) <= WORK_MAX /\ WORK_MAX \in Nat
    BY RoomNumbers, Zenon DEF Room
  <2> QED BY ONLY <1>5, <1>6, <2>2, <2>3, <2>4, <2>5
<1> QED BY <1>9, <1>10, Zenon

\* No step outruns the drain.
LEMMA RoomNext ==
  ASSUME Typed, Order, Room, [Next]_vars
  PROVE  Room'
<1>n. /\ result_cnt \in Nat /\ Cardinality(pending) \in Nat
      /\ Cardinality(scheduled) \in Nat /\ Cardinality(Assembling) \in 0..1
      /\ result_cnt + Cardinality(pending) + Cardinality(Assembling) <= WORK_MAX + 1
      /\ WORK_MAX + 1 <= QUEUE_CAP /\ WORK_MAX \in Nat /\ QUEUE_CAP \in Nat
  BY RoomNumbers, Zenon
<1>f. /\ IsFiniteSet(pending) /\ IsFiniteSet(scheduled)
      /\ Cardinality(pending) + Cardinality(scheduled) <= WORK_MAX
  BY Zenon DEF Room
<1>p. pc \in Drained => result_cnt + Cardinality(pending) <= WORK_MAX
  BY Zenon DEF Room
<1>s. (Cardinality(Assembling) \in 0..1)'
  BY AssemblySize, PTL
<1>1. ASSUME UNCHANGED <<pc, current, pending, scheduled, result_cnt>> PROVE Room'
  <2>1. Assembling' = Assembling
    BY <1>1, Zenon DEF Assembling
  <2> QED BY <1>1, <1>n, <1>f, <1>p, <2>1, Zenon DEF Room
<1>2. CASE Shedding
  BY <1>2, SheddingSheds, ShedKeepsRoom, Zenon
<1>3. CASE AfterCredit
  <2>1. /\ Sync /\ pc = "credit" /\ UNCHANGED scheduled
        /\ result_cnt' = IF result_cnt > 0 THEN result_cnt - 1 ELSE result_cnt
    BY <1>3, Zenon DEF AfterCredit, DrainOne, done
  <2>2. /\ IsFiniteSet(pending') /\ Cardinality(pending') \in Nat
        /\ Cardinality(pending') <= Cardinality(pending)
        /\ Cardinality(Assembling)' \in 0..1
        /\ Cardinality(Assembling)' <= Cardinality(Assembling)
    BY <2>1, SyncFacts, Zenon
  <2> QED BY <2>1, <2>2, <1>n, <1>f DEF Room
<1>4. ASSUME NEW i \in pool, Schedule(i) PROVE Room'
  <2>1. /\ i \in pending /\ pc = "sched" /\ UNCHANGED result_cnt
        /\ pending' = pending \ {i} /\ scheduled' = scheduled \cup {i}
        /\ Assembling' = Assembling
    BY <1>4, Zenon DEF Schedule, CandidateReady, Assembling
  <2>2. IsFiniteSet(pending') /\ Cardinality(pending') = Cardinality(pending) - 1
    BY <2>1, <1>f, FS_RemoveElement, Zenon
  <2>3. IsFiniteSet(scheduled') /\ Cardinality(scheduled') <= Cardinality(scheduled) + 1
        /\ Cardinality(scheduled') \in Nat
    <3>1. /\ IsFiniteSet(scheduled \cup {i})
          /\ Cardinality(scheduled \cup {i})
               = IF i \in scheduled THEN Cardinality(scheduled) ELSE Cardinality(scheduled) + 1
      BY <1>f, FS_AddElement, Zenon
    <3> QED BY ONLY <2>1, <3>1, <1>n
  <2>4. pc \in Drained
    BY <2>1, Zenon DEF Drained
  <2> QED BY <2>1, <2>2, <2>3, <2>4, <1>n, <1>f, <1>p DEF Room
<1>5. ASSUME NEW failed \in BOOLEAN, ReceiveMember(failed) PROVE Room'
  <2>1. Sync /\ pc = "poll" /\ UNCHANGED <<scheduled, result_cnt>>
    BY <1>5, Zenon DEF ReceiveMember, done
  <2>2. /\ IsFiniteSet(pending') /\ Cardinality(pending') \in Nat
        /\ Cardinality(pending') <= Cardinality(pending)
        /\ Cardinality(Assembling)' \in 0..1
        /\ Cardinality(Assembling)' <= Cardinality(Assembling)
    BY <2>1, SyncFacts, Zenon
  <2>3. pc \in Drained
    BY <2>1, Zenon DEF Drained
  <2> QED BY <2>1, <2>2, <2>3, <1>n, <1>f, <1>p DEF Room
<1>m. pc = "member" => pc \in Drained /\ pc # "evict"
  BY Zenon DEF Drained
<1>v. "evict" \notin Drained /\ "credit" \notin Drained
  BY Zenon DEF Drained
<1>6. CASE StaleMember
  <2>1. pc = "member" /\ pc' = "evict" /\ UNCHANGED <<current, pending, scheduled, result_cnt>>
    BY <1>6, Zenon DEF StaleMember, work, done
  <2>2. Assembling' = Assembling
    BY <2>1, Zenon DEF Assembling
  <2> QED BY <2>1, <2>2, <1>n, <1>f, <1>v, Zenon DEF Room
<1>7. CASE FailedMember
  <2>1. /\ pc = "member" /\ pc' = "evict" /\ current' = None
        /\ Enqueue(Assembling \cup {frag.item}) /\ UNCHANGED <<pending, scheduled>>
    BY <1>7, Zenon DEF FailedMember, done
  <2>2. Assembling \cup {frag.item} = {frag.item}
    BY <2>1, MemberAssembly, Zenon
  <2>3. Fits({frag.item}) /\ EnqueueAnd({frag.item}, {})
    BY <2>1, <2>2, MemberAssembly, Zenon DEF Fits, Enqueue
  <2>4. result_cnt' = result_cnt + 1
    <3>1. Cardinality({frag.item}) = 1
      BY FS_Singleton, Zenon
    <3> QED BY <2>3, <3>1, NothingDropped, Zenon
  <2>5. Cardinality(Assembling)' = 0
    BY <2>1, FS_EmptySet, Zenon DEF Assembling
  <2> QED BY <2>1, <2>4, <2>5, <1>n, <1>f, <1>p, <1>m, <1>v DEF Room
<1>8. CASE FirstMember
  <2>1. /\ pc = "member" /\ pc' = "evict" /\ frag.idx = 0 /\ Enqueue(Assembling)
        /\ UNCHANGED <<pending, scheduled>> /\ frag \in Frags
        /\ current' = [item |-> frag.item, received |-> 0, open |-> TRUE,
                       expired |-> frag.expired]
    BY <1>8, Zenon DEF FirstMember, done, Order
  <2>2. Assembling = {} /\ Cardinality(Assembling) = 0
    <3>1. frag.idx \in Nat
      BY <2>1, Zenon DEF Frags
    <3>2. current = None
      BY <2>1, MemberAssembly, Zenon
    <3> QED BY <3>2, AssemblyCount, Zenon
  <2>3. result_cnt' = result_cnt
    <3>1. Fits(Assembling) /\ EnqueueAnd(Assembling, {})
      BY <2>1, Zenon DEF Fits, Enqueue
    <3>2. result_cnt' = result_cnt + Cardinality(Assembling)
      BY <3>1, NothingDropped, Zenon
    <3> QED BY <2>2, <3>2, <1>n
  <2>4. Cardinality(Assembling)' \in 0..1
    BY <1>s, Zenon
  <2> QED BY <2>1, <2>3, <2>4, <1>n, <1>f, <1>p, <1>m, <1>v, SMTT(60) DEF Room
<1>17. CASE BundleStep
  <2> DEFINE S == {i \in Assembling : current.open}
  <2>1. /\ pc' = "evict" /\ current' = None /\ Enqueue(S) /\ UNCHANGED <<pending, scheduled>>
    BY <1>17, Zenon DEF BundleStep, ReceiveBundle, done
  <2>2. S \in SUBSET Assembling
    OBVIOUS
  <2> HIDE DEF S
  <2>3. Cardinality(S) <= Cardinality(Assembling) /\ Cardinality(S) \in Nat
    BY <2>2, AssemblyCount, FS_Subset, FS_CardinalityType, Zenon
  <2>4. result_cnt' = result_cnt + Cardinality(S)
    <3>1. Fits(S) /\ EnqueueAnd(S, {})
      BY <2>1, <2>2, Zenon DEF Fits, Enqueue
    <3> QED BY <3>1, NothingDropped, Zenon
  <2>5. Cardinality(Assembling)' = 0
    BY <2>1, FS_EmptySet, Zenon DEF Assembling
  <2> QED BY <2>1, <2>3, <2>4, <2>5, <1>n, <1>f, <1>v DEF Room
<1>9. CASE NextMember
  <2>1. pc = "member" /\ pc' = "evict" /\ UNCHANGED <<pending, scheduled, result_cnt>>
    BY <1>9, Zenon DEF NextMember, done, queue
  <2>2. Cardinality(Assembling)' \in 0..1
    BY <1>s, Zenon
  <2> QED BY <2>1, <2>2, <1>n, <1>f, <1>p, <1>m, <1>v DEF Room
<1>10. CASE CountMember
  <2>1. /\ pc = "insert" /\ pc' = "credit" /\ frag \notin {None, Other}
        /\ UNCHANGED <<pending, scheduled, result_cnt>>
    BY <1>10, Zenon DEF CountMember, done, queue
  <2>2. Assembling = {current.item} /\ Cardinality(Assembling) = 1
    BY <2>1, MemberInHand, AssemblyCount, Zenon DEF Assembling
  <2>3. Cardinality(Assembling)' \in 0..1
    BY <1>s, Zenon
  <2> QED BY <2>1, <2>2, <2>3, <1>n, <1>f, <1>v DEF Room
<1>11. CASE Reject
  <2>1. /\ pc = "insert" /\ pc' = "credit" /\ frag \notin {None, Other} /\ current' = None
        /\ Enqueue({current.item}) /\ UNCHANGED <<pending, scheduled>>
    BY <1>11, Zenon DEF Reject, done
  <2>2. Assembling = {current.item} /\ Cardinality(Assembling) = 1
    BY <2>1, MemberInHand, AssemblyCount, Zenon DEF Assembling
  <2>3. result_cnt' = result_cnt + 1
    <3>1. Fits(Assembling) /\ EnqueueAnd(Assembling, {})
      BY <2>1, <2>2, Zenon DEF Fits, Enqueue
    <3> QED BY <2>2, <3>1, NothingDropped, Zenon
  <2>4. Cardinality(Assembling)' = 0
    BY <2>1, FS_EmptySet, Zenon DEF Assembling
  <2> QED BY <2>1, <2>2, <2>3, <2>4, <1>n, <1>f, <1>v DEF Room
<1>12. ASSUME NEW evicted \in SUBSET pool, NEW taken \in BOOLEAN, Admit(evicted, taken)
       PROVE  Room'
  <2>1. /\ pc = "insert" /\ pc' = "credit" /\ frag \notin {None, Other} /\ current' = None
        /\ UNCHANGED scheduled
    BY <1>12, Zenon DEF Admit, done
  <2>2. Cardinality(Assembling) = 1
    BY <2>1, MemberInHand, AssemblyCount, Zenon DEF Assembling
  <2>3. Cardinality(Assembling)' = 0
    BY <2>1, FS_EmptySet, Zenon DEF Assembling
  <2>4. /\ IsFiniteSet(pending') /\ result_cnt' \in Nat /\ Cardinality(pending') \in Nat
        /\ Cardinality(pending') + Cardinality(scheduled) <= WORK_MAX
        /\ result_cnt' + Cardinality(pending') <= result_cnt + Cardinality(pending) + 1
    BY <1>12, AdmitCounts, Zenon
  <2> QED BY <2>1, <2>2, <2>3, <2>4, <1>n, <1>f, <1>v DEF Room
<1>13. CASE Tick
  BY <1>1, <1>13, Zenon DEF Tick, work, done, queue
<1>14. CASE \E b \in Batches, n \in Names : Dispatch(b, n)
  BY <1>1, <1>14, Zenon DEF Dispatch, work, done
<1>15. CASE BeginGeneration
  BY <1>1, <1>15, Zenon DEF BeginGeneration, work, done, queue
<1>16. CASE UNCHANGED vars
  BY <1>1, <1>16, Zenon DEF vars, work, done, queue
<1> QED BY <1>2, <1>3, <1>4, <1>5, <1>6, <1>7, <1>8, <1>9, <1>10, <1>11, <1>12, <1>13,
           <1>14, <1>15, <1>16, <1>17 DEF Next, Shedding, BundleStep

-----------------------------------------------------------------------------
\* The theorems.

\* The invariant holds at the start.
LEMMA IInvInit == Init => IInv
<1> SUFFICES ASSUME Init PROVE IInv
  OBVIOUS
<1>1. RInv
  BY RInvInit, Zenon
<1>2. Room
  <2>1. IsFiniteSet({}) /\ Cardinality({}) = 0
    BY FS_EmptySet, Zenon
  <2> QED BY <2>1, PackConstants DEF Init, Room, Assembling, Drained
<1>3. Ledger
  BY Zenon DEF Init, Ledger, OnTheWay, NamesOf, Assembling
<1>4. Apart /\ OneRecordPerTransaction /\ owed \subseteq Names
  BY Zenon DEF Init, Apart, OneRecordPerTransaction
<1> QED BY <1>1, <1>2, <1>3, <1>4, Zenon DEF IInv

\* Every step keeps it.
LEMMA IInvNext == IInv /\ [Next]_vars => IInv'
<1> SUFFICES ASSUME IInv, [Next]_vars PROVE IInv'
  OBVIOUS
<1> USE DEF IInv, RInv
<1>1. RInv'
  BY RInvNext, Zenon
<1>2. Room' /\ NoneDropped
  BY RoomNext, NothingDropped, Zenon
<1>3. Ledger'
  BY <1>2, LedgerNext, Zenon
<1>4. Apart' /\ OneRecordPerTransaction'
  BY ApartNext, OneRecordNext, Zenon
<1>5. owed' \subseteq Names
  <2>1. CASE DispatchStep
    BY <2>1, Zenon DEF DispatchStep, Dispatch
  <2>2. CASE ~DispatchStep
    BY <2>2, OwedShrinks, Zenon
  <2> QED BY <2>1, <2>2, Zenon
<1> QED BY <1>1, <1>2, <1>3, <1>4, <1>5, Zenon

\* So it always holds.
THEOREM PackWorkInvariant == Spec => []IInv
  BY IInvInit, IInvNext, PTL DEF Spec

\* The state keeps its types; the count of queued results keeps within its cap.
THEOREM PackTyped == Spec => []TypeOK
<1>1. IInv => TypeOK
  <2> SUFFICES ASSUME IInv PROVE TypeOK
    OBVIOUS
  <2>1. result_cnt \in 0..QUEUE_CAP
    BY RoomNumbers DEF IInv
  <2> QED BY <2>1, Zenon DEF IInv, RInv, Typed, Shaped, Stored, TypeOK
<1> QED BY <1>1, PackWorkInvariant, PTL

\* The queue of results never fills, whatever the size of the work table:
\* pack_tile_enqueue_bam_result drops none.
THEOREM PackQueueBounded == Spec => []QueueBounded
<1>1. IInv => QueueBounded
  BY RoomNumbers, Zenon DEF IInv, QueueBounded
<1> QED BY <1>1, PackWorkInvariant, PTL

\* Every dispatch is in one place until pack answers it, schedules it, drops it
\* with its generation, or gives its assembly up to a Block Engine bundle; from
\* then on it is in none.
THEOREM PackAccounted == Spec => []Accounted
<1>1. IInv => Accounted
  <2> SUFFICES ASSUME Ledger, NEW n \in Names
               PROVE  Count(OnTheWay(n)) + Count(n \in NamesOf(Assembling))
                        + Count(n \in NamesOf(pending))
                        = IF n \in displaced THEN 0 ELSE Count(n \in owed)
    BY Zenon DEF IInv, Accounted
  <2>1. /\ n \in owed /\ n \notin displaced
             <=> OnTheWay(n) \/ n \in NamesOf(Assembling) \/ n \in NamesOf(pending)
        /\ OnTheWay(n) => n \notin NamesOf(Assembling) /\ n \notin NamesOf(pending)
        /\ ~(n \in NamesOf(Assembling) /\ n \in NamesOf(pending))
    BY Zenon DEF Ledger
  <2> QED BY <2>1 DEF Count
<1> QED BY <1>1, PackWorkInvariant, PTL

\* No two records wait for the result of one transaction.
THEOREM PackOneRecord == Spec => []OneRecordPerTransaction
<1>1. IInv => OneRecordPerTransaction
  BY Zenon DEF IInv
<1> QED BY <1>1, PackWorkInvariant, PTL

=============================================================================

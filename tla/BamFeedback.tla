---------------------------- MODULE BamFeedback ----------------------------
(***************************************************************************)
(* What the BAM tile promises of the results it owes a scheduler: a queue  *)
(* without duplicates whose elements go to the scheduler stream in the     *)
(* order they came, a message at a time.  Nothing is taken out in any      *)
(* other way, except that a new scheduler starts with an empty queue.      *)
(***************************************************************************)
EXTENDS Integers, Sequences

CONSTANTS
  Results,       \* results, identified by batch and scheduler generation
  MAX_RESULTS,   \* FD_BAM_MAX_PENDING_RESULTS
  PER_MESSAGE    \* FD_BAM_RESULTS_PER_MESSAGE

VARIABLES gen, queue, tx

vars == <<gen, queue, tx>>

NoDuplicates(s) == \A i, j \in 1..Len(s) : s[i] = s[j] => i = j

Init == gen \in Nat /\ queue = <<>> /\ tx = <<>>

\* Results are added at the end; some may be refused.
Offer ==
  /\ Len(queue') \in Len(queue)..MAX_RESULTS
  /\ queue = SubSeq(queue', 1, Len(queue))
  /\ NoDuplicates(queue')
  /\ UNCHANGED <<gen, tx>>

\* The stream accepts one message with the first results.
Send ==
  \E n \in 1..PER_MESSAGE :
    /\ n <= Len(queue)
    /\ tx' = tx \o SubSeq(queue, 1, n)
    /\ queue' = SubSeq(queue, n + 1, Len(queue))
    /\ UNCHANGED gen

\* The connection delivers what it accepted, or is lost with it.
Deliver == tx # <<>> /\ tx' = Tail(tx) /\ UNCHANGED <<gen, queue>>

Reset == tx' = <<>> /\ UNCHANGED <<gen, queue>>

NewScheduler == gen' # gen /\ queue' = <<>> /\ tx' = <<>>

Next == Offer \/ Send \/ Deliver \/ Reset \/ NewScheduler

Spec == Init /\ [][Next]_vars
=============================================================================

----------------------------- MODULE FiniteFacts -----------------------------
(***************************************************************************)
(* The facts about finite sets that BamResultsProofs counts with: its      *)
(* lemmas assume SetFacts, and it derives SetFacts from the theorems of    *)
(* the library before it states its result.                                *)
(***************************************************************************)
EXTENDS Integers, FiniteSets

FiniteSize ==
  \A S : IsFiniteSet(S) => Cardinality(S) \in Nat

FiniteInterval ==
  \A n \in Nat : IsFiniteSet(1..n)

FiniteSubset ==
  \A S, T : IsFiniteSet(S) /\ T \subseteq S =>
              IsFiniteSet(T) /\ Cardinality(T) <= Cardinality(S)

FiniteUnion ==
  \A S, T : IsFiniteSet(S) /\ IsFiniteSet(T) =>
              /\ IsFiniteSet(S \cup T)
              /\ Cardinality(S \cup T) = Cardinality(S) + Cardinality(T) - Cardinality(S \cap T)

FiniteEmpty ==
  IsFiniteSet({}) /\ Cardinality({}) = 0

FiniteOne ==
  \A x : IsFiniteSet({x}) /\ Cardinality({x}) = 1

FiniteAdd ==
  \A S, x : IsFiniteSet(S) =>
              /\ IsFiniteSet(S \cup {x})
              /\ Cardinality(S \cup {x}) = IF x \in S THEN Cardinality(S) ELSE Cardinality(S) + 1

FiniteRemove ==
  \A S, x : IsFiniteSet(S) =>
              /\ IsFiniteSet(S \ {x})
              /\ Cardinality(S \ {x}) = IF x \in S THEN Cardinality(S) - 1 ELSE Cardinality(S)

\* Moving numbers by m leaves as many.
FiniteMoved ==
  \A P \in SUBSET Nat : \A m \in Nat :
    IsFiniteSet(P) => /\ IsFiniteSet({i + m : i \in P})
                      /\ Cardinality({i + m : i \in P}) = Cardinality(P)

SetFacts ==
  /\ FiniteSize /\ FiniteInterval /\ FiniteSubset /\ FiniteUnion /\ FiniteEmpty
  /\ FiniteOne /\ FiniteAdd /\ FiniteRemove /\ FiniteMoved
==============================================================================

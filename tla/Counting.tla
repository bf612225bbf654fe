------------------------------ MODULE Counting ------------------------------
(***************************************************************************)
(* What proofs use of the sizes of finite sets.  HttpPoolProofs proves     *)
(* it (CountingHolds); a proof that assumes Counting does not have the     *)
(* theory of finite sets in its context.                                   *)
(***************************************************************************)
EXTENDS Integers, FiniteSets

In(x, S) == IF x \in S THEN 1 ELSE 0

SizesAreNumbers == \A S : IsFiniteSet(S) => Cardinality(S) \in Nat

EmptyIsZero ==
    /\ IsFiniteSet({}) /\ Cardinality({}) = 0
    /\ \A S : IsFiniteSet(S) => (Cardinality(S) = 0 <=> S = {})

SubsetsAreSmaller ==
    \A S : IsFiniteSet(S) =>
        \A T \in SUBSET S : IsFiniteSet(T) /\ Cardinality(T) <= Cardinality(S)

UnionsAreFinite == \A S, T : IsFiniteSet(S) /\ IsFiniteSet(T) => IsFiniteSet(S \cup T)

\* What adding or removing at most one element does to the size of a set
OneElementCounts ==
    \A A, B, s : IsFiniteSet(A) /\ A \ {s} = B \ {s} =>
        /\ Cardinality(A) \in Nat /\ Cardinality(B) \in Nat
        /\ Cardinality(B) = Cardinality(A) + In(s, B) - In(s, A)
        /\ s \in A => Cardinality(A) > 0
        /\ IsFiniteSet(B)

Counting ==
    /\ SizesAreNumbers /\ EmptyIsZero /\ SubsetsAreSmaller /\ UnionsAreFinite
    /\ OneElementCounts
=============================================================================

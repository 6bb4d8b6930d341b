----------------------------- MODULE Selection ------------------------------
(***************************************************************************)
(* The elements of a sequence that are in a set, in the order of the       *)
(* sequence.  Selected(s, T) is SelectSeq(s, LAMBDA x : x \in T); it is    *)
(* defined by counting instead of by recursion, so that it can be proved   *)
(* about.                                                                  *)
(***************************************************************************)
EXTENDS Integers, Sequences, FiniteSets

\* The number of elements of the set of numbers S up to i.
Rank(S, i) == Cardinality({j \in S : j <= i})

\* The k-th smallest element of S.
Nth(S, k) == CHOOSE i \in S : Rank(S, i) = k

Places(s, T) == {i \in DOMAIN s : s[i] \in T}
Selected(s, T) == [k \in 1 .. Cardinality(Places(s, T)) |-> s[Nth(Places(s, T), k)]]
=============================================================================

------------------------------ MODULE Selection -------------------------------
(* Array.prototype.filter, as a relation: SelectSeq without its recursion.   *)
EXTENDS Naturals, Sequences, FiniteSets

\* The one way to count through a finite set of indexes from the least up.
Counting(I) ==
    {f \in [1 .. Cardinality(I) -> I] :
        /\ \A i \in I : \E n \in DOMAIN f : f[n] = i
        /\ \A m, n \in DOMAIN f : m < n => f[m] < f[n]}

\* The elements of s at the indexes I, in their order: the set of that one sequence.
Selected(s, I) == {[n \in DOMAIN f |-> s[f[n]]] : f \in Counting(I)}
=============================================================================

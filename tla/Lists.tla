-------------------------------- MODULE Lists --------------------------------
(***************************************************************************)
(* What the kernel does to its lists and vectors beyond Append, Head and   *)
(* Tail.                                                                   *)
(***************************************************************************)
EXTENDS Naturals, Sequences

Has(s, e) == \E i \in 1 .. Len(s) : s[i] = e

Distinct(s) == \A i, j \in 1 .. Len(s) : s[i] = s[j] => i = j

\* where the elements of s that are in S are
Kept(s, S) == {i \in 1 .. Len(s) : s[i] \in S}

\* the numbers in K, at most n of them, in increasing order: there is one such list
Ascending(K, n) ==
    UNION {{f \in [1 .. m -> K] : /\ \A i, j \in 1 .. m : i < j => f[i] < f[j]
                                 /\ \A k \in K : \E i \in 1 .. m : f[i] = k} : m \in 0 .. n}

\* retain: the list of the elements of s that are in S, in their order.  It is SelectSeq,
\* given as the only member of a set rather than by recursion.
Retained(s, S) == {[i \in DOMAIN f |-> s[f[i]]] : f \in Ascending(Kept(s, S), Len(s))}
=============================================================================

------------------------------ MODULE Ordering ------------------------------
(***************************************************************************)
(* A finite set as the sequence of its members in an order, and part of a     *)
(* sequence.  Orders and parts are sets, so that facts can be stated for all. *)
(***************************************************************************)
EXTENDS Integers, Sequences, FiniteSets

\* The members of S as R orders them: each has i - 1 of S before it.
SortedBy(S, R) ==
    [i \in 1..Cardinality(S) |->
        CHOOSE p \in S : Cardinality({q \in S : <<q, p>> \in R}) = i - 1]

\* ... as their rank orders them.
Ascending(S, rank) == SortedBy(S, {e \in S \X S : rank[e[1]] < rank[e[2]]})

\* The members of s at the places T, in the order of s.
Kept(s, T) ==
    LET at == Ascending(T, [i \in T |-> i])
    IN  [k \in 1..Cardinality(T) |-> s[at[k]]]

=============================================================================

------------------------------ MODULE StableOrder ------------------------------
(***************************************************************************)
(* Lists that are filtered or sorted, as filter and the stable sort of the *)
(* language do it.  The order is defined by counting what is before each   *)
(* element, of which more can be proved than of a recursion over the list. *)
(***************************************************************************)
EXTENDS Integers, Sequences, FiniteSets

\* The list itself.  TLC computes the elements of a concatenation once, those of a
\* function constructor whenever they are used.
Computed(list) == list \o <<>>

\* The members of a finite set in a strict order: the k-th has k - 1 before it.
InOrder(S, before) ==
  Computed([k \in 1..Cardinality(S) |->
              CHOOSE x \in S : Cardinality({y \in S : <<y, x>> \in before}) = k - 1])

\* The elements of s at the indices in I, in the order of s.
Pick(s, I) ==
  LET order == InOrder(I, {p \in I \X I : p[1] < p[2]})
  IN  Computed([k \in DOMAIN order |-> s[order[k]]])

\* The elements of s by increasing rank, those of one rank in the order of s.
SortedBy(s, rank) ==
  LET I     == DOMAIN s
      order == InOrder(I, {p \in I \X I : \/ rank[p[1]] < rank[p[2]]
                                          \/ rank[p[1]] = rank[p[2]] /\ p[1] < p[2]})
  IN  Computed([k \in DOMAIN order |-> s[order[k]]])
=============================================================================

------------------------------ MODULE Ordering ------------------------------
(***************************************************************************)
(* The members of a finite set one after the other, in the order of a      *)
(* relation: what a loop over them, or a filtered copy of a list, gives.   *)
(* SelectSeq and SortSeq say the same, but nothing can be proved about     *)
(* them: the prover knows no definition of the one, and of the other only  *)
(* TLC has one.                                                            *)
(***************************************************************************)
EXTENDS Integers, Sequences, FiniteSets

\* How many members of S come before e; R is a set of pairs.
Rank(S, R, e) == Cardinality({f \in S : <<f, e>> \in R})

Listed(S, R) ==
  [i \in 1..Cardinality(S) |-> CHOOSE e \in S : Rank(S, R, e) = i - 1]

\* The numbers of S from the least to the greatest.
Less(S) == {p \in S \X S : p[1] < p[2]}
Ascending(S) == Listed(S, Less(S))

\* The elements of s at the positions at.
Pick(s, at) == [i \in DOMAIN at |-> s[at[i]]]
=============================================================================

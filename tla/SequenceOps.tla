---------------------------- MODULE SequenceOps ----------------------------
(***************************************************************************)
(* Operators on sequences, written as recursive functions so that the      *)
(* lemmas of SequenceLemmas can be proved about them.                      *)
(***************************************************************************)
EXTENDS Naturals, Sequences

\* The elements of s that are in S, in order; OnlyOf(s, S)[i] are those among
\* the first i.
OnlyOf(s, S) ==
  LET only[i \in 0..Len(s)] ==
        IF i = 0 THEN <<>>
        ELSE IF s[i] \in S THEN Append(only[i - 1], s[i]) ELSE only[i - 1]
  IN only

Only(s, S) == OnlyOf(s, S)[Len(s)]
=============================================================================

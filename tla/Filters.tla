------------------------------ MODULE Filters ------------------------------
(***************************************************************************)
(* What a filter leaves of a sequence.  SelectSeq says the same of a test  *)
(* that is an operator; here the test is a set and the definition a        *)
(* recursive function, of which QueueLemmas proves how it is computed.     *)
(***************************************************************************)
EXTENDS Naturals, Sequences

\* The elements of s that are in S, in the order of s.
Filtered(s, S) ==
  LET first[n \in 0..Len(s)] ==
        IF n = 0 THEN <<>>
        ELSE IF s[n] \in S THEN Append(first[n - 1], s[n])
        ELSE first[n - 1]
  IN  first[Len(s)]
=============================================================================

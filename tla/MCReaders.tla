------------------------------- MODULE MCReaders -------------------------------
(* Two products on two sinks, two mirrors of the documents, three of the artifact. *)
EXTENDS Readers, TLC

CONSTANTS p, q, s1, s2, a, b, u1, u2, u3

MCServiceLists == {{a, b}}

Symmetry == Permutations({a, b})

=============================================================================

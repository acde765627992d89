---------------------------- MODULE MCAdministration ----------------------------
(* Two requests at a time, two of everything they may confuse.  The tasks share
   no state, so that the sets of one may hold the values of another's, and one
   small group of permutations does for all. *)
EXTENDS Administration, TLC

CONSTANTS r1, r2, b1, b2, c1, c2, t1, t2, q1, old, new

(* What an operator upgrades at once. *)
MCUpgrades == {{"store"}, {"agent"}, {"console"}}

(* No action tells the members of these sets apart. *)
AdministrationSymmetry ==
    UNION {Permutations(S) : S \in {Requests, Backends, Channels, Tokens}}

=============================================================================

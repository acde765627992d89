--------------------------- MODULE MCReleasePublish ---------------------------
(* Small instances of ReleasePublish for TLC. *)
EXTENDS ReleasePublish, TLC

CONSTANTS b1, b2

(* Every request names every backend. *)
AllTargets == {Backends}
(* The "to" list of a request may name any of them. *)
AnyTargets == (SUBSET Backends) \ {{}}

(* The backends are interchangeable. *)
BackendSymmetry == Permutations(Backends)

(* Three releases of one channel, in code order. *)
LineBuilds   == {"x1", "x2", "x3"}
PairBuilds   == {"x1", "x2"}
LineVersions == {"v1", "v2", "v3"}
OneChannel   == {"stable"}
LineVersion  == [x \in Builds |-> CASE x = "x1" -> "v1" [] x = "x2" -> "v2" [] x = "x3" -> "v3"]
LineCode     == [x \in Builds |-> CASE x = "x1" -> 1 [] x = "x2" -> 2 [] x = "x3" -> 3]
LineMinFrom  == [x \in Builds |-> 0]
LineChannel  == [x \in Builds |-> "stable"]
(* The third release carries the artifact of the first one again. *)
LineBlobs    == {"p", "q"}
LineBlob     == [x \in Builds |-> IF x = "x2" THEN "q" ELSE "p"]
(* All releases carry one artifact. *)
SameBlob     == [x \in Builds |-> "p"]

(* Two channels; the beta release shares its artifact with a stable one. *)
TwoChannels   == {"stable", "beta"}
SharedChannel == [x \in Builds |-> IF x = "x2" THEN "beta" ELSE "stable"]
SharedBlob    == [x \in Builds |-> IF x = "x3" THEN "q" ELSE "p"]
=============================================================================

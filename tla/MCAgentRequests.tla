--------------------------- MODULE MCAgentRequests ---------------------------
(* Small instances of AgentRequests for TLC. *)
EXTENDS AgentRequests

(* A build of each of two versions. *)
TwoVersions  == {"v1", "v2"}
TwoTrees     == {"a", "c"}
TreeVersion  == [t \in Trees |-> IF t = "c" THEN "v2" ELSE "v1"]
TreeCode     == [t \in Trees |-> IF t = "c" THEN 2 ELSE 1]
=============================================================================

---------------------------- MODULE MCInstallModes ----------------------------
(* Two trees over three paths, three bundles, four versions in three names. *)
EXTENDS InstallModes, TLC

CONSTANTS a, b, c, r1, r2, r3, x1, x2, p1, p2, p3, p4

MCPaths == {a, b, c}
MCReleases == {r1, r2}

(* From r1 to r2 a changes, b and c go; c is to be preserved. *)
MCTable ==
    r1 :> (a :> x1 @@ b :> x1 @@ c :> x1)
 @@ r2 :> (a :> x2 @@ b :> None @@ c :> None)

MCPlans == {p1, p2, p3, p4}

(* The fourth release was given the version string of the first. *)
MCId   == p1 :> a @@ p2 :> b @@ p3 :> c @@ p4 :> a
MCCode == p1 :> 1 @@ p2 :> 2 @@ p3 :> 3 @@ p4 :> 4

=============================================================================

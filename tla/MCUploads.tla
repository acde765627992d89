------------------------------- MODULE MCUploads -------------------------------
(* Two jobs stage the same archive in two parts, or two releases that share
   their large blob; or they build one version, for darwin and windows, as a tree or a
   sealed bundle with links. *)
EXTENDS Uploads, TLC

CONSTANTS v1, t1, t2, c1, c2, u1, u2, u3, a1, p1, p2, large, small

OneArchive == c1 :> a1 @@ c2 :> a1
BlobsOf    == c1 :> {large, small} @@ c2 :> {large}
OneVersion == c1 :> v1 @@ c2 :> v1
Packed     == <<[as |-> "tree", links |-> FALSE, plist |-> FALSE, preserve |-> TRUE],
                [as |-> "bundle", links |-> TRUE, plist |-> TRUE, preserve |-> FALSE]>>
Systems    == t1 :> [apply |-> None, os |-> None, osArch |-> [os |-> "darwin", dashed |-> TRUE]]
           @@ t2 :> [apply |-> None, os |-> "windows", osArch |-> None]
Sizes == 1 .. 14
=============================================================================

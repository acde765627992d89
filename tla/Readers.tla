-------------------------------- MODULE Readers --------------------------------
(***************************************************************************)
(* Those who work with what the planes of a box serve, without a lock on    *)
(* it: the rebuild of the site, the check of an installed program with the  *)
(* choice of a target from an index, the download of the artifact that was  *)
(* chosen, the verification that ends a release, and the pages of the       *)
(* panel.  They share no state, so that a behaviour follows one of them.    *)
(* The parameters of the modules and what is assumed of them are declared   *)
(* here.                                                                    *)
(***************************************************************************)
EXTENDS Naturals, FiniteSets

CONSTANTS
    None,
    Products, Sinks, Shelf, MaxDocs,                                 \* site
    Backends, ServiceLists, MaxJobs,                                 \* check
    Codes, MaxVersions,                                              \* target
    Mirrors, Honest, Ranged, Size, Retries, Workers, MaxErrors, MaxCrashes,  \* artifact
    MaxDefects, MaxChanges,                                          \* release
    Names, Pages, MaxBearers, MaxPanelFaults                         \* panel

ASSUME ShelfAssumption == Shelf \subseteq Products /\ MaxDocs \in Nat \ {0}
ASSUME ServiceListsAssumption == ServiceLists \subseteq (SUBSET Backends) \ {{}}
ASSUME CodesAssumption == Codes \subseteq Nat /\ 0 \in Codes /\ MaxVersions \in Nat
ASSUME MirrorsAssumption ==
    IsFiniteSet(Mirrors) /\ Honest \subseteq Mirrors /\ Ranged \subseteq Mirrors
ASSUME PolicyAssumption == Retries \in Nat \ {0} /\ Workers \in Nat \ {0, 1}
ASSUME ReleaseAssumption ==
    Backends # {} /\ None \notin Backends /\ MaxDefects \in Nat /\ MaxChanges \in Nat
ASSUME PanelAssumption ==
    None \notin Names /\ MaxBearers \in Nat /\ MaxPanelFaults \in Nat

VARIABLES
    reader,
    docs, configured, shown, recorded, members, pass, promised,
    directory, index, job, jobs, saved, seen, check, answer,
    versions, minSupported,
    part, meta, dest, phase, urls, attempt, todo, listed, getting, writing, failed,
    late, resumed, errors, crashes,
    served, renamed, verifier, findings, defects, changes,
    panelKey, cookie, page, call, accounts, bootstrapLive, opened, bearers, panelFaults

Site     == INSTANCE SiteRebuild
Check    == INSTANCE InProcessClient
Target   == INSTANCE ChainIndexes
Artifact == INSTANCE ArtifactDownload
Release  == INSTANCE ReleasedVerification
Console  == INSTANCE Panel

ASSUME DocumentAssumption == None \notin Check!Document
ASSUME ProgressAssumption == None \notin Release!Progress

siteVars     == <<docs, configured, shown, recorded, members, pass, promised>>
checkVars    == <<directory, index, job, jobs, saved, seen, check, answer>>
targetVars   == <<versions, minSupported>>
artifactVars == <<part, meta, dest, phase, urls, attempt, todo, listed, getting, writing,
                  failed, late, resumed, errors, crashes>>
releaseVars  == <<served, renamed, verifier, findings, defects, changes>>
panelVars    == <<panelKey, cookie, page, call, accounts, bootstrapLive, opened, bearers,
                  panelFaults>>

(* Of the last two, the one that is not followed is left out of the state. *)
NoRelease ==
    /\ served = None /\ renamed = None /\ verifier = None /\ findings = None
    /\ defects = None /\ changes = None

NoPanel ==
    /\ panelKey = None /\ cookie = None /\ page = None /\ call = None /\ accounts = None
    /\ bootstrapLive = None /\ opened = None /\ bearers = None /\ panelFaults = None

Init ==
    /\ reader \in {"site", "check", "target", "artifact", "release", "panel"}
    /\ Site!SiteInit /\ Check!CheckInit /\ Target!Init /\ Artifact!DownloadInit
    /\ IF reader = "release" THEN Release!VerifyInit ELSE NoRelease
    /\ IF reader = "panel" THEN Console!PanelInit ELSE NoPanel

RebuildSite ==
    /\ reader = "site"
    /\ Site!SiteNext
    /\ UNCHANGED <<reader, checkVars, targetVars, artifactVars, releaseVars, panelVars>>

CheckForUpdate ==
    /\ reader = "check"
    /\ Check!CheckNext
    /\ UNCHANGED <<reader, siteVars, targetVars, artifactVars, releaseVars, panelVars>>

GrowIndex ==
    /\ reader = "target"
    /\ Target!Next
    /\ UNCHANGED <<reader, siteVars, checkVars, artifactVars, releaseVars, panelVars>>

FetchArtifact ==
    /\ reader = "artifact"
    /\ Artifact!DownloadNext
    /\ UNCHANGED <<reader, siteVars, checkVars, targetVars, releaseVars, panelVars>>

VerifyRelease ==
    /\ reader = "release"
    /\ Release!VerifyNext
    /\ UNCHANGED <<reader, siteVars, checkVars, targetVars, artifactVars, panelVars>>

UsePanel ==
    /\ reader = "panel"
    /\ Console!PanelNext
    /\ UNCHANGED <<reader, siteVars, checkVars, targetVars, artifactVars, releaseVars>>

Next == RebuildSite \/ CheckForUpdate \/ GrowIndex \/ FetchArtifact \/ VerifyRelease
    \/ UsePanel

vars == <<reader, siteVars, checkVars, targetVars, artifactVars, releaseVars, panelVars>>

Spec == Init /\ [][Next]_vars

-----------------------------------------------------------------------------
(* Properties: those of the modules. *)

(* The state of each reader keeps its type. *)
TypeOK == Site!SiteOK /\ Check!CheckOK /\ Artifact!DownloadOK

(* No page that is deployed lacks a product which the last reported page had,
   as long as it is registered and the shelf is not emptied on purpose
   (guardCompleteSnapshot, writeMembers). *)
ShelfKeeps == Site!ShelfKeeps

(* A check that could fetch what it asked for finds a directory and an index
   that are not older than what it has seen (loadDirectory, checkIndex). *)
CheckAnswers == Check!CheckAnswers

(* Refusal, warning and start codes say exactly which clients of an index no
   chain of legal installs leads to its head (ValidateReachability). *)
VerdictIsExact == Target!VerdictIsExact

(* A download ends with the artifact in its place, and fails only if no mirror
   is honest or the errors outnumber the retries (DownloadArtifact). *)
EndsWithArtifact == Artifact!EndsWithArtifact

(* A release that is answered as verified is served everywhere, and is refused
   only for a reason (RunReleased). *)
VerdictHolds == reader = "release" => Release!VerdictHolds

(* A write is done by the user that its page shows, or by nobody
   (requireAPIAuth). *)
ActsAsShown == reader = "panel" => Console!ActsAsShown

=============================================================================

----------------------------- MODULE InstallModes -----------------------------
(***************************************************************************)
(* The three ways in which the updater's worker writes a release           *)
(* (internal/updater/bundle.go layoutFor, pipeline.go applyPlan): an open  *)
(* directory is reconciled, a bundle is replaced, a library gains a        *)
(* version.  An install root has one placement and unit for good: a payload *)
(* of the other unit is refused before anything is written.  The parameters *)
(* of the three and what is assumed of them are declared here.              *)
(***************************************************************************)
EXTENDS Naturals, FiniteSets

CONSTANTS
    None,
    Paths, Releases, Contents, Table, Preserved, Mine, Torn,   \* open directory
    Bundles,                                                   \* bundle
    Plans, Ids, Id, Code, Retain, Reserved                     \* library

ASSUME TreeAssumption ==
    /\ Table \in [Releases -> [Paths -> Contents \cup {None}]]
    /\ Preserved \subseteq Paths
    /\ {Mine, Torn, None} \cap Contents = {} /\ Mine # Torn /\ Mine # None /\ Torn # None
    /\ "none" \notin Contents \cup {Mine, Torn, None}

ASSUME BundleAssumption ==
    None \notin Bundles \cup [release : Bundles \cup {None}, whole : BOOLEAN]

ASSUME LibraryAssumption ==
    /\ Id \in [Plans -> Ids] /\ Code \in [Plans -> Nat \ {0}]
    /\ \A p, q \in Plans : Code[p] = Code[q] => p = q
    /\ Retain \in Nat \ {0}
    /\ None \notin Ids \cup Plans

VARIABLES
    unit, placement,                                           \* of the install root
    disk, baseline, step, release, left, journal, before, stuck, ended,
    target, partial, old, place, planned,
    version, building, active, running, stage, plan, only, excess, dangling

Tree    == INSTANCE TreeInstall
Bundle  == INSTANCE BundleInstall WITH Releases <- Bundles
Library == INSTANCE LibraryInstall

root == <<unit, placement>>

treeVars    == <<disk, baseline, step, release, left, journal, before, stuck, ended>>
bundleVars  == <<target, partial, old, place, planned>>
libraryVars == <<version, building, active, running, stage, plan, only, excess, dangling>>

Units      == {"TREE", "BUNDLE"}
Placements == {"IN_PLACE", "LIBRARY"}

(* How content is written and how it is switched to. *)
layoutFor ==
    IF placement = "LIBRARY" THEN [write |-> "fresh", switch |-> "pointer"]
    ELSE IF unit = "BUNDLE"  THEN [write |-> "fresh", switch |-> "rename"]
    ELSE                          [write |-> "reconcile", switch |-> "none"]

Reconciles == layoutFor.write = "reconcile"
Swaps      == layoutFor.switch = "rename"
Points     == layoutFor.switch = "pointer"

(* What is not in use is as good as absent. *)
Init ==
    /\ unit \in Units /\ placement \in Placements
    /\ Tree!TreeInit /\ Bundle!BundleInit /\ Library!LibraryInit
    /\ ~Reconciles => disk = [p \in Paths |-> None] /\ release = CHOOSE r \in Releases : TRUE
    /\ ~Swaps => target.release = CHOOSE r \in Bundles : TRUE
    /\ ~Points => active = Library!NoActive /\ plan = CHOOSE p \in Plans : TRUE

applyReconcile ==
    /\ Reconciles
    /\ Tree!TreeNext
    /\ UNCHANGED <<root, bundleVars, libraryVars>>

applySwap ==
    /\ Swaps
    /\ Bundle!BundleNext
    /\ UNCHANGED <<root, treeVars, libraryVars>>

applyLibrary ==
    /\ Points
    /\ Library!LibraryNext
    /\ UNCHANGED <<root, treeVars, bundleVars>>

Next == applyReconcile \/ applySwap \/ applyLibrary

vars == <<root, treeVars, bundleVars, libraryVars>>

Spec == Init /\ [][Next]_vars

-----------------------------------------------------------------------------
(* Properties: those of the three modules. *)

(* The state of each layout keeps its type. *)
TypeOK ==
    /\ unit \in Units /\ placement \in Placements
    /\ Tree!TreeOK /\ Bundle!BundleOK /\ Library!LibraryOK

(* A completed reconcile leaves the release and the files of the user, a
   rolled back one what it found, and no step on the way touches a file that is
   only the user's (applyReconcile, baselineOwns, rollbackJournal). *)
TreeHolds == []Tree!EndsOldOrNew /\ Tree!UserFilesKept

(* A bundle is whole at every moment and replaced in one step, the promise of
   module Installation (applySwap, exchange, recoverSwap). *)
ReplacedAtOnce == Bundle!ReplacedAtOnce

(* The pointer of a library names a version that is there, whole, and pruning
   removes no version that is active, used or to go back to (rollbackActive,
   applyLibrary, pruneVersions). *)
LibraryHolds == []Library!ActiveIsInstalled /\ Library!PruneKeeps

=============================================================================

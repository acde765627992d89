----------------------------- MODULE BundleInstall -----------------------------
(***************************************************************************)
(* A bundle replaced in place (internal/updater/bundle.go applySwap,       *)
(* exchange, recoverSwap, detectInPlaceUnit; pipeline.go materializeFresh; *)
(* the checks of apply.go handleApply that come first).                    *)
(*                                                                         *)
(* The new bundle is built in the hidden sibling "partial" of the target,  *)
(* verified and exchanged with it: in one step where the file system can,  *)
(* else by two renames through the sibling "old".  Every file operation    *)
(* may fail and the worker may die at any point; nothing but the three     *)
(* siblings tells the next apply what happened.                            *)
(*                                                                         *)
(* Abstractions.  A directory is the release it was made of and whether    *)
(* all of it is there; building and deleting are not atomic.  One session  *)
(* at a time is under way, which the lock is for (module ApplySession); it *)
(* then never starts without a bundle at the target.                       *)
(***************************************************************************)
CONSTANTS
    Releases,
    None

VARIABLES
    target,   \* what is at install_root
    partial,  \* what is at .<name>.relkit-partial
    old,      \* what is at .<name>.relkit-old
    place,    \* where the worker is
    planned   \* the release of the apply under way, or None

bundle == <<target, partial, old, place, planned>>

Whole(r)  == [release |-> r, whole |-> TRUE]
Pieces(r) == [release |-> r, whole |-> FALSE]
NoBundle  == [release |-> None, whole |-> FALSE]   \* a directory without a bundle
Dirs      == {None, NoBundle} \cup [release : Releases, whole : BOOLEAN]

Places == {"idle", "restore", "sweepOld", "sweepPartial", "check", "build", "fill",
           "exchange", "clearOld", "aside", "inside", "giveUp", "commitPartial", "commitOld"}

BundleInit ==
    /\ target \in {Whole(r) : r \in Releases}
    /\ partial = None /\ old = None
    /\ place = "idle"
    /\ planned = None

-----------------------------------------------------------------------------
(* handleApply: detectInPlaceUnit takes a root without a bundle for an open
   directory; the write probe creates it, and the unit of the payload does not
   match (checkInPlaceUnit). *)

Accepted(r) ==
    /\ place = "idle"
    /\ target \notin {None, NoBundle}
    /\ place' = "restore"
    /\ planned' = r
    /\ UNCHANGED <<target, partial, old>>

Refused ==
    /\ place = "idle"
    /\ target \in {None, NoBundle}
    /\ target' = NoBundle
    /\ UNCHANGED <<partial, old, place, planned>>

-----------------------------------------------------------------------------
Move(to) == place' = to /\ UNCHANGED planned

(* The worker ends the session, however it went. *)
Ends == place' = "idle" /\ planned' = None

(* os.RemoveAll of a directory that may be there: it is gone, or part of it
   stays behind. *)
Rest(dir) == IF dir = None THEN None ELSE [dir EXCEPT !.whole = FALSE]

(* recoverSwap. *)
Restore ==
    /\ place = "restore"
    /\ \/ /\ target = None /\ old # None
          /\ target' = old /\ old' = None
          /\ Move("sweepOld")
       \/ /\ target # None \/ old = None
          /\ Move("sweepOld")
          /\ UNCHANGED <<target, old>>
       \/ /\ target = None /\ old # None        \* INCOMPLETE
          /\ Ends
          /\ UNCHANGED <<target, old>>
    /\ UNCHANGED partial

SweepOld ==
    /\ place = "sweepOld"
    /\ \/ target = None /\ Move("sweepPartial") /\ UNCHANGED old
       \/ target # None /\ old' = None /\ Move("sweepPartial")
       \/ target # None /\ old' = Rest(old) /\ Ends
    /\ UNCHANGED <<target, partial>>

SweepPartial ==
    /\ place = "sweepPartial"
    /\ \/ partial' = None /\ Move("check")
       \/ partial' = Rest(partial) /\ Ends
    /\ UNCHANGED <<target, old>>

Check ==
    /\ place = "check"
    /\ IF target = None THEN Ends ELSE Move("build")
    /\ UNCHANGED <<target, partial, old>>

(* materializeFresh: the directory, the scripts, the entries, the signature. *)
Build ==
    /\ place = "build"
    /\ partial' = Pieces(planned)
    /\ Move("fill")
    /\ UNCHANGED <<target, old>>

Fill ==
    /\ place = "fill"
    /\ \/ partial' = Whole(planned) /\ Move("exchange")
       \/ UNCHANGED partial /\ Move("giveUp")
    /\ UNCHANGED <<target, old>>

(* swapDirs, or the way through the sibling. *)
Exchange ==
    /\ place = "exchange"
    /\ \/ /\ target' = partial /\ partial' = target
          /\ Move("commitPartial")
       \/ /\ Move("clearOld")
          /\ UNCHANGED <<target, partial>>
    /\ UNCHANGED old

ClearOld ==
    /\ place = "clearOld"
    /\ \/ old' = None /\ Move("aside")
       \/ old' = Rest(old) /\ Move("giveUp")
    /\ UNCHANGED <<target, partial>>

Aside ==
    /\ place = "aside"
    /\ \/ /\ old' = target /\ target' = None
          /\ Move("inside")
       \/ Move("giveUp") /\ UNCHANGED <<target, old>>
    /\ UNCHANGED partial

(* Mutant: a rename that fails leaves the old bundle aside and removes it. *)
Inside_OldDropped ==
    /\ place = "inside"
    /\ \/ /\ target' = partial /\ partial' = None
          /\ Move("commitPartial")
       \/ Move("commitPartial") /\ UNCHANGED <<target, partial>>
    /\ UNCHANGED old

(* The second rename; when it fails the old bundle goes back, and when that
   fails too the error says INCOMPLETE. *)
Inside ==
    /\ place = "inside"
    /\ \/ /\ target' = partial /\ partial' = None
          /\ Move("commitPartial")
          /\ UNCHANGED old
       \/ /\ target' = old /\ old' = None
          /\ Move("giveUp")
          /\ UNCHANGED partial
       \/ /\ Move("giveUp")
          /\ UNCHANGED <<target, partial, old>>

(* What was built is removed, as far as it goes. *)
GiveUp ==
    /\ place = "giveUp"
    /\ partial' \in {None, Rest(partial)}
    /\ Ends
    /\ UNCHANGED <<target, old>>

(* Commit: whichever sibling holds the old bundle is removed. *)
CommitPartial ==
    /\ place = "commitPartial"
    /\ partial' \in {None, Rest(partial)}
    /\ Move("commitOld")
    /\ UNCHANGED <<target, old>>

CommitOld ==
    /\ place = "commitOld"
    /\ old' \in {None, Rest(old)}
    /\ Ends
    /\ UNCHANGED <<target, partial>>

(* Between two operations, or within the one that deletes a sibling. *)
WorkerDies ==
    /\ place # "idle"
    /\ Ends
    /\ partial' \in {partial} \cup
           (IF place \in {"sweepPartial", "giveUp", "commitPartial"} THEN {Rest(partial)} ELSE {})
    /\ old' \in {old} \cup
           (IF place \in {"clearOld", "commitOld"} \/ (place = "sweepOld" /\ target # None)
            THEN {Rest(old)} ELSE {})
    /\ UNCHANGED target

BundleNext ==
    \/ \E r \in Releases : Accepted(r)
    \/ Refused
    \/ Restore \/ SweepOld \/ SweepPartial \/ Check \/ Build \/ Fill
    \/ Exchange \/ ClearOld \/ Aside \/ Inside \/ GiveUp
    \/ CommitPartial \/ CommitOld
    \/ WorkerDies

BundleSpec == BundleInit /\ [][BundleNext]_bundle

-----------------------------------------------------------------------------
(* Properties. *)

BundleOK ==
    /\ {target, partial, old} \subseteq Dirs
    /\ place \in Places
    /\ planned \in Releases \cup {None}
    /\ planned = None <=> place = "idle"

(* The one bundle that matters: the target, or the one moved aside when there
   is none. *)
Kept == IF target \in {None, NoBundle} THEN old ELSE target

(* It is whole, and so is what is about to take its place. *)
BundleInv ==
    /\ Kept \notin {None, NoBundle} /\ Kept.whole
    /\ place \in {"exchange", "clearOld", "aside", "inside"} => partial = Whole(planned)
    /\ place \in {"build", "fill", "exchange", "clearOld", "aside",
                  "commitPartial", "commitOld"} => target \notin {None, NoBundle}
    /\ place = "inside" => target = None

(* The release to be run; None when it is damaged or lost. *)
Current == IF Kept \notin {None, NoBundle} /\ Kept.whole THEN Kept.release ELSE None

Install == INSTANCE Installation WITH current <- Current

(* Whatever fails and whenever the worker dies, one whole bundle is at the
   target or aside, and it changes in one step to the planned release. *)
ReplacedAtOnce == Install!InstallationSpec

=============================================================================

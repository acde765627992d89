-------------------------- MODULE ReleasedVerification --------------------------
(***************************************************************************)
(* The last step of a release (RunReleased of internal/verify): the agent   *)
(* reads back what it committed, from every target, one document at a time, *)
(* and answers that the release is there or not.  The commit may have left  *)
(* any target with defects; meanwhile another process may publish the next  *)
(* version.                                                                 *)
(*                                                                          *)
(* Version 2 is the one released.  An index or a directory is named by its  *)
(* sequence, 0 is none; index s lists the versions up to s, and directory 2 *)
(* names the profile of this release.  A manifest or a profile is right,    *)
(* wrong or missing.  Signatures and the reachability of an index are left  *)
(* to InProcessClient and ChainIndexes.                                     *)
(***************************************************************************)
EXTENDS Naturals

CONSTANTS
    None,
    Backends,       \* the targets of the release and of the directory
    MaxDefects,     \* bound: what the commit left out or wrote wrong
    MaxChanges      \* bound: writes of the other process

VARIABLES
    served,         \* backend -> its documents
    renamed,        \* versions that were signed before a base URL changed
    verifier,       \* progress of the verification, or None
    findings,       \* an error was found
    defects, changes

verifyVars == <<served, renamed, verifier, findings, defects, changes>>

Released == 2
Versions == 1 .. 3

Whole == [index |-> 2, dir |-> 2, profile |-> "right",
          manifest |-> [v \in Versions |-> IF v <= 2 THEN "right" ELSE "missing"]]

(* How far a verification is. *)
Progress == [at : {"indexes", "released", "directory", "answered"}, todo : SUBSET Backends,
             target : Backends \cup {None}, left : SUBSET Versions,
             raw : [Backends -> 0 .. 3], reference : 0 .. 3]

VerifyInit ==
    /\ served = [b \in Backends |-> Whole]
    /\ renamed \in {{}, {1}, {1, 2}}
    /\ verifier = None /\ findings = FALSE
    /\ defects = 0 /\ changes = 0

-----------------------------------------------------------------------------
(* What a commit leaves: a target that was not reached, or where it failed. *)

Leave(b) ==
    /\ verifier = None /\ defects < MaxDefects
    /\ defects' = defects + 1
    /\ \E s \in 0 .. 1, kind \in {"missing", "wrong"}, v \in 1 .. 2 :
           served' \in {[served EXCEPT ![b].index = s], [served EXCEPT ![b].dir = s],
                        [served EXCEPT ![b].profile = kind],
                        [served EXCEPT ![b].manifest[v] = kind]}
    /\ UNCHANGED <<renamed, verifier, findings, changes>>

(* The next publish writes the manifest before the index that lists it. *)
PublishNext(b) ==
    /\ verifier # None /\ changes < MaxChanges
    /\ changes' = changes + 1
    /\ \/ served[b].index = 2
          /\ served' = [served EXCEPT ![b].manifest[3] = "right", ![b].index = 3]
       \/ served[b].dir = 2
          /\ served' = [served EXCEPT ![b].dir = 3]
    /\ UNCHANGED <<renamed, verifier, findings, defects>>

-----------------------------------------------------------------------------
(* The verification.  Every finding lets it go on. *)

At(step) == verifier # None /\ verifier.at = step

Find(error) == findings' = (findings \/ error)

Read == UNCHANGED <<served, renamed, defects, changes>>

Begin ==
    /\ verifier = None
    /\ verifier' = [at |-> "indexes", todo |-> Backends, target |-> None, left |-> {},
                    raw |-> [b \in Backends |-> 0], reference |-> 0]
    /\ Find(FALSE) /\ Read

ReadIndex(b) ==
    /\ At("indexes") /\ verifier.target = None /\ b \in verifier.todo
    /\ LET s == served[b].index IN
       /\ Find(s = 0)
       /\ verifier' = [verifier EXCEPT !.raw[b] = s, !.todo = @ \ {b},
                                       !.target = IF s = 0 THEN None ELSE b,
                                       !.left = 1 .. s]
    /\ Read

(* Mutant: drift of the base URL is an error for every version. *)
checkDeclaredURL_Strict(v) == v \in renamed

(* The URL that an entry declares is that of the target; an entry that was not
   written by this release may declare an old one. *)
checkDeclaredURL(v) == v = Released /\ v \in renamed

checkManifest(v) ==
    /\ At("indexes") /\ verifier.target # None
    /\ v \in verifier.left /\ \A w \in verifier.left : v <= w
    /\ Find(checkDeclaredURL(v) \/ served[verifier.target].manifest[v] # "right")
    /\ verifier' = [verifier EXCEPT !.left = @ \ {v},
                                    !.target = IF verifier.left = {v} THEN None ELSE @]
    /\ Read

Compare ==
    /\ At("indexes") /\ verifier.target = None /\ verifier.todo = {}
    /\ LET found == {b \in Backends : verifier.raw[b] # 0}
       IN  Find(\E b, c \in found : verifier.raw[b] # verifier.raw[c])
    /\ verifier' = [verifier EXCEPT !.at = "released", !.todo = Backends]
    /\ Read

(* The version is looked for in what each index says now. *)
FindReleased(b) ==
    /\ At("released") /\ verifier.target = None /\ b \in verifier.todo
    /\ LET listed == served[b].index >= Released IN
       /\ Find(~listed)
       /\ verifier' = [verifier EXCEPT !.todo = @ \ {b}, !.target = IF listed THEN b ELSE None]
    /\ Read

ReadReleased ==
    /\ At("released") /\ verifier.target # None
    /\ Find(served[verifier.target].manifest[Released] # "right")
    /\ verifier' = [verifier EXCEPT !.target = None]
    /\ Read

AllRead ==
    /\ At("released") /\ verifier.target = None /\ verifier.todo = {}
    /\ verifier' = [verifier EXCEPT !.at = "directory", !.todo = Backends]
    /\ Find(FALSE) /\ Read

(* The first directory that is read is the reference of the others. *)
ReadDirectory(b) ==
    /\ At("directory") /\ verifier.target = None /\ b \in verifier.todo
    /\ LET d == served[b].dir
           ref == IF verifier.reference = 0 THEN d ELSE verifier.reference
       IN  /\ Find(d < 2 \/ d # ref \/ d # 2)
           /\ verifier' = [verifier EXCEPT !.todo = @ \ {b}, !.reference = ref,
                                           !.target = IF d = 2 THEN b ELSE None]
    /\ Read

ReadProfile ==
    /\ At("directory") /\ verifier.target # None
    /\ Find(served[verifier.target].profile # "right")
    /\ verifier' = [verifier EXCEPT !.target = None]
    /\ Read

Finish ==
    /\ At("directory") /\ verifier.target = None /\ verifier.todo = {}
    /\ verifier' = [verifier EXCEPT !.at = "answered"]
    /\ Find(FALSE) /\ Read

VerifyNext ==
    \/ \E b \in Backends :
           Leave(b) \/ PublishNext(b) \/ ReadIndex(b) \/ FindReleased(b) \/ ReadDirectory(b)
    \/ \E v \in Versions : checkManifest(v)
    \/ Begin \/ Compare \/ ReadReleased \/ AllRead \/ ReadProfile \/ Finish

-----------------------------------------------------------------------------
(* What a consumer of the released version needs of a target. *)
Serves(b) ==
    /\ served[b].index >= Released /\ served[b].manifest[Released] = "right"
    /\ served[b].dir >= 2 /\ served[b].profile = "right"

(* All that the commit was to leave, but for URLs of older versions. *)
Committed ==
    /\ Released \notin renamed
    /\ \A b \in Backends : served[b] = Whole

(* A release that is answered as verified is served by every target, although
   the documents were read one after the other while others were written; and
   when nothing else was written, it is refused only if a document is missing,
   wrong or not the same everywhere: old URLs of older versions do not block it
   (RunReleased, checkDeclaredURL). *)
VerdictHolds ==
    At("answered") =>
        /\ ~findings => \A b \in Backends : Serves(b)
        /\ changes = 0 => (findings <=> ~Committed)

=============================================================================

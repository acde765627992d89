---------------------------- MODULE LibraryInstall ----------------------------
(***************************************************************************)
(* A library of installed versions and the pointer to the active one       *)
(* (internal/updater/pipeline.go applyLibrary, apply.go pruneVersions,     *)
(* library.go switchActive, rollbackActive, deleteInstalled).              *)
(*                                                                         *)
(* An apply builds a version directory beside its place, renames it there, *)
(* rewrites active.json and removes versions beyond the budget.  Switch,   *)
(* rollback and delete are one step each: they and the apply exclude each  *)
(* other by the lock (module ApplySession).  Every file operation of the   *)
(* apply may fail and the worker may die; the user starts and stops        *)
(* programs of the library meanwhile.                                      *)
(*                                                                         *)
(* Abstractions.  A version directory is the code in its metadata, which   *)
(* is written before the rename; what is in .trash is gone.  Two plans may *)
(* have the same version string and so the same directory.                 *)
(***************************************************************************)
EXTENDS Naturals, FiniteSets

CONSTANTS
    Plans,     \* releases that may be applied
    Ids,       \* names of version directories
    Id,        \* Id[p]: the directory of plan p
    Code,      \* Code[p]: its release code
    Retain,    \* versions to keep
    Reserved,  \* codes to keep besides
    None

VARIABLES
    version,    \* version[i]: the code of the whole version in directory i; 0: none
    building,   \* building[i]: there is a partial directory for i
    active,     \* active.json: directory, code and previous directory
    running,    \* directories from which a program runs
    stage,      \* where applyLibrary is
    plan,       \* the plan applied
    only,       \* install only: the pointer stays
    excess,     \* versions that the prune under way is to remove
    dangling    \* history: the directory of the active version was set aside

library == <<version, building, active, running, stage, plan, only, excess, dangling>>

Stages == {"idle", "target", "build", "rename", "pointer", "prune"}

NoActive == [id |-> None, code |-> 0, previous |-> None]
Pointers == [id : Ids \cup {None}, code : Nat, previous : Ids \cup {None}]

Installed == {i \in Ids : version[i] # 0}

LibraryInit ==
    /\ \/ /\ version = [i \in Ids |-> 0]
          /\ active = NoActive
       \/ \E p \in Plans :
             /\ version = [i \in Ids |-> IF i = Id[p] THEN Code[p] ELSE 0]
             /\ active = [id |-> Id[p], code |-> Code[p], previous |-> None]
    /\ building = [i \in Ids |-> FALSE]
    /\ running = {}
    /\ stage = "idle" /\ plan \in Plans /\ only = FALSE
    /\ excess = {}
    /\ dangling = FALSE

-----------------------------------------------------------------------------
(* The user starts what the pointer names, and stops it. *)

Run ==
    /\ active.id \in Installed \ running
    /\ running' = running \cup {active.id}
    /\ UNCHANGED <<version, building, active, stage, plan, only, excess, dangling>>

Quit ==
    /\ \E i \in running : running' = running \ {i}
    /\ UNCHANGED <<version, building, active, stage, plan, only, excess, dangling>>

-----------------------------------------------------------------------------
(* applyLibrary. *)

Start(p, installOnly) ==
    /\ stage = "idle"
    /\ stage' = "target" /\ plan' = p /\ only' = installOnly
    /\ UNCHANGED <<version, building, active, running, excess, dangling>>

Stage(next) == stage' = next /\ UNCHANGED <<running, plan, only>>

(* The directory is taken by another code: it is set aside unless something
   runs from it.  What fails after the rename fails the apply as well. *)
SetAside(i) ==
    /\ version[i] \notin {0, Code[plan]}
    /\ i \notin running
    /\ version' = [version EXCEPT ![i] = 0]
    /\ dangling' = (dangling \/ active.id = i)
    /\ Stage("build") \/ Stage("idle")

(* prepareLibraryTarget. *)
PrepareTarget ==
    /\ stage = "target"
    /\ LET i == Id[plan]
       IN  \/ version[i] = 0 /\ Stage("build") /\ UNCHANGED <<version, dangling>>
           \/ version[i] = Code[plan] /\ Stage("pointer") /\ UNCHANGED <<version, dangling>>
           \/ SetAside(i)
           \/ version[i] \notin {0, Code[plan]} /\ Stage("idle") /\ UNCHANGED <<version, dangling>>
    /\ UNCHANGED <<building, active, excess>>

(* materializeFresh; a failure removes what was built. *)
Materialize ==
    /\ stage = "build"
    /\ \/ building' = [building EXCEPT ![Id[plan]] = TRUE] /\ Stage("rename")
       \/ building' = [building EXCEPT ![Id[plan]] = FALSE] /\ Stage("idle")
    /\ UNCHANGED <<version, active, excess, dangling>>

RenameIn ==
    /\ stage = "rename"
    /\ building' = [building EXCEPT ![Id[plan]] = FALSE]
    /\ \/ version' = [version EXCEPT ![Id[plan]] = Code[plan]] /\ Stage("pointer")
       \/ UNCHANGED version /\ Stage("idle")
    /\ UNCHANGED <<active, excess, dangling>>

(* What pruneVersions must not remove: the active and the previous version,
   the one just installed, reserved codes, then the newest up to Retain. *)
Named(pointer) ==
    ({pointer.id, Id[plan]} \ {None})
        \cup {i \in {pointer.previous} \ {None} : Retain >= 2}
        \cup {i \in Installed : version[i] \in Reserved}

NewerThan(i, set) == {j \in set : version[j] > version[i]}

Kept(pointer) ==
    LET named  == Named(pointer)
        others == Installed \ named
    IN  named \cup {i \in others : Cardinality(NewerThan(i, others)) + Cardinality(named) < Retain}

(* Mutant: the previous version is not among them. *)
Excess_WithPrevious(pointer) ==
    Installed \ ({pointer.id, Id[plan]} \cup running
                    \cup {i \in Installed : version[i] \in Reserved})

Excess(pointer) == Installed \ (Kept(pointer) \cup running)

Pruning(pointer) ==
    /\ Stage("prune")
    /\ excess' = Excess(pointer)
    /\ building' = [i \in Ids |-> FALSE]

(* The pointer is rewritten, or stays for an install only; then the excess is
   settled and partial directories are removed. *)
NewPointer ==
    [id |-> Id[plan], code |-> Code[plan],
     previous |-> IF active.id = Id[plan] THEN active.previous ELSE active.id]

WriteActive ==
    /\ stage = "pointer"
    /\ \/ /\ ~only
          /\ active' = NewPointer
          /\ dangling' = FALSE
          /\ Pruning(NewPointer)
       \/ /\ only
          /\ Pruning(IF active = NoActive THEN NewPointer ELSE active)
          /\ UNCHANGED <<active, dangling>>
       \/ /\ ~only
          /\ Stage("idle")
          /\ UNCHANGED <<active, building, excess, dangling>>
    /\ UNCHANGED version

(* Each is moved away in turn; failures are ignored. *)
PruneOne ==
    /\ stage = "prune"
    /\ \E i \in excess :
          /\ excess' = excess \ {i}
          /\ version' \in {version, [version EXCEPT ![i] = 0]}
    /\ UNCHANGED <<building, active, running, stage, plan, only, dangling>>

Finished ==
    /\ stage = "prune" /\ excess = {}
    /\ Stage("idle")
    /\ UNCHANGED <<version, building, active, excess, dangling>>

WorkerDies ==
    /\ stage # "idle"
    /\ Stage("idle")
    /\ excess' = {}
    /\ UNCHANGED <<version, building, active, dangling>>

-----------------------------------------------------------------------------
(* The operations on what is installed. *)

(* switchActive: the previous version is what was active, also when that is
   the one switched to. *)
Switch(i) ==
    /\ stage = "idle"
    /\ i \in Installed
    /\ active' = [id |-> i, code |-> version[i], previous |-> active.id]
    /\ dangling' = FALSE
    /\ UNCHANGED <<version, building, running, stage, plan, only, excess>>

(* Mutant: the directory of the previous version is not looked for. *)
Rollback_Blind ==
    /\ stage = "idle"
    /\ active.previous # None
    /\ active' = [id |-> active.previous, code |-> version[active.previous],
                  previous |-> active.id]
    /\ dangling' = FALSE
    /\ UNCHANGED <<version, building, running, stage, plan, only, excess>>

Rollback ==
    /\ stage = "idle"
    /\ active.previous \in Installed
    /\ active' = [id |-> active.previous, code |-> version[active.previous],
                  previous |-> active.id]
    /\ dangling' = FALSE
    /\ UNCHANGED <<version, building, running, stage, plan, only, excess>>

(* deleteInstalled: not the active code, and not one the host reports in use;
   the host knows of the programs it started. *)
Delete(i, inUse) ==
    /\ stage = "idle"
    /\ i \in Installed
    /\ version[i] # active.code /\ i \notin inUse
    /\ version' = [version EXCEPT ![i] = 0]
    /\ dangling' = (dangling \/ active.id = i)
    /\ UNCHANGED <<building, active, running, stage, plan, only, excess>>

LibraryNext ==
    \/ Run \/ Quit
    \/ \E p \in Plans, installOnly \in BOOLEAN : Start(p, installOnly)
    \/ PrepareTarget \/ Materialize \/ RenameIn \/ WriteActive \/ PruneOne \/ Finished
    \/ WorkerDies
    \/ \E i \in Ids : Switch(i)
    \/ Rollback
    \/ \E i \in Ids, inUse \in SUBSET running : Delete(i, inUse)

LibrarySpec == LibraryInit /\ [][LibraryNext]_library

-----------------------------------------------------------------------------
(* Properties. *)

LibraryOK ==
    /\ version \in [Ids -> {0} \cup {Code[p] : p \in Plans}]
    /\ building \in [Ids -> BOOLEAN]
    /\ active \in Pointers
    /\ running \subseteq Ids /\ excess \subseteq Ids
    /\ stage \in Stages /\ plan \in Plans /\ only \in BOOLEAN /\ dangling \in BOOLEAN

(* What the pointer names is installed, whole and with the code it says,
   unless a plan with the same version string set it aside and failed. *)
ActiveIsInstalled ==
    active # NoActive =>
        dangling \/ (active.id \in Installed /\ version[active.id] = active.code)

(* While versions are pruned none disappears that is active, that a program
   runs from, that was just installed, that a rollback would go to (when two
   are kept at all) or whose code is reserved: also when the pointer stays
   behind, or was rolled back, or when programs start meanwhile. *)
PruneKeeps ==
    [][stage = "prune" /\ stage' = "prune" => \A i \in Installed :
          \/ i \in running \/ i = active.id \/ i = Id[plan]
          \/ i = active.previous /\ Retain >= 2
          \/ version[i] \in Reserved
          => version'[i] = version[i]]_library

=============================================================================

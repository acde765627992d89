------------------------------ MODULE TreeInstall ------------------------------
(***************************************************************************)
(* A release written over an open install root, file by file               *)
(* (internal/updater/pipeline.go applyReconcile, apply.go rollbackJournal).*)
(*                                                                         *)
(* Entries that are there are moved to a backup beside the root, the new   *)
(* ones written, the ones the baseline owns and the new table lacks moved  *)
(* away too; a failure before the end puts the backups back.  The journal  *)
(* is used by the running worker only: after a death nothing reads it, and *)
(* the next apply starts from what is on disk.                             *)
(*                                                                         *)
(* Abstractions.  A content stands for the digest of a file or the target  *)
(* of a link.  Entries are independent: directories, links in the way of   *)
(* an entry and the order of the table are left out.                       *)
(***************************************************************************)
EXTENDS FiniteSets

CONSTANTS
    Paths,      \* relative paths under the install root
    Releases,
    Contents,   \* what a file may hold
    Table,      \* Table[r][p]: the content of p in release r, None: no entry
    Preserved,  \* paths that the host or the table asks to leave alone
    Mine,       \* contents the user made
    Torn,       \* content of a file whose writing failed
    None

VARIABLES
    disk,      \* disk[p]: the file under the install root
    baseline,  \* baseline[p]: the content the last saved baseline records
    step,      \* where applyReconcile is
    release,   \* the release it writes
    left,      \* entries of the table, or of the baseline, still to be looked at
    journal,   \* journal[p]: what was moved to the backup; "none": no entry
    before,    \* history: disk and baseline when the apply began
    stuck,     \* history: a restore of this apply failed, which nobody notices
    ended      \* how the last apply ended, until somebody touches the files

tree == <<disk, baseline, step, release, left, journal, before, stuck, ended>>

Steps == {"idle", "write", "entry", "drop", "post", "save", "commit", "clean", "rollback"}

NoJournal == [p \in Paths |-> "none"]

(* The file whose entry is being written. *)
Writing == {p \in left : step = "entry" /\ journal[p] # "none"}

TreeInit ==
    /\ disk \in {[p \in Paths |-> None]} \cup {Table[r] : r \in Releases}
    /\ baseline = disk
    /\ step = "idle"
    /\ release \in Releases
    /\ left = {} /\ journal = NoJournal
    /\ before = [disk |-> disk, baseline |-> baseline]
    /\ stuck = FALSE /\ ended = "no"

(* Between applies the user changes, adds and removes files. *)
UserEdits ==
    /\ step = "idle"
    /\ \E p \in Paths, c \in {Mine, None} : disk' = [disk EXCEPT ![p] = c]
    /\ ended' = "no"
    /\ UNCHANGED <<baseline, step, release, left, journal, before, stuck>>

Begin(r) ==
    /\ step = "idle"
    /\ step' = "write"
    /\ release' = r
    /\ left' = {p \in Paths : Table[r][p] # None}
    /\ before' = [disk |-> disk, baseline |-> baseline]
    /\ stuck' = FALSE
    /\ ended' = "no"
    /\ UNCHANGED <<disk, baseline, journal>>

(* An entry that is to be preserved and exists is skipped; any other that
   exists is moved to the backup, then journaled. *)
Skip(p) ==
    /\ step = "write" /\ p \in left
    /\ p \in Preserved /\ disk[p] # None
    /\ left' = left \ {p}
    /\ UNCHANGED <<disk, baseline, step, release, journal, before, stuck, ended>>

MoveAside(p) ==
    /\ step = "write" /\ p \in left
    /\ p \notin Preserved \/ disk[p] = None
    /\ journal' = [journal EXCEPT ![p] = disk[p]]
    /\ disk' = [disk EXCEPT ![p] = None]
    /\ step' = "entry"
    /\ UNCHANGED <<baseline, release, left, before, stuck, ended>>

WriteEntry ==
    /\ step = "entry"
    /\ \E p \in Writing :
          /\ disk' = [disk EXCEPT ![p] = Table[release][p]]
          /\ left' = left \ {p}
    /\ step' = "write"
    /\ UNCHANGED <<baseline, release, journal, before, stuck, ended>>

(* The journal cannot be written, or the copy fails half way. *)
EntryFails ==
    /\ step = "entry"
    /\ \E p \in Writing, c \in {None, Torn} : disk' = [disk EXCEPT ![p] = c]
    /\ step' = "rollback"
    /\ UNCHANGED <<baseline, release, left, journal, before, stuck, ended>>

(* Every entry is written: what the old baseline owns and the table lacks. *)
EntriesWritten ==
    /\ step = "write" /\ left = {}
    /\ step' = "drop"
    /\ left' = {p \in Paths \ Preserved : baseline[p] # None /\ Table[release][p] = None}
    /\ UNCHANGED <<disk, baseline, release, journal, before, stuck, ended>>

(* Mutant: a file at a path of the baseline is taken for its own. *)
baselineOwns_Path(p) == disk[p] # None

(* Only a file that still is what the baseline recorded. *)
baselineOwns(p) == disk[p] = baseline[p]

Drop(p) ==
    /\ step = "drop" /\ p \in left
    /\ left' = left \ {p}
    /\ IF baselineOwns(p)
       THEN /\ journal' = [journal EXCEPT ![p] = disk[p]]
            /\ disk' = [disk EXCEPT ![p] = None]
       ELSE UNCHANGED <<disk, journal>>
    /\ UNCHANGED <<baseline, step, release, before, stuck, ended>>

(* The post script, then the baseline, then the journal is marked committed. *)
PostApply ==
    /\ step = "drop" /\ left = {}
    /\ step' = "save"
    /\ UNCHANGED <<disk, baseline, release, left, journal, before, stuck, ended>>

SaveBaseline ==
    /\ step = "save"
    /\ baseline' = Table[release]
    /\ step' = "commit"
    /\ UNCHANGED <<disk, release, left, journal, before, stuck, ended>>

Commit ==
    /\ step = "commit"
    /\ step' = "clean"
    /\ UNCHANGED <<disk, baseline, release, left, journal, before, stuck, ended>>

(* A rename, a script or a file of the engine fails: all steps lead to the
   rollback, the last one with the new baseline in place. *)
Fails ==
    /\ step \in {"write", "drop", "save", "commit"}
    /\ step' = "rollback"
    /\ UNCHANGED <<disk, baseline, release, left, journal, before, stuck, ended>>

(* The backups are removed. *)
Clean ==
    /\ step = "clean"
    /\ journal' = NoJournal
    /\ left' = {}
    /\ step' = "idle"
    /\ ended' = "completed"
    /\ UNCHANGED <<disk, baseline, release, before, stuck>>

-----------------------------------------------------------------------------
(* rollbackJournal: errors are ignored. *)

(* Mutant: only entries with a backup are undone. *)
Restore_Saved(p) ==
    /\ step = "rollback" /\ journal[p] # "none"
    /\ journal' = [journal EXCEPT ![p] = "none"]
    /\ disk' = IF journal[p] = None THEN disk ELSE [disk EXCEPT ![p] = journal[p]]
    /\ UNCHANGED <<baseline, step, release, left, before, stuck, ended>>

Restore(p) ==
    /\ step = "rollback" /\ journal[p] # "none"
    /\ journal' = [journal EXCEPT ![p] = "none"]
    /\ disk' = [disk EXCEPT ![p] = journal[p]]
    /\ UNCHANGED <<baseline, step, release, left, before, stuck, ended>>

RestoreFails(p) ==
    /\ step = "rollback" /\ journal[p] # "none"
    /\ journal' = [journal EXCEPT ![p] = "none"]
    /\ disk' \in {disk, [disk EXCEPT ![p] = None]}
    /\ stuck' = TRUE
    /\ UNCHANGED <<baseline, step, release, left, before, ended>>

RolledBack ==
    /\ step = "rollback" /\ journal = NoJournal
    /\ left' = {}
    /\ step' = "idle"
    /\ ended' = "rolledBack"
    /\ UNCHANGED <<disk, baseline, release, journal, before, stuck>>

(* The worker dies; the backups stay where nobody looks for them. *)
Dies ==
    /\ step # "idle"
    /\ step' = "idle"
    /\ left' = {} /\ journal' = NoJournal
    /\ disk' \in {disk} \cup {[disk EXCEPT ![p] = Torn] : p \in Writing}
    /\ ended' = "no"
    /\ UNCHANGED <<baseline, release, before, stuck>>

ApplyStep ==
    \/ \E p \in Paths : Skip(p) \/ MoveAside(p) \/ Drop(p)
    \/ WriteEntry \/ EntryFails \/ EntriesWritten
    \/ PostApply \/ SaveBaseline \/ Commit \/ Fails \/ Clean
    \/ \E p \in Paths : Restore(p) \/ RestoreFails(p)
    \/ RolledBack \/ Dies

TreeNext ==
    \/ UserEdits
    \/ \E r \in Releases : Begin(r)
    \/ ApplyStep

TreeSpec == TreeInit /\ [][TreeNext]_tree

-----------------------------------------------------------------------------
(* Properties. *)

TreeOK ==
    /\ disk \in [Paths -> Contents \cup {Mine, Torn, None}]
    /\ baseline \in [Paths -> Contents \cup {None}]
    /\ step \in Steps /\ release \in Releases
    /\ left \subseteq Paths
    /\ journal \in [Paths -> Contents \cup {Mine, Torn, None, "none"}]
    /\ before.disk \in [Paths -> Contents \cup {Mine, Torn, None}]
    /\ before.baseline \in [Paths -> Contents \cup {None}]
    /\ stuck \in BOOLEAN /\ ended \in {"no", "completed", "rolledBack"}

(* What a completed apply leaves at path p, whatever it found. *)
Due(p) ==
    LET new == Table[release][p]
        old == before.disk[p]
    IN  IF p \in Preserved /\ old # None THEN old
        ELSE IF new # None THEN new
        ELSE IF p \notin Preserved /\ before.baseline[p] \in {old} \ {None} THEN None
        ELSE old

(* An apply that reports completion leaves the release, without the files of
   the one before it and with those of the user; one that reports a rollback
   leaves what it found, unless a restore failed (ADR 0027 section 4.1).  Also
   after deaths in the middle of earlier applies. *)
EndsOldOrNew ==
    /\ ended = "completed" => \A p \in Paths : disk[p] = Due(p)
    /\ ended = "rolledBack" => stuck \/ disk = before.disk

(* No step of an apply, of its rollback or of a death touches a file of the
   user that the release has no entry for, or one that is to be preserved. *)
UserFilesKept ==
    [][step # "idle" => \A p \in Paths :
          disk[p] = Mine /\ (Table[release][p] = None \/ p \in Preserved)
              => disk'[p] = Mine]_tree

=============================================================================

------------------------------ MODULE ServerDeploy ------------------------------
(***************************************************************************)
(* An upgrade of a relkit box (scripts/deploy/relkit.py `remote apply`,     *)
(* relkit_ops.py): the store, the agent and the console in this order, each *)
(* backed up, rewritten file by file, restarted and probed, then the tools. *)
(* A step that fails rolls everything back from the snapshot of the apply.  *)
(* The script may also be killed at any step, in the middle of a write, and *)
(* the operator runs it again.  The first upgrade moves the publishers'     *)
(* tokens from the configuration of the agent into its admin document.      *)
(*                                                                          *)
(* Abstractions.  A file is the number of the apply that wrote it, 0 what   *)
(* was there at first; admin is the tokens that the document holds.  Read,  *)
(* merge and write of admin are one step.  Applies do not overlap: nothing  *)
(* in the script keeps two operators apart.                                 *)
(***************************************************************************)
EXTENDS Naturals, FiniteSets, Sequences

CONSTANTS
    Upgrades, \* what an operator may upgrade at once: sets of units
    Keep,         \* snapshots that a rotation keeps
    MaxApplies,   \* bound of the applies
    MaxCuts,      \* bound of the steps that are cut short
    Publishers,   \* tokens in the first configuration
    Issued,       \* tokens that the agent issues later
    Torn, None

Units == {"store", "agent", "console"}

VARIABLES
    file,        \* every part of the box but the admin document
    admin,       \* tokens in the admin document, Torn, or None
    running,     \* running[u]: the binary that the unit runs, None if it is down
    legacyUp,    \* systemd keeps starting the retired relkit-serve
    holder,      \* who listens on the port of the store
    snapshots,   \* /var/backups/relkit, by apply
    apply,       \* the apply in progress
    applies,     \* how many were begun
    troubles,
    waived       \* history: tokens in snapshots that were pruned by hand, or after an
                 \* upgrade that left the agent out, or in a configuration that
                 \* half a backup was copied over

deploy == <<file, admin, running, legacyUp, holder, snapshots, apply, applies, troubles,
            waived>>

box == <<file, admin, running, legacyUp, holder>>

Cfg(u)  == <<u, "cfg">>
Bin(u)  == <<u, "bin">>
Unit(u) == <<u, "unit">>

Legacy   == <<"store", "legacy">>     \* the unit of the retired relkit-serve
Token    == <<"agent", "token">>      \* the credential of the tool publishing
ProductFiles == <<"agent", "products">>
Env      == <<"agent", "env">>
Catalog  == <<"agent", "catalog">>
Panel    == <<"console", "panel">>    \* the key of the cookies

Parts == (UNION {{Cfg(u), Bin(u), Unit(u)} : u \in Units})
         \cup {Legacy, Token, ProductFiles, Env, Catalog, Panel}

(* What backup_files is given for each unit, the admin document apart. *)
BackedUp(u) ==
    {Cfg(u), Bin(u), Unit(u)} \cup CASE u = "store"   -> {Legacy}
                                     [] u = "agent"   -> {ProductFiles, Env}
                                     [] u = "console" -> {Panel}

(* What rollback puts back, in its order. *)
Restored == <<Bin("store"), Cfg("store"), Unit("store"), Legacy,
              Bin("agent"), Cfg("agent"), ProductFiles, Unit("agent"),
              Bin("console"), Cfg("console"), Unit("console")>>

NoApply == [at |-> "none"]

Nothing == [files |-> [p \in Parts |-> None], admin |-> None]

DeployInit ==
    /\ \E legacy \in {None, 0} :
          /\ file = [p \in Parts |-> IF p = Legacy THEN legacy
                                     ELSE IF p \in {Token, Catalog} THEN None ELSE 0]
          /\ legacyUp \in {FALSE, legacy = 0}
    /\ admin = None
    /\ running = [u \in Units |-> 0]
    /\ holder = "store"
    /\ snapshots = [n \in 1..MaxApplies |-> None]
    /\ apply = NoApply /\ applies = 0 /\ troubles = 0 /\ waived = {}

-----------------------------------------------------------------------------
(* The steps of an apply. *)

Step(op, u, p) == [op |-> op, unit |-> u, part |-> p]

(* Mutant: the retired unit is gone before the snapshot is made. *)
Begins_RetireFirst(u) ==
    CASE u = "store" ->
           <<Step("retire", u, None), Step("backup", u, None), Step("load", u, Cfg(u))>>
      [] u = "agent" -> <<Step("backup", u, None), Step("merge", u, None)>>
      [] u = "console" -> <<Step("backup", u, None)>>

(* Mutant: the configuration is rewritten before its tokens are merged. *)
Begins_ConfigFirst(u) ==
    IF u = "agent"
    THEN <<Step("load", u, Cfg(u)), Step("backup", u, None), Step("write", u, Cfg(u)),
           Step("merge", u, None)>>
    ELSE <<Step("backup", u, None)>>

(* apply_serve_upgrade, apply_agent_upgrade, apply_console_upgrade *)
Begins(u) ==
    CASE u = "store" ->
           <<Step("backup", u, None), Step("retire", u, None), Step("load", u, Cfg(u))>>
      [] u = "agent" ->
           <<Step("load", u, Cfg(u)), Step("backup", u, None), Step("write", u, Token),
             Step("merge", u, None), Step("write", u, ProductFiles), Step("write", u, Env)>>
      [] u = "console" ->
           <<Step("load", u, Cfg(u)), Step("backup", u, None), Step("write", u, Panel)>>

(* ... and how each of them ends. *)
Ends(u, restart) ==
    <<Step("write", u, Cfg(u)), Step("install", u, Bin(u)), Step("load", u, Unit(u)),
      Step("write", u, Unit(u))>>
    \o IF restart THEN <<Step("restart", u, None), Step("running", u, None),
                         Step("listener", u, None), Step("probe", u, None)>>
                  ELSE <<>>

(* publish_release_tools *)
ToolSteps(restart) ==
    <<Step("install", "agent", Catalog)>>
    \o IF restart THEN <<Step("restart", "agent", None), Step("running", "agent", None)>>
                  ELSE <<>>

Program(units, restart) ==
    LET of(u) == IF u \in units THEN Begins(u) \o Ends(u, restart) ELSE <<>>
    IN  of("store") \o of("agent") \o of("console")
        \o IF "agent" \in units THEN ToolSteps(restart) ELSE <<>>

(* cmd_upgrade starts `remote apply` with a fresh snapshot directory. *)
BeginApply ==
    /\ apply = NoApply /\ applies < MaxApplies
    /\ applies' = applies + 1
    /\ \E units \in Upgrades, restart \in BOOLEAN :
          apply' = [at |-> "steps", n |-> applies', units |-> units, restart |-> restart,
                    todo |-> Program(units, restart), before |-> file, whole |-> TRUE,
                    blind |-> FALSE]
    /\ snapshots' = [snapshots EXCEPT ![applies'] = Nothing]
    /\ UNCHANGED <<box, troubles, waived>>

Now == Head(apply.todo)

Doing(op) == apply.at = "steps" /\ apply.todo # <<>> /\ Now.op = op

Done == apply' = [apply EXCEPT !.todo = Tail(@)]

(* backup_files: each file that is there is copied. *)
Backup ==
    /\ Doing("backup")
    /\ snapshots' = [snapshots EXCEPT ![apply.n] =
           [files |-> [p \in Parts |-> IF p \in BackedUp(Now.unit) THEN file[p]
                                       ELSE @.files[p]],
            admin |-> IF Now.unit = "agent" THEN admin ELSE @.admin]]
    /\ Done
    /\ UNCHANGED <<box, applies, troubles, waived>>

(* retire_legacy_serve: stop and rename may fail without failing the apply. *)
RetireLegacy ==
    /\ Doing("retire")
    /\ IF file[Legacy] = None THEN UNCHANGED <<file, legacyUp>>
       ELSE /\ legacyUp' \in {FALSE, legacyUp}
            /\ \E left \in {None, file[Legacy]} : file' = [file EXCEPT ![Legacy] = left]
    /\ Done
    /\ UNCHANGED <<admin, running, holder, snapshots, applies, troubles, waived>>

(* A document that does not parse fails the apply (load_json_object). *)
Load ==
    /\ Doing("load")
    /\ file[Now.part] # Torn
    /\ Done
    /\ UNCHANGED <<box, snapshots, applies, troubles, waived>>

InConfig(f) == IF f[Cfg("agent")] = 0 THEN Publishers ELSE {}

(* admin_merge: what the document has stays, what the configuration has is
   added; a configuration without tokens leaves the document alone. *)
MergeAdmin ==
    /\ Doing("merge")
    /\ admin # Torn
    /\ admin' = IF InConfig(file) = {} THEN admin
                ELSE (IF admin = None THEN {} ELSE admin) \cup InConfig(file)
    /\ Done
    /\ UNCHANGED <<file, running, legacyUp, holder, snapshots, applies, troubles, waived>>

(* Path.write_text, or install_file, which renames. *)
WriteFile ==
    /\ Doing("write") \/ Doing("install")
    /\ file' = [file EXCEPT ![Now.part] = apply.n]
    /\ Done
    /\ UNCHANGED <<admin, running, legacyUp, holder, snapshots, applies, troubles, waived>>

(* Whom a restart of the store leaves with its port, which is free for a moment. *)
Holders == {"store"} \cup (IF legacyUp THEN {"legacy"} ELSE {})

(* What a unit runs that is restarted. *)
Started(u) == IF Torn \in {file[Cfg(u)], file[Unit(u)]} THEN None ELSE file[Bin(u)]

(* restart_unit *)
Restart ==
    /\ Doing("restart")
    /\ holder' \in IF Now.unit = "store" THEN Holders ELSE {holder}
    /\ running' = [running EXCEPT ![Now.unit] = Started(Now.unit)]
    /\ Done
    /\ UNCHANGED <<file, admin, legacyUp, snapshots, applies, troubles, waived>>

(* require_unit_running: a unit that cannot bind is seen active at times. *)
RequireRunning ==
    /\ Doing("running")
    /\ Done
    /\ UNCHANGED <<box, snapshots, applies, troubles, waived>>

(* Mutant: any listener will do. *)
RequireListener_Any ==
    /\ Doing("listener")
    /\ Done
    /\ UNCHANGED <<box, snapshots, applies, troubles, waived>>

(* require_listener_belongs_to compares the process that holds the port with
   the main process of the unit, unless the unit has none at that moment. *)
Listens(u) == u # "store" \/ holder = "store"

RequireListener ==
    /\ Doing("listener")
    /\ \E mainPid \in BOOLEAN :
          /\ mainPid => Listens(Now.unit)
          /\ apply' = [apply EXCEPT !.todo = Tail(@), !.blind = @ \/ ~Listens(Now.unit)]
    /\ UNCHANGED <<box, snapshots, applies, troubles, waived>>

(* self_check_serve, self_check_agent, wait_health: whoever listens answers. *)
Probe ==
    /\ Doing("probe")
    /\ Done
    /\ UNCHANGED <<box, snapshots, applies, troubles, waived>>

-----------------------------------------------------------------------------
(* How an apply ends. *)

Trouble == troubles < MaxCuts /\ troubles' = troubles + 1

(* A step is cut short: a write, or a backup, leaves half a file behind. *)
CutShort ==
    /\ apply.at = "steps" /\ apply.todo # <<>>
    /\ file' \in {file} \cup (IF Doing("write")
                              THEN {[file EXCEPT ![Now.part] = Torn]} ELSE {})
    /\ admin' \in {admin} \cup (IF Doing("merge") /\ admin # Torn /\ InConfig(file) # {}
                                THEN {Torn} ELSE {})
    /\ running' \in {running} \cup (IF Doing("restart")
                                    THEN {[running EXCEPT ![Now.unit] = None]} ELSE {})
    /\ snapshots' \in {snapshots} \cup
           (IF Doing("backup")
            THEN {[snapshots EXCEPT ![apply.n].files[p] = Torn] : p \in BackedUp(Now.unit)}
            ELSE {})
    /\ Trouble
    /\ UNCHANGED <<legacyUp, holder, applies, waived>>

(* It raised: rollback begins.  `whole` is a history: no backup was cut short. *)
StepFails ==
    /\ CutShort
    /\ apply' = [apply EXCEPT !.at = "rollback", !.todo = Restored,
                              !.whole = (snapshots' = snapshots)]

(* The script was killed. *)
Killed ==
    /\ CutShort
    /\ apply' = NoApply

(* What the snapshot has for the next part that rollback copies. *)
Saved == IF apply.todo = <<>> THEN None ELSE snapshots[apply.n].files[Now]

CopyBack(half) ==
    /\ file' = IF Saved = None \/ (half /\ Now[2] = "bin") THEN file
               ELSE [file EXCEPT ![Now] = IF half THEN Torn ELSE Saved]
    /\ waived' = IF Saved = Torn THEN waived \cup (InConfig(file) \ InConfig(file'))
                 ELSE waived
    /\ UNCHANGED <<admin, running, legacyUp, holder, snapshots, applies>>

(* rollback: what the snapshot has is copied back, part by part. *)
RollBack ==
    /\ apply.at = "rollback" /\ apply.todo # <<>>
    /\ CopyBack(FALSE)
    /\ Done
    /\ UNCHANGED troubles

(* A copy raises, or the script is killed: the rest is left.  A binary is
   renamed into its place, the others are copied in place. *)
RollbackFails ==
    /\ apply.at = "rollback"
    /\ CopyBack(TRUE) \/ UNCHANGED <<box, snapshots, applies, waived>>
    /\ Trouble
    /\ apply' = NoApply

(* The units are restarted, whatever becomes of it; the console if it was part
   of the upgrade. *)
RolledBack ==
    /\ apply.at = "rollback" /\ apply.todo = <<>>
    /\ running' = [u \in Units |->
           IF u = "console" /\ snapshots[apply.n].files[Bin(u)] = None THEN running[u]
           ELSE Started(u)]
    /\ holder' \in Holders
    /\ apply' = [apply EXCEPT !.at = "restored"]
    /\ UNCHANGED <<file, admin, legacyUp, snapshots, applies, troubles, waived>>

Succeeds ==
    /\ apply.at = "steps" /\ apply.todo = <<>>
    /\ apply' = [apply EXCEPT !.at = "ok"]
    /\ UNCHANGED <<box, snapshots, applies, troubles, waived>>

Kept(n) == snapshots[n] # None

(* prune_backups: the current snapshot and the newest of the others. *)
Surplus(keep, current) ==
    LET candidates == {n \in DOMAIN snapshots : Kept(n)} \ current
        newer(n)   == {m \in candidates : m > n}
    IN  {n \in candidates : Cardinality(newer(n)) + Cardinality(current) >= keep}

Drop(ns) == snapshots' = [n \in DOMAIN snapshots |-> IF n \in ns THEN None ELSE snapshots[n]]

TokensIn(n) ==
    IF snapshots[n] = None THEN {}
    ELSE InConfig(snapshots[n].files)
         \cup (IF snapshots[n].admin \in {None, Torn} THEN {} ELSE snapshots[n].admin)

EndApply ==
    /\ apply.at \in {"ok", "restored"}
    /\ \/ /\ apply.at = "ok"
          /\ Drop(Surplus(Keep, {apply.n}))
          /\ waived' = IF "agent" \in apply.units THEN waived
                       ELSE waived \cup UNION {TokensIn(n) : n \in Surplus(Keep, {apply.n})}
       \/ UNCHANGED <<snapshots, waived>>
    /\ apply' = NoApply
    /\ UNCHANGED <<box, applies, troubles>>

-----------------------------------------------------------------------------
(* Besides the applies. *)

(* `prune-backups` runs by hand, at any time. *)
PruneByHand ==
    /\ Surplus(Keep, {}) # {}
    /\ Drop(Surplus(Keep, {}))
    /\ waived' = waived \cup UNION {TokensIn(n) : n \in Surplus(Keep, {})}
    /\ UNCHANGED <<box, apply, applies, troubles>>

(* The new agent issues a token and persists it. *)
IssueToken ==
    /\ running["agent"] \notin {0, None}
    /\ admin \notin {None, Torn}
    /\ \E t \in Issued : admin' = admin \cup {t}
    /\ UNCHANGED <<file, running, legacyUp, holder, snapshots, apply, applies, troubles, waived>>

DeployNext ==
    \/ BeginApply
    \/ Backup \/ RetireLegacy \/ Load \/ MergeAdmin \/ WriteFile \/ Restart
    \/ RequireRunning \/ RequireListener \/ Probe
    \/ StepFails \/ Killed \/ RollBack \/ RollbackFails \/ RolledBack
    \/ Succeeds \/ EndApply
    \/ PruneByHand \/ IssueToken

-----------------------------------------------------------------------------
(* An upgrade that is reported as rolled back has left every part that a
   rollback restores as it was, the retired unit included, unless a backup was
   cut short: rollback trusts what it finds in the snapshot. *)
RollbackRestores ==
    apply.at = "restored" /\ apply.whole =>
        \A p \in {Restored[i] : i \in DOMAIN Restored} : file[p] = apply.before[p]

(* An upgrade that is reported as done has its binaries serving, whatever else
   was after the port, unless systemd had no main process for the unit when
   the listener was looked at. *)
SuccessIsServed ==
    apply.at = "ok" /\ apply.restart =>
        apply.blind \/ \A u \in apply.units : running[u] = apply.n /\ Listens(u)

RestartedAgent ==
    \/ apply.at = "ok" /\ apply.restart /\ "agent" \in apply.units
    \/ apply.at = "restored" /\ apply.whole

(* No upgrade, failed or killed, loses a publisher's token: it is in the
   configuration, in the admin document or in a snapshot, unless that one was
   pruned by hand or by an upgrade of other units, or half a backup was copied
   back.  And an upgrade that ends on a box that was whole leaves the
   agent with the document in which its binary looks for the tokens. *)
TokensSurvive ==
    LET held     == IF admin \in {None, Torn} THEN {} ELSE admin
        pair(f)  == {f[Bin("agent")], f[Cfg("agent")]}
        whole(f) == /\ Torn \notin pair(f) \cup {f[Unit("agent")]}
                    /\ 0 \in pair(f) => pair(f) = {0}
    IN  /\ Publishers \subseteq InConfig(file) \cup held \cup waived
                                \cup UNION {TokensIn(n) : n \in DOMAIN snapshots}
        /\ apply # NoApply /\ whole(apply.before) /\ RestartedAgent =>
               Publishers \subseteq IF running["agent"] = 0 THEN InConfig(file) ELSE held
=============================================================================

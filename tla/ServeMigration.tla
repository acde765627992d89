----------------------------- MODULE ServeMigration -----------------------------
(***************************************************************************)
(* migrate-serve: a box that runs relkit-serve becomes one that runs        *)
(* relkit-store.  The configuration and the token files it names are copied *)
(* to a new place, then one unit is stopped and the other started.  A run   *)
(* may fail or be killed anywhere, the box may reboot, and the operator may *)
(* remove the new configuration to run the migration again.                 *)
(***************************************************************************)
EXTENDS Naturals

CONSTANTS
    None,
    Torn,               \* a file that was created and is empty
    Operator,           \* the operator's token file
    StoreProducts,      \* the token files in tokens/
    MaxMigrationCuts    \* bound: failures, kills, reboots

VARIABLES
    moved,          \* what is at the new place: None, Torn or "whole"
    tokensDest,     \* the new tokens/ is there
    serve, store,   \* the two units: is it up, does a reboot start it
    migration,      \* the step of the run, or None
    swapCut,        \* the last run ended after the old unit was stopped, in vain
    migrationCuts

migrationVars == <<moved, tokensDest, serve, store, migration, swapCut, migrationCuts>>

MigrationInit ==
    /\ moved = [f \in {"config", Operator} \union StoreProducts |-> None]
    /\ tokensDest = FALSE
    /\ serve = [up |-> TRUE, enabled |-> TRUE]
    /\ store = [up |-> FALSE, enabled |-> FALSE]
    /\ migration = None /\ swapCut = FALSE /\ migrationCuts = 0

(* A store starts when every file that the configuration names has a token. *)
Startable == \A f \in DOMAIN moved : moved[f] = "whole"

Goto(step) == migration' = step
Trouble == migrationCuts < MaxMigrationCuts /\ migrationCuts' = migrationCuts + 1

-----------------------------------------------------------------------------

(* Mutant: the old unit is stopped first. *)
BeginMigration_StopFirst ==
    /\ migration = None /\ moved["config"] = None
    /\ Goto("config")
    /\ serve' = [serve EXCEPT !.up = FALSE]
    /\ UNCHANGED <<moved, tokensDest, store, swapCut, migrationCuts>>

(* A run begins unless there is a configuration at the new place. *)
BeginMigration ==
    /\ migration = None /\ moved["config"] = None
    /\ Goto("config")
    /\ UNCHANGED <<moved, tokensDest, serve, store, swapCut, migrationCuts>>

WriteConfig ==
    /\ migration = "config"
    /\ moved' = [moved EXCEPT !["config"] = "whole"]
    /\ Goto("operator")
    /\ UNCHANGED <<tokensDest, serve, store, swapCut, migrationCuts>>

(* What is at the new place already is left, whole or not. *)
CopyOperator ==
    /\ migration = "operator"
    /\ moved' = [moved EXCEPT ![Operator] = IF @ = None THEN "whole" ELSE @]
    /\ Goto(IF tokensDest THEN "unit" ELSE "tokens")
    /\ UNCHANGED <<tokensDest, serve, store, swapCut, migrationCuts>>

CopyTokens ==
    /\ migration = "tokens"
    /\ tokensDest' = TRUE
    /\ IF \A f \in StoreProducts : moved[f] = "whole"
       THEN Goto("unit") /\ UNCHANGED moved
       ELSE \E f \in StoreProducts :
                /\ moved[f] = None /\ moved' = [moved EXCEPT ![f] = "whole"]
                /\ UNCHANGED migration
    /\ UNCHANGED <<serve, store, swapCut, migrationCuts>>

(* Writing and verifying the new unit. *)
WriteUnit ==
    /\ migration = "unit"
    /\ Goto("stop")
    /\ UNCHANGED <<moved, tokensDest, serve, store, swapCut, migrationCuts>>

(* Nobody looks at whether the units were disabled and enabled. *)
SwapUnits ==
    /\ \/ /\ migration = "stop" /\ Goto("disable")
          /\ serve' = [serve EXCEPT !.up = FALSE] /\ UNCHANGED <<store, migrationCuts>>
       \/ /\ migration = "disable" /\ Goto("enable") /\ UNCHANGED store
          /\ \/ serve' = [serve EXCEPT !.enabled = FALSE] /\ UNCHANGED migrationCuts
             \/ Trouble /\ UNCHANGED serve
       \/ /\ migration = "enable" /\ Goto("start") /\ UNCHANGED serve
          /\ \/ store' = [store EXCEPT !.enabled = TRUE] /\ UNCHANGED migrationCuts
             \/ Trouble /\ UNCHANGED store
    /\ UNCHANGED <<moved, tokensDest, swapCut>>

(* The run ends with the self-check of the store that it started. *)
StartStore ==
    /\ migration = "start"
    /\ store' = [store EXCEPT !.up = Startable]
    /\ swapCut' = ~Startable
    /\ Goto(None)
    /\ UNCHANGED <<moved, tokensDest, serve, migrationCuts>>

(* A failure or a kill: a file that was being copied may be there and empty. *)
CutMigration ==
    LET copied == CASE migration = "config" -> {"config"}
                    [] migration = "operator" -> {Operator}
                    [] migration = "tokens" -> StoreProducts
                    [] OTHER -> {}
    IN
    /\ migration # None /\ Trouble
    /\ \/ UNCHANGED <<moved, tokensDest>>
       \/ /\ \E f \in copied : moved[f] = None /\ moved' = [moved EXCEPT ![f] = Torn]
          /\ tokensDest' = (tokensDest \/ migration = "tokens")
    /\ swapCut' = (swapCut \/ migration \in {"disable", "enable", "start"})
    /\ Goto(None)
    /\ UNCHANGED <<serve, store>>

(* Whichever of two units takes the port first keeps it. *)
Reboot ==
    /\ migration = None /\ Trouble
    /\ \E serves, stores \in BOOLEAN :
           /\ serves => serve.enabled
           /\ stores => store.enabled /\ Startable
           /\ ~(serves /\ stores)
           /\ serve.enabled \/ (store.enabled /\ Startable) => serves \/ stores
           /\ serve' = [serve EXCEPT !.up = serves]
           /\ store' = [store EXCEPT !.up = stores]
           /\ swapCut' = (swapCut /\ ~serves /\ ~stores)
    /\ UNCHANGED <<moved, tokensDest, migration>>

(* The operator removes the configuration that keeps a run from beginning. *)
ClearConfig ==
    /\ migration = None /\ moved["config"] # None /\ ~store.up
    /\ moved' = [moved EXCEPT !["config"] = None]
    /\ UNCHANGED <<tokensDest, serve, store, migration, swapCut, migrationCuts>>

MigrationNext ==
    \/ BeginMigration \/ WriteConfig \/ CopyOperator \/ CopyTokens \/ WriteUnit
    \/ SwapUnits \/ StartStore \/ CutMigration \/ Reboot \/ ClearConfig

-----------------------------------------------------------------------------
(* Between two runs one of the units serves, and a store that does has every
   token, unless a run was cut after the old unit was stopped or started a store
   that lacks a file which an earlier run had left out (migrate_serve_to_store).
   A box whose units are both disabled has nothing to come back with. *)
SomebodyServes ==
    /\ store.up => Startable
    /\ migration = None /\ ~swapCut /\ (serve.enabled \/ store.enabled)
           => serve.up \/ store.up

=============================================================================

----------------------------- MODULE Administration -----------------------------
(***************************************************************************)
(* What is done to a relkit box by those who run it: the registration,      *)
(* tokens and retirement of a product, the accounts of the operators, the   *)
(* tools that a deploy pipeline publishes, the upgrade of the box itself,   *)
(* the root key it signs with, the upload tokens of its store, and the      *)
(* migration to that store.  The admin document is the only file that more  *)
(* than one of them writes, and each keeps its own account of it, so that a *)
(* behaviour follows one of them.  The parameters of the modules and what   *)
(* is assumed of them are declared here.                                    *)
(***************************************************************************)
EXTENDS Naturals, FiniteSets

CONSTANTS
    None, Torn, Requests,
    Tokens, Backends, Channels, MaxCode, MaxTroubles,                \* product
    Names, Passwords, Products, MaxAccounts, MaxMints, MaxFaults,    \* operators
    Versions, Tools, Bodies, Pipelines,                              \* tools
    Upgrades, Keep, MaxApplies, MaxCuts, Publishers, Issued,         \* upgrade
    KeyIds, Paths, Hands, MaxSeeds, MaxKeyFaults,                    \* keys
    Operator, StoreProducts, MaxFamilies, MaxIssued, MaxCutShort,    \* store
    MaxMigrationCuts                                                 \* migration

ASSUME AdminAssumption ==
    /\ IsFiniteSet(Backends) /\ Backends # {} /\ IsFiniteSet(Channels)
    /\ MaxCode \in Nat \ {0} /\ MaxTroubles \in Nat
    /\ None \notin Requests /\ {None, "directory"} \cap Channels = {} /\ None # "directory"
ASSUME AccountsAssumption ==
    /\ MaxAccounts \in Nat /\ MaxMints \in Nat /\ MaxFaults \in Nat
    /\ None \notin Passwords
ASSUME DeployAssumption ==
    /\ Upgrades \subseteq (SUBSET {"store", "agent", "console"}) \ {{}}
    /\ Keep \in Nat \ {0} /\ MaxApplies \in Nat /\ MaxCuts \in Nat
    /\ Publishers \cap Issued = {}
ASSUME KeysAssumption ==
    /\ MaxSeeds \in Nat /\ MaxKeyFaults \in Nat
    /\ None # Torn /\ None \notin Paths
ASSUME StoreAssumption ==
    /\ MaxFamilies \in Nat /\ MaxIssued \in Nat /\ MaxCutShort \in Nat
    /\ MaxMigrationCuts \in Nat
    /\ {None, Torn, Operator} \cap StoreProducts = {}
    /\ \A x \in {None, Torn, Operator} \cup StoreProducts : x \notin Nat
    /\ None \notin {"whole", "disable", "enable", "start"}

VARIABLES
    task,
    doc, disk, view, productMu, lock, index, directory, tree, req, unsigned, given,
    withdrawn, troubles,
    accountDoc, accountDisk, sessions, registered, command, request, accounts, mints,
    faults, foreign, overwrote,
    tool, sig, manifest, catalog, pipe, host, replaced,
    file, admin, running, legacyUp, holder, snapshots, apply, applies, cutShort, waived,
    keyFile, hand, seeds, reported, agent, pin, keyFaults,
    config, token, issued, storeCommand, granted, revoked, strayed, storeCuts,
    moved, tokensDest, serveUnit, storeUnit, migration, swapCut, migrationCuts

Product   == INSTANCE ProductAdmin
Operators == INSTANCE OperatorAccounts WITH doc <- accountDoc, disk <- accountDisk
Release   == INSTANCE ToolRelease
Box       == INSTANCE ServerDeploy WITH troubles <- cutShort
Keys      == INSTANCE KeyCustody
Store     == INSTANCE StoreTokens WITH command <- storeCommand, cutShort <- storeCuts
Migration == INSTANCE ServeMigration WITH serve <- serveUnit, store <- storeUnit

ASSUME RecordsAssumption ==
    /\ None \notin Operators!Account
    /\ None \notin Versions \cup Bodies /\ Torn \notin Bodies
    /\ {None, Torn} \cap Release!Rows = {}
    /\ \A p, f \in StoreProducts :
          [op |-> "share", step |-> "config", product |-> p, file |-> f] # None
    /\ \A S \in SUBSET (1..MaxIssued) :
          None \notin [S -> [file : StoreProducts \cup Store!Families,
                            products : SUBSET StoreProducts]]
    /\ None \notin [files : [Box!Parts -> Nat \cup {None, Torn}],
                    admin : (SUBSET (Publishers \cup Issued)) \cup {None, Torn}]
    /\ \A S \in SUBSET (Publishers \cup Issued) : S \notin {None, Torn}
    /\ \A half \in {"private", "public"}, id \in KeyIds, seed \in 1..MaxSeeds :
          Keys!Document(half, id, seed) \notin {None, Torn}

productVars  == <<doc, disk, view, productMu, lock, index, directory, tree, req, unsigned,
                  given, withdrawn, troubles>>
operatorVars == <<accountDoc, accountDisk, sessions, registered, command, request,
                  accounts, mints, faults, foreign, overwrote>>
toolVars     == <<tool, sig, manifest, catalog, pipe, host, replaced>>
boxVars      == <<file, admin, running, legacyUp, holder, snapshots, apply, applies,
                  cutShort, waived>>
keyVars      == <<keyFile, hand, seeds, reported, agent, pin, keyFaults>>
storeVars    == <<config, token, issued, storeCommand, granted, revoked, strayed, storeCuts>>
migrationVars == <<moved, tokensDest, serveUnit, storeUnit, migration, swapCut,
                   migrationCuts>>

(* The tasks that are not followed are left out of the state. *)
NoAccounts ==
    /\ accountDoc = None /\ accountDisk = None /\ sessions = None /\ registered = None
    /\ command = None /\ request = None /\ accounts = None /\ mints = None /\ faults = None
    /\ foreign = None /\ overwrote = None

NoTools ==
    /\ tool = None /\ sig = None /\ manifest = None /\ catalog = None /\ pipe = None
    /\ host = None /\ replaced = None

NoUpgrade ==
    /\ file = None /\ admin = None /\ running = None /\ legacyUp = None /\ holder = None
    /\ snapshots = None /\ apply = None /\ applies = None /\ cutShort = None
    /\ waived = None

NoKeys ==
    /\ keyFile = None /\ hand = None /\ seeds = None /\ reported = None /\ agent = None
    /\ pin = None /\ keyFaults = None

NoStore ==
    /\ config = None /\ token = None /\ issued = None /\ storeCommand = None
    /\ granted = None /\ revoked = None /\ strayed = None /\ storeCuts = None

NoMigration ==
    /\ moved = None /\ tokensDest = None /\ serveUnit = None /\ storeUnit = None
    /\ migration = None /\ swapCut = None /\ migrationCuts = None

Init ==
    /\ task \in {"product", "operators", "tools", "upgrade", "keys", "store", "migration"}
    /\ Product!Init /\ (task # "product" => tree)
    /\ IF task = "operators" THEN Operators!AccountsInit ELSE NoAccounts
    /\ IF task = "tools" THEN Release!ToolsInit ELSE NoTools
    /\ IF task = "upgrade" THEN Box!DeployInit ELSE NoUpgrade
    /\ IF task = "keys" THEN Keys!KeysInit ELSE NoKeys
    /\ IF task = "store" THEN Store!StoreInit ELSE NoStore
    /\ IF task = "migration" THEN Migration!MigrationInit ELSE NoMigration

RunProduct ==
    /\ task = "product"
    /\ Product!Next
    /\ UNCHANGED <<task, operatorVars, toolVars, boxVars, keyVars, storeVars, migrationVars>>

ManageAccounts ==
    /\ task = "operators"
    /\ Operators!AccountsNext
    /\ UNCHANGED <<task, productVars, toolVars, boxVars, keyVars, storeVars, migrationVars>>

ReleaseTools ==
    /\ task = "tools"
    /\ Release!ToolsNext
    /\ UNCHANGED <<task, productVars, operatorVars, boxVars, keyVars, storeVars, migrationVars>>

UpgradeBox ==
    /\ task = "upgrade"
    /\ Box!DeployNext
    /\ UNCHANGED <<task, productVars, operatorVars, toolVars, keyVars, storeVars, migrationVars>>

KeepKeys ==
    /\ task = "keys"
    /\ Keys!KeysNext
    /\ UNCHANGED <<task, productVars, operatorVars, toolVars, boxVars, storeVars, migrationVars>>

InitStore ==
    /\ task = "store"
    /\ Store!StoreNext
    /\ UNCHANGED <<task, productVars, operatorVars, toolVars, boxVars, keyVars,
                   migrationVars>>

MigrateServe ==
    /\ task = "migration"
    /\ Migration!MigrationNext
    /\ UNCHANGED <<task, productVars, operatorVars, toolVars, boxVars, keyVars, storeVars>>

Next ==
    \/ RunProduct \/ ManageAccounts \/ ReleaseTools \/ UpgradeBox \/ KeepKeys
    \/ InitStore \/ MigrateServe

vars == <<task, productVars, operatorVars, toolVars, boxVars, keyVars, storeVars,
          migrationVars>>

Spec == Init /\ [][Next]_vars

-----------------------------------------------------------------------------
(* Properties: those of the modules. *)

(* A token whose withdrawal was answered opens nothing any more, at the agent
   (RevokeToken, RotateToken, reloadAdmin) or at a store that starts
   (runInitRemoveProduct, upsertProductToken). *)
WithdrawnOpensNothing ==
    Product!WithdrawnOpensNothing /\ (task = "store" => Store!RevokedOpensNothing)

(* While a product is registered every code that is handed out is higher than
   the published ones and the others, and its registration goes only after the
   documents that lead clients to it (AllocateReleaseCode, adminRetireProduct). *)
RegistrationHolds == Product!CodesStayFresh /\ Product!RetiredIsUnresolvable

(* While there are accounts one of them is an admin, in memory and in the file,
   and a session does not open a later account of the same name (SetRole,
   DeleteUser, persistLocked, dropSessionsLocked). *)
AccountsHold == task = "operators" => Operators!AdminRemains /\ Operators!DeletedStaysOut

(* A build machine gets a tool whose signature verifies, or one of three known
   races is to blame (putTool, handleToolPublish, handleToolByComponent). *)
HostGetsTool == task = "tools" => Release!HostGetsTool

(* An upgrade that is reported as done is what serves, and a rolled back one has
   left every restorable part as it was (require_listener_belongs_to,
   rollback). *)
OutcomeIsTrue == task = "upgrade" => Box!SuccessIsServed /\ Box!RollbackRestores

(* No failed or killed upgrade loses the tokens of the publishers
   (epoch_split_agent_config, admin_merge, rollback), and no command on one
   product of the store locks out another, or keeps the store from starting,
   but in two known ways (shareProductToken, removeProductToken), nor does the
   migration to the store (migrate_serve_to_store). *)
TokensSurvive ==
    /\ task = "upgrade" => Box!TokensSurvive
    /\ task = "store" => Store!TokensOpen
    /\ task = "migration" => Migration!SomebodyServes

(* A reported key pair stays what it is, and a host that pinned the registered
   root verifies what the agent signs (writeNewKey, Root). *)
KeysHold == task = "keys" => Keys!KeysHold

=============================================================================

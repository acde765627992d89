------------------------------- MODULE StoreTokens -------------------------------
(***************************************************************************)
(* The configuration of relkit-store: the commands of `relkit-store init`   *)
(* that issue, rotate, share and withdraw upload tokens, the installer that *)
(* calls it, and what a store that starts makes of the files.  One operator *)
(* runs one command at a time; a command may be cut short anywhere.         *)
(*                                                                          *)
(* A token file is named after its product, after a family of products that *)
(* share it, or is the operator's.  An entry of the configuration lets one  *)
(* file open some products.                                                 *)
(***************************************************************************)
EXTENDS Naturals

CONSTANTS
    None,
    Torn,           \* a file of which not all is there, or that does not load
    Operator,       \* the operator's token file
    StoreProducts,  \* products, and the token files named after them
    MaxFamilies,    \* bound: shared token files, which have numbers
    MaxIssued,      \* bound: tokens generated
    MaxCutShort     \* bound: commands cut short

VARIABLES
    config,         \* position -> entry, Torn or None
    token,          \* token file -> token, Torn or None
    issued,         \* tokens generated so far
    command,        \* the command that runs, or None
    granted,        \* <<token, product>> that a command reported
    revoked,        \* <<token, product>> that a command took back
    strayed,        \* the files went apart in one of the two known ways
    cutShort        \* commands cut short so far

storeVars == <<config, token, issued, command, granted, revoked, strayed, cutShort>>

Families == 1..MaxFamilies
TokenFiles == {Operator} \union StoreProducts \union Families

StoreInit ==
    /\ config = None /\ token = [f \in TokenFiles |-> None] /\ issued = 0
    /\ command = None
    /\ granted = {} /\ revoked = {} /\ strayed = FALSE /\ cutShort = 0

-----------------------------------------------------------------------------
(* The configuration.  The positions of the entries are in their order, and need
   not be next to each other. *)

Entry(file, products) == [file |-> file, products |-> products]

(* What init writes: the operator's token alone. *)
Skeleton == [i \in {} |-> None]

Loads == config \notin {None, Torn}

Listing(p) == {i \in DOMAIN config : p \in config[i].products}

(* A product that is listed twice counts as not listed. *)
productTokenFile(p) ==
    IF \E i \in DOMAIN config : Listing(p) = {i}
    THEN config[CHOOSE i \in Listing(p) : TRUE].file ELSE None

(* A new entry comes last: its token is the last that was issued. *)
upsertProductToken(entries, p) ==
    LET only == {i \in DOMAIN entries : entries[i].products = {p}}
        first == CHOOSE i \in only : \A j \in only : i <= j
    IN IF only # {} THEN [entries EXCEPT ![first].file = p]
       ELSE [i \in DOMAIN entries \union {issued} |->
                IF i \in DOMAIN entries THEN entries[i] ELSE Entry(p, {p})]

shareProductToken(p, from, file) ==
    [i \in DOMAIN config |->
        IF config[i].file = from THEN Entry(file, config[i].products \union {p}) ELSE config[i]]

(* Mutant: the whole entry goes, whoever shares it. *)
removeProductToken_Entry(p) ==
    [i \in {i \in DOMAIN config : p \notin config[i].products} |-> config[i]]

removeProductToken(p) ==
    [i \in {i \in DOMAIN config : config[i].products \ {p} # {}} |->
        Entry(config[i].file, config[i].products \ {p})]

(* The file that nothing names once the product is gone: the last, if many. *)
Orphan(p) ==
    LET own == {i \in DOMAIN config : config[i].products = {p}} IN
    IF own = {} THEN None ELSE config[CHOOSE i \in own : \A j \in own : j <= i].file

FreeFamilies == Families \ {config[i].file : i \in DOMAIN config}
NextFamilyRel == CHOOSE f \in FreeFamilies : \A g \in FreeFamilies : f <= g

(* Credentials of a store that starts: the operator's file and every one that
   an entry names must be there, each with a token of its own. *)
Named == {Operator} \union {config[i].file : i \in DOMAIN config}

CredentialsFromFileConfig ==
    {<<token[Operator], Operator>>} \union
    UNION {{token[config[i].file]} \X config[i].products : i \in DOMAIN config}

hashedTokenFromFile(f) == token[f] \notin {None, Torn}

Starts ==
    /\ Loads
    /\ \A f \in Named : hashedTokenFromFile(f)
    /\ \A i, j \in DOMAIN config : i # j => token[config[i].file] # token[config[j].file]
    /\ \A i \in DOMAIN config : token[config[i].file] # token[Operator]

-----------------------------------------------------------------------------
(* Commands begin with their checks and go on file by file. *)

Begin(op, step, p, file) ==
    /\ command = None
    /\ command' = [op |-> op, step |-> step, product |-> p, file |-> file]
    /\ UNCHANGED <<config, token, issued, granted, revoked, strayed, cutShort>>

runInit(force) ==
    /\ issued < MaxIssued
    /\ force \/ (config = None /\ token[Operator] = None)
    /\ Begin("init", "token", Operator, Operator)

(* The installer keeps what is there, and starts anew when either is missing. *)
InstallServe ==
    /\ issued < MaxIssued
    /\ config = None \/ token[Operator] = None
    /\ Begin("init", "token", Operator, Operator)

RotateOperator ==
    /\ issued < MaxIssued
    /\ Begin("rotate", "token", Operator, Operator)

runInitProduct(p, force) ==
    /\ issued < MaxIssued
    /\ force \/ token[p] = None
    /\ Begin("add", "token", p, p)

RotateProduct(p) ==
    /\ issued < MaxIssued /\ Loads /\ productTokenFile(p) # None
    /\ Begin("rotate", "token", p, productTokenFile(p))

(* A shared file that is named after a product is renamed first. *)
runInitShareProduct(p, with) ==
    /\ p # with /\ Loads /\ productTokenFile(p) = None /\ productTokenFile(with) # None
    /\ LET file == productTokenFile(with) IN
       /\ FreeFamilies # {}
       /\ Begin("share", IF file \in StoreProducts THEN "rename" ELSE "config", p, file)

runInitRemoveProduct(p) ==
    /\ Loads /\ Listing(p) # {}
    /\ Begin("remove", "config", p, Orphan(p))

-----------------------------------------------------------------------------
(* Steps. *)

At(step) == command # None /\ command.step = step

PairsOf(f) == {g \in granted : g[1] = token[f]}

(* What a command has to say when it ends. *)
Report(new, gone) ==
    /\ granted' = (granted \ gone) \union new
    /\ revoked' = (revoked \union gone) \ new

SameGrants == UNCHANGED <<granted, revoked>>

(* A rotation ends with the file: what the old token opened the new one does. *)
writeTokenFile ==
    /\ At("token")
    /\ issued' = issued + 1
    /\ token' = [token EXCEPT ![command.file] = issued']
    /\ IF command.op = "rotate"
       THEN /\ command' = None
            /\ Report({<<issued', g[2]>> : g \in PairsOf(command.file)}, PairsOf(command.file))
       ELSE /\ command' = [command EXCEPT !.step = "config"]
            /\ Report({}, PairsOf(command.file))
    /\ UNCHANGED <<config, strayed, cutShort>>

(* The token that a product's publishers are told of, once the entry is there. *)
Told(p, f) == IF hashedTokenFromFile(f) THEN {<<token[f], p>>} ELSE {}

WriteSkeleton ==
    /\ At("config") /\ command.op = "init"
    /\ config' = Skeleton
    /\ Report(Told(Operator, Operator), granted)
    /\ command' = None
    /\ UNCHANGED <<token, issued, strayed, cutShort>>

(* Without a configuration there is a skeleton first; one that does not load
   ends the command.  An entry found for a product that is listed twice may be
   the other one. *)
WriteAdded ==
    LET p == command.product
        entries == IF config = None THEN Skeleton ELSE config
    IN
    /\ At("config") /\ command.op = "add"
    /\ IF config = Torn THEN SameGrants /\ UNCHANGED <<config, strayed>>
       ELSE /\ config' = upsertProductToken(entries, p)
            /\ LET moved == {i \in DOMAIN entries : entries[i] # config'[i]} IN
               Report(Told(p, p), granted \cap {<<token[entries[i].file], p>> : i \in moved})
            /\ strayed' = (strayed \/ \E i, j \in DOMAIN config' :
                                          i # j /\ config'[i].file = config'[j].file)
    /\ command' = None
    /\ UNCHANGED <<token, issued, cutShort>>

(* A file that is not there cannot be renamed. *)
PromoteFile ==
    /\ At("rename")
    /\ IF token[command.file] = None
       THEN command' = None /\ UNCHANGED token
       ELSE /\ command' = [command EXCEPT !.step = "config"]
            /\ token' = [token EXCEPT ![command.file] = None,
                                      ![NextFamilyRel] = token[command.file]]
    /\ UNCHANGED <<config, issued, granted, revoked, strayed, cutShort>>

(* An entry that lists the product already would list it twice, and is then
   refused by whoever loads it. *)
WriteShared ==
    LET p == command.product
        from == command.file
        file == IF from \in StoreProducts THEN NextFamilyRel ELSE from
        twice == \E i \in DOMAIN config : config[i].file = from /\ p \in config[i].products
    IN
    /\ At("config") /\ command.op = "share"
    /\ config' = IF twice THEN Torn ELSE shareProductToken(p, from, file)
    /\ strayed' = (strayed \/ twice)
    /\ Report(Told(p, file), {})
    /\ command' = None
    /\ UNCHANGED <<token, issued, cutShort>>

(* The entry goes before its file. *)
WriteRemoved ==
    LET p == command.product IN
    /\ At("config") /\ command.op = "remove"
    /\ config' = removeProductToken(p)
    /\ Report({}, {g \in granted : g[2] = p})
    /\ command' = IF command.file = None THEN None ELSE [command EXCEPT !.step = "file"]
    /\ UNCHANGED <<token, issued, strayed, cutShort>>

RemoveFile ==
    /\ At("file")
    /\ token' = [token EXCEPT ![command.file] = None]
    /\ command' = None
    /\ UNCHANGED <<config, issued, granted, revoked, strayed, cutShort>>

(* A command is killed or a write fails: what it was writing is as before or
   torn, and what it had replaced is gone.  A file that was renamed is not where
   the configuration says. *)
CutShort ==
    /\ command # None
    /\ cutShort < MaxCutShort /\ cutShort' = cutShort + 1
    /\ command' = None
    /\ \/ UNCHANGED <<config, token>>
       \/ At("token") /\ token' = [token EXCEPT ![command.file] = Torn] /\ UNCHANGED config
       \/ At("config") /\ config' = Torn /\ UNCHANGED token
       \/ /\ At("config") /\ command.op = "add" /\ config = None
          /\ config' = Skeleton /\ UNCHANGED token
    /\ strayed' = (strayed \/ (At("config") /\ command.op = "share"
                                  /\ command.file \in StoreProducts))
    /\ Report({}, IF token' # token THEN PairsOf(command.file) ELSE {})
    /\ UNCHANGED issued

StoreNext ==
    \/ \E force \in BOOLEAN : runInit(force)
    \/ InstallServe \/ RotateOperator
    \/ \E p \in StoreProducts :
           \/ \E force \in BOOLEAN : runInitProduct(p, force)
           \/ RotateProduct(p) \/ runInitRemoveProduct(p)
           \/ \E with \in StoreProducts : runInitShareProduct(p, with)
    \/ writeTokenFile \/ WriteSkeleton \/ WriteAdded \/ PromoteFile \/ WriteShared
    \/ WriteRemoved \/ RemoveFile \/ CutShort

-----------------------------------------------------------------------------
(* A token that was taken back, from one product or altogether, is not accepted
   again by a store that starts, whatever commands follow or are cut short. *)
RevokedOpensNothing == Loads => CredentialsFromFileConfig \cap revoked = {}

(* Between two commands the store can be started, and every token that was
   reported opens its product: no command on one product locks out another that
   shares its file, and one that is cut short takes only what it was writing.
   What breaks it is strayed: a cut between the renaming of a shared file and
   the configuration, or a second entry for a product that is listed already. *)
TokensOpen ==
    \/ command # None \/ strayed
    \/ config \in {None, Torn}
    \/ token[Operator] = None
    \/ \E f \in Named : token[f] = Torn
    \/ Starts /\ granted \subseteq CredentialsFromFileConfig

=============================================================================

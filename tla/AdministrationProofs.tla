------------------------- MODULE AdministrationProofs -------------------------
(***************************************************************************)
(* Proofs about Administration, for every number of requests, tokens,      *)
(* backends, channels, accounts, key documents and failures.  The tasks    *)
(* share no state, so that each has an invariant of its own, and a step of *)
(* one leaves the others' alone.                                           *)
(***************************************************************************)
EXTENDS Administration, Sequences, FiniteSetTheorems, WellFoundedInduction, TLAPS

-----------------------------------------------------------------------------
(* The product. *)

HandlerType ==
    [op : {"idle", "token", "register", "claim", "write", "retire"},
     step : {"none", "token", "reload", "credentials", "assign", "sign", "floor", "lock",
             "channels", "remove"},
     floor : Nat, seen : SUBSET (Channels \X Product!Codes), todo : SUBSET Channels,
     key : Channels \cup {None, "directory"}, failed : BOOLEAN,
     credentials : SUBSET Tokens, dead : SUBSET Tokens]

ProductOK == Product!TypeOK /\ req \in [Requests -> HandlerType]

(* A token that a request takes back has left the document, and the credentials
   that it will put into the view are without it. *)
TokensFit(q) ==
    /\ q.dead \cap doc.tokens = {}
    /\ q.step = "assign" => q.credentials \cap (withdrawn \cup q.dead) = {}

(* The floor of a claim covers the channels it has read. *)
FloorFits(q) ==
    /\ q.seen \subseteq Product!Listed(index)
    /\ q.op = "claim" => \A p \in q.seen : p[1] \in q.todo \/ p[2] <= q.floor

(* What a retirement that has not failed has deleted stays deleted. *)
Gone(idx, ch) == \A b \in Backends : idx[b][ch] = {}

Retirement(q, idx, dir) ==
    q.op = "retire" =>
        /\ q.step = "channels" =>
              /\ q.key # "directory"
              /\ tree /\ ~q.failed => \A ch \in Channels \ (q.todo \cup {q.key}) : Gone(idx, ch)
        /\ q.step = "remove" =>
              /\ q.key \notin Channels
              /\ tree /\ ~q.failed => /\ \A ch \in Channels : Gone(idx, ch)
                                      /\ q.key = None => dir = {}

RetirementFits(q) == Retirement(q, index, directory)

HandlerFits(q) == TokensFit(q) /\ FloorFits(q) /\ RetirementFits(q)

ProductInv ==
    /\ ProductOK
    /\ withdrawn \cap (view.credentials \cup doc.tokens) = {}
    /\ \A c \in given : c <= doc.last
    /\ \A r \in Requests : HandlerFits(req[r])

-----------------------------------------------------------------------------
(* The accounts. *)

IssueType == [at : {"issue"}, name : Names]

ChangeType ==
    {c \in [at : {"delete", "password", "products", "role", "add"}, name : Names,
            role : {"admin", "owner", None}, products : SUBSET Products,
            password : Passwords \cup {None}] :
        /\ c.at \in {"role", "add"} => c.role \in {"admin", "owner"}
        /\ c.at \in {"password", "add"} => c.password \in Passwords}

DocumentType == [users : [Names -> Operators!Account \cup {None}], bootstrap : Nat]

AccountsOK ==
    /\ accountDoc \in DocumentType /\ accountDisk \in DocumentType
    /\ sessions \subseteq [name : Names, of : Nat] /\ registered \subseteq Products
    /\ command \in DocumentType \cup {None}
    /\ request \in [Requests -> {Operators!Idle} \cup IssueType \cup ChangeType]
    /\ accounts \in 0..MaxAccounts /\ mints \in Nat /\ faults \in Nat
    /\ foreign \in BOOLEAN /\ overwrote \in BOOLEAN

(* The other process found nobody, and a change was asked for by somebody. *)
SomebodyAsks ==
    /\ command # None => Operators!Present(command) = {}
    /\ overwrote \/ \A r \in Requests : request[r] \in ChangeType => Operators!Present(accountDoc) # {}

(* The account of a session is the one it was issued for, as long as it lives. *)
SessionsFit ==
    \A s \in sessions : s.of # 0 =>
        accountDoc.users[s.name] # None /\ accountDoc.users[s.name].born = s.of

AccountsInv == AccountsOK /\ SomebodyAsks /\ SessionsFit /\ Operators!AdminRemains

-----------------------------------------------------------------------------
(* The keys. *)

(* Files that the command of o has made. *)
Made(o) ==
    IF hand[o].half = "public"
    THEN {hand[o].private} \cup (IF hand[o].at = "write" THEN {hand[o].public} ELSE {})
    ELSE IF hand[o].at = "write" THEN {hand[o].private} ELSE {}

CommandType ==
    [id : KeyIds, seed : 1..MaxSeeds, private : Paths, public : Paths,
     half : {"private", "public"}, at : {"open", "write"}]

ReportType == [id : KeyIds, seed : 1..MaxSeeds, private : Paths, public : Paths]

KeyDocuments == [half : {"private", "public"}, id : KeyIds, seed : 1..MaxSeeds]

KeysOK ==
    /\ keyFile \in [Paths -> KeyDocuments \cup {None, Torn}]
    /\ hand \in [Hands -> CommandType \cup {None}]
    /\ seeds \in 0..MaxSeeds /\ keyFaults \in Nat
    /\ reported \subseteq ReportType
    /\ \A o \in Hands : hand[o] # None => hand[o].private # hand[o].public

(* Nobody else has the files of a command, and its private document is whole
   once it has gone on to the public one. *)
OwnFiles ==
    \A o \in Hands : hand[o] # None =>
        /\ \A p \in Made(o) : keyFile[p] # None
        /\ hand[o].half = "public" =>
              keyFile[hand[o].private] = Keys!Document("private", hand[o].id, hand[o].seed)
        /\ \A q \in Hands \ {o} : hand[q] # None => Made(o) \cap Made(q) = {}
        /\ \A r \in reported : {r.private, r.public} \cap Made(o) = {}

(* Both documents of a reported pair are there. *)
PairsStay ==
    \A r \in reported :
        /\ keyFile[r.private] = Keys!Document("private", r.id, r.seed)
        /\ keyFile[r.public] = Keys!Document("public", r.id, r.seed)

(* A running agent signs with the registered key. *)
AgentFits == agent # None => agent.seed = agent.fingerprint

KeysInv == KeysOK /\ OwnFiles /\ PairsStay /\ AgentFits

-----------------------------------------------------------------------------
(* The store. *)

EntryType == [file : StoreProducts \cup Store!Families, products : SUBSET StoreProducts]

StoreCommand ==
    [op : {"init", "rotate", "add", "share", "remove"}, step : {"token", "config", "rename", "file"},
     product : StoreProducts \cup {Operator}, file : Store!TokenFiles \cup {None}]

Pairs == (1..issued) \X (StoreProducts \cup {Operator})

StoreOK ==
    /\ issued \in 0..MaxIssued
    /\ token \in [Store!TokenFiles -> 1..issued \cup {None, Torn}]
    /\ Store!Loads => config \in [DOMAIN config -> EntryType] /\ DOMAIN config \subseteq 1..issued
    /\ storeCommand \in StoreCommand \cup {None}
    /\ granted \subseteq Pairs /\ revoked \subseteq Pairs
    /\ strayed \in BOOLEAN /\ storeCuts \in Nat

(* No two files have the same token. *)
TokensDiffer ==
    \A f, g \in Store!TokenFiles : token[f] = token[g] /\ token[f] \notin {None, Torn} => f = g

(* A file that is named after a product is that product's, and only such a file
   is named by two entries. *)
EntriesFit ==
    Store!Loads =>
        /\ \A i \in DOMAIN config : config[i].file \in StoreProducts => config[i].products = {config[i].file}
        /\ \A i, j \in DOMAIN config : i # j /\ config[i].file = config[j].file => config[i].file \in StoreProducts

(* The entry that a command is about to share, and the name its file gets. *)
ShareFits(c) ==
    /\ c.op = "share" /\ Store!Loads /\ c.product \in StoreProducts
    /\ Store!FreeFamilies # {}
    /\ \E i \in DOMAIN config : \A j \in DOMAIN config : config[j].file = c.file <=> j = i
    /\ c.file \in StoreProducts /\ c.step = "config" => <<token[Store!NextFamilyRel], c.file>> \notin revoked

CommandFits ==
    storeCommand # None =>
        LET c == storeCommand IN
        /\ c.step = "token" =>
              /\ c.op \in {"init", "rotate", "add"} /\ c.file \in Store!TokenFiles /\ issued < MaxIssued
              /\ c.op = "add" => c.product \in StoreProducts
        /\ c.step = "config" =>
              /\ c.op \in {"init", "add", "share", "remove"}
              /\ c.op = "add" => c.product \in StoreProducts /\ issued > 0
              /\ c.op = "add" /\ Store!Loads => issued \notin DOMAIN config
              /\ c.op = "remove" => Store!Loads /\ c.product \in StoreProducts
        /\ c.step = "rename" => c.file \in StoreProducts
        /\ c.step = "rename" \/ c.op = "share" => ShareFits(c)
        /\ c.step = "file" => c.file \in Store!TokenFiles

(* No entry, and not the operator, has a token that was taken back. *)
Withheld ==
    /\ <<token[Operator], Operator>> \notin revoked
    /\ Store!Loads => \A i \in DOMAIN config : \A p \in config[i].products :
                          <<token[config[i].file], p>> \notin revoked

StoreInv == StoreOK /\ TokensDiffer /\ EntriesFit /\ CommandFits /\ Withheld

-----------------------------------------------------------------------------
(* The tools. *)

Catalogs == [current : Versions \cup {None}, releases : [Versions -> Release!Rows]]

PipeType ==
    [at : {"waiting", "ended", "upload", "receive", "hash", "sign", "signed", "manifest",
           "catalog", "merge"},
     version : Versions \cup {None}, build : Release!Rows, todo : SUBSET Tools,
     name : Tools \cup {None}, rows : Release!Rows, read : Catalogs]

HostType ==
    [at : {"away", "resolve", "get", "again", "verify", "run", "failed"},
     tool : Tools \cup {None}, pinned : Versions \cup {None},
     version : Versions \cup {None}, body : Bodies \cup {None},
     moved : BOOLEAN, torn : BOOLEAN]

ToolsOK ==
    /\ tool \in [Versions -> Release!Rows]
    /\ sig \in [Versions -> [Tools -> Bodies \cup {None, Torn}]]
    /\ manifest \in [Versions -> Release!Rows \cup {None, Torn}]
    /\ catalog \in Catalogs
    /\ pipe \in [Pipelines -> PipeType]
    /\ host \in HostType

(* A signature is of the file beside it, and a manifest names files that are
   signed, unless an upload replaced one. *)
SignedFits ==
    \A v \in Versions, t \in Tools :
        /\ replaced = {} => sig[v][t] \in {None, Torn, tool[v][t]}
        /\ manifest[v] \notin {None, Torn} /\ manifest[v][t] # None =>
               /\ sig[v][t] # None
               /\ replaced = {} => manifest[v][t] = tool[v][t]

(* Where a catalog sends a host there is a manifest. *)
CatalogFits(c) ==
    \A v \in Versions :
        c.current = v \/ (\E t \in Tools : c.releases[v][t] # None) => manifest[v] # None

(* What a pipeline has signed is there and has a signature. *)
PipeFits(q) ==
    q.at \notin {"waiting", "ended"} =>
        /\ q.version \in Versions
        /\ \A t \in q.todo : q.build[t] # None
        /\ q.at \in {"receive", "sign", "signed"} => q.name \in q.todo
        /\ q.at = "sign" => tool[q.version][q.name] # None
        /\ q.at = "signed" => q.rows[q.name] # None
        /\ q.at \in {"catalog", "merge"} => manifest[q.version] # None
        /\ q.at = "merge" => CatalogFits(q.read)
        /\ \A t \in Tools : q.rows[t] # None =>
               /\ sig[q.version][t] # None
               /\ replaced = {} => q.rows[t] = tool[q.version][t]

(* A host that has a file of a version finds its signature there. *)
HostFits ==
    /\ host.at \in {"resolve", "get", "again", "verify"} =>
           /\ host.tool \in Tools
           /\ host.pinned # None => host.pinned \in Versions /\ manifest[host.pinned] # None
    /\ host.at \in {"resolve", "get"} => host.body = None
    /\ host.at \in {"get", "again", "verify"} =>
           host.version \in Versions /\ manifest[host.version] # None
    /\ host.at \in {"again", "verify"} => host.body # None
    /\ host.at = "again" \/ (host.at = "verify" /\ ~host.moved) =>
           /\ sig[host.version][host.tool] # None
           /\ replaced = {} => host.body = tool[host.version][host.tool]
    /\ Release!HostGetsTool

ToolsInv ==
    /\ ToolsOK /\ SignedFits /\ CatalogFits(catalog)
    /\ \A p \in Pipelines : PipeFits(pipe[p])
    /\ HostFits

(* A shared file was renamed, and the configuration does not know yet. *)
Renamed ==
    /\ storeCommand # None /\ storeCommand.op = "share" /\ storeCommand.step = "config"
    /\ storeCommand.file \in StoreProducts

FileOf(i) == IF Renamed /\ config[i].file = storeCommand.file THEN Store!NextFamilyRel ELSE config[i].file

(* Every entry has a file of its own with a token in it, and what was reported of a
   token is opened by an entry, or by the operator. *)
EntriesOpen ==
    /\ \A i, j \in DOMAIN config : config[i].file = config[j].file => i = j
    /\ \A i \in DOMAIN config : token[FileOf(i)] # None
    /\ \A g \in granted : \/ g = <<token[Operator], Operator>>
                          \/ \E i \in DOMAIN config : g[1] = token[FileOf(i)] /\ g[2] \in config[i].products

(* What a command under way has made sure of. *)
CommandOpen ==
    storeCommand # None =>
        LET c == storeCommand IN
        /\ c.op = "add" => c.file = c.product
        /\ c.op = "add" /\ c.step = "config" => token[c.product] \notin {None, Torn}
        /\ c.op = "remove" /\ c.step = "config" /\ c.file # None =>
              \E i \in DOMAIN config : config[i].file = c.file /\ config[i].products = {c.product}
        /\ c.step = "file" => c.file # Operator /\ (Store!Loads => \A i \in DOMAIN config : config[i].file # c.file)

(* Unless the files went astray in one of the two known ways. *)
OpenFits ==
    ~strayed => /\ config = None => granted = {}
                /\ Store!Loads => EntriesOpen
                /\ CommandOpen

UnitType == [up : BOOLEAN, enabled : BOOLEAN]

(* One of the units is up, or none comes back by itself. *)
UnitsServe == serveUnit.enabled \/ storeUnit.enabled => serveUnit.up \/ storeUnit.up

(* The state of a migration, whatever was cut. *)
MigrationInv ==
    /\ moved \in [{"config", Operator} \cup StoreProducts -> {None, Torn, "whole"}]
    /\ serveUnit \in UnitType /\ storeUnit \in UnitType /\ swapCut \in BOOLEAN
    /\ storeUnit.up => Migration!Startable
    /\ serveUnit.up => serveUnit.enabled
    /\ IF migration \in {"disable", "enable", "start"} THEN ~serveUnit.up ELSE swapCut \/ UnitsServe

(* What a part of the box, an admin document and a snapshot may be. *)
Content == Nat \cup {None, Torn}

(* What rollback restores. *)
Restorable == {Box!Restored[i] : i \in DOMAIN Box!Restored}

AdminDocument == (SUBSET (Publishers \cup Issued)) \cup {None, Torn}

Snapshot == [files : [Box!Parts -> Content], admin : AdminDocument]

(* The steps of an apply, and those that the argument is about. *)
StepType == [op : {"backup", "retire", "load", "merge", "write", "install", "restart",
                   "running", "listener", "probe"},
             unit : Box!Units, part : Box!Parts \cup {None}]

AgentCfg == Box!Cfg("agent")

Saves(u) == Box!Step("backup", u, None)

Merges == Box!Step("merge", "agent", None)

Loads == Box!Step("load", "agent", AgentCfg)

Restarts(u) == Box!Step("restart", u, None)

Listener(u) == Box!Step("listener", u, None)

Writes(u) == {Box!Step("write", u, Box!Cfg(u)), Box!Step("install", u, Box!Bin(u)),
              Box!Step("write", u, Box!Unit(u))}

(* A list of steps, or of parts, and what is in it. *)
Has(s, x) == \E i \in 1..Len(s) : s[i] = x

(* What may not come before what. *)
Wrong(a, b) ==
    /\ a.unit = b.unit
    /\ \/ a.op \in {"write", "install", "retire"} /\ b.op = "backup"
       \/ /\ a.op = "write" /\ a.part = Box!Cfg(a.unit)
          /\ b.op = "merge" \/ (b.op = "load" /\ b.part = Box!Cfg(b.unit))
       \/ a.op = "restart" /\ b \in Writes(b.unit)
       \/ a.op = "listener" /\ b.op = "restart" /\ a.unit = "store"

InOrder(s) == \A i, j \in 1..Len(s) : i < j => ~Wrong(s[i], s[j])

(* A step is about a unit and a part of that unit. *)
StepFits(s, units) ==
    /\ s \in StepType /\ s.unit \in units
    /\ s.op \in {"backup", "merge", "retire", "restart", "listener"} => s = Box!Step(s.op, s.unit, None)
    /\ s.op = "merge" => s.unit = "agent"
    /\ s.op = "retire" => s.unit = "store"
    /\ s.op \in {"load", "write", "install"} => s.part \in Box!Parts /\ s.part[1] = s.unit
    /\ s.op \in {"write", "install"} /\ s.part \in Restorable =>
           s.part \in Box!BackedUp(s.unit) /\ s.part # Box!Legacy
    /\ s.op = "install" => s.part # AgentCfg

(* What every part of a program is. *)
Segment(t, units) ==
    /\ t \in Seq(StepType) /\ InOrder(t)
    /\ \A x : Has(t, x) => StepFits(x, units)

(* The apply in progress, the snapshot it has made, and the tokens of the document. *)
ApplyType == [at : {"steps", "rollback", "ok", "restored"}, n : Nat, units : SUBSET Box!Units,
              restart : BOOLEAN, todo : Seq(StepType) \cup Seq(Restorable),
              before : [Box!Parts -> Content], whole : BOOLEAN, blind : BOOLEAN]

Running == apply # Box!NoApply

Saved == snapshots[applies].files

Held == IF admin \in {None, Torn} THEN {} ELSE admin

(* What a box consists of, and what an apply in progress is. *)
BoxType ==
    /\ file \in [Box!Parts -> Content] /\ admin \in AdminDocument
    /\ running \in [Box!Units -> Content]
    /\ snapshots \in [1..MaxApplies -> Snapshot \cup {None}]
    /\ applies \in 0..MaxApplies
    /\ \A m \in 1..MaxApplies : m > applies => snapshots[m] = None
    /\ \A p \in Restorable \ {Box!Legacy} : file[p] # None

ApplyOK ==
    Running =>
        /\ apply \in ApplyType /\ apply.n = applies
        /\ applies \in 1..MaxApplies /\ snapshots[applies] \in Snapshot
        /\ \A p \in Restorable \ {Box!Legacy} : apply.before[p] # None
        /\ apply.at \in {"ok", "restored"} => apply.todo = <<>>

(* The steps that are left, and what those that are done have left behind. *)
StepsFit ==
    Running /\ apply.at = "steps" =>
        /\ Segment(apply.todo, apply.units) /\ apply.whole
        /\ \A u \in apply.units : \A p \in Restorable : p[1] = u =>
              /\ Has(apply.todo, Saves(u)) => file[p] = apply.before[p]
              /\ Has(apply.todo, Saves(u)) \/ Saved[p] = apply.before[p]
        /\ "agent" \in apply.units =>
              /\ Has(apply.todo, Loads) \/ file[AgentCfg] # Torn
              /\ Has(apply.todo, Merges) \/ file[AgentCfg] # 0 \/ Publishers \subseteq Held

(* A unit whose steps are done has its new files, runs them and listens. *)
UnitsFit ==
    Running /\ apply.at \in {"steps", "ok"} => \A u \in apply.units :
        /\ \A s \in Writes(u) : Has(apply.todo, s) \/ file[s.part] = applies
        /\ apply.restart =>
              /\ Has(apply.todo, Restarts(u)) \/ running[u] = applies
              /\ Has(apply.todo, Listener(u)) \/ apply.blind \/ Box!Listens(u)
              /\ u = "store" /\ Has(apply.todo, Restarts(u)) => Has(apply.todo, Listener(u))

(* What the snapshot of the apply is worth, and what rollback has made of it. *)
RollbackFits ==
    Running => \A p \in Restorable :
        /\ Saved[p] \in {None, apply.before[p], Torn}
        /\ apply.whole => Saved[p] \in {None, apply.before[p]}
        /\ apply.whole /\ apply.at # "ok" =>
               file[p] = apply.before[p] \/ (Saved[p] = apply.before[p] /\ Saved[p] # None)
        /\ apply.whole /\ apply.at \in {"rollback", "restored"} =>
               Has(apply.todo, p) \/ file[p] = apply.before[p]

(* What rollback goes through, and what the agent runs afterwards. *)
RollbackRuns ==
    Running =>
      /\ apply.at = "rollback" => apply.todo \in Seq(Restorable)
      /\ apply.at = "restored" => running["agent"] = Box!Started("agent")

(* Who holds the tokens of the publishers. *)
ConfigHeld ==
    \/ file[AgentCfg] = 0
    \/ Publishers \subseteq Held
    \/ file[AgentCfg] = Torn /\ Publishers \subseteq waived
    \/ /\ file[AgentCfg] = Torn
       /\ \E m \in 1..MaxApplies : snapshots[m] # None /\ snapshots[m].files[AgentCfg] = 0

(* ... now, and once the configuration of before is back. *)
TokensHeld ==
    /\ ConfigHeld
    /\ Running => /\ file[AgentCfg] = 0 => apply.before[AgentCfg] = 0
                  /\ apply.before[AgentCfg] \in {0, Torn} \/ Publishers \subseteq Held

(* The upgrade. *)
BoxInv ==
    BoxType /\ ApplyOK /\ StepsFit /\ UnitsFit /\ RollbackFits /\ RollbackRuns /\ TokensHeld

IInv ==
    /\ ProductInv
    /\ task = "operators" => AccountsInv
    /\ task = "tools" => ToolsInv
    /\ task = "keys" => KeysInv
    /\ task = "store" => StoreInv /\ OpenFits
    /\ task = "migration" => MigrationInv
    /\ task = "upgrade" => BoxInv

-----------------------------------------------------------------------------
(* Numbers. *)

(* A set of numbers up to a bound has a highest one. *)
LEMMA MaxIsHighest ==
    ASSUME NEW n \in Nat, NEW S \in SUBSET (0..n), S # {}
    PROVE  Product!Max(S) \in S /\ \A x \in S : x <= Product!Max(S)
  <1> DEFINE T == {n - x : x \in S}
  <1>0. \A x \in S : x \in 0..n /\ x \in Int
    OBVIOUS
  <1>1. T \in SUBSET Nat /\ T # {}
    <2>1. \A x \in S : n - x \in Nat
      BY <1>0
    <2> QED
      BY <2>1
  <1>2. PICK t \in T : \A u \in T : t <= u
    <2> DEFINE R == OpToRel(<, Nat)
    <2>1. IsWellFoundedOn(R, Nat)
      BY NatLessThanWellFounded, Zenon
    <2>2. \A u, v \in Nat : u < v => <<u, v>> \in R
      BY Zenon DEF OpToRel
    <2> HIDE DEF R
    <2>3. PICK t \in T : \A u \in T : ~(<<u, t>> \in R)
      BY <1>1, <2>1, WFMin
    <2>4. \A u \in T : ~(u < t)
      BY <1>1, <2>2, <2>3
    <2> QED
      BY <1>1, <2>4
  <1>3. PICK m \in S : t = n - m
    BY <1>2
  <1>4. \A x \in S : m >= x
    <2> SUFFICES ASSUME NEW x \in S PROVE m >= x
      OBVIOUS
    <2>1. n - x \in T /\ n - m <= n - x
      BY <1>2, <1>3
    <2>2. x \in Int /\ m \in Int
      BY <1>0, <1>3
    <2> QED
      BY <2>1, <2>2
  <1>5. \E x \in S : \A y \in S : x >= y
    BY <1>4
  <1>6. Product!Max(S) \in S /\ \A y \in S : Product!Max(S) >= y
    BY <1>5 DEF Product!Max
  <1> QED
    BY <1>6

(* The higher of two numbers. *)
LEMMA MaxOfTwo ==
    ASSUME NEW a \in Nat, NEW b \in Nat
    PROVE  Product!Max({a, b}) \in Nat /\ a <= Product!Max({a, b}) /\ b <= Product!Max({a, b})
  <1>1. {a, b} \in SUBSET (0 .. a + b) /\ {a, b} # {} /\ a + b \in Nat
    OBVIOUS
  <1>2. Product!Max({a, b}) \in {a, b} /\ \A x \in {a, b} : x <= Product!Max({a, b})
    BY <1>1, MaxIsHighest
  <1> QED
    BY <1>2

-----------------------------------------------------------------------------
(* Steps of the product. *)

(* An idle handler. *)
LEMMA IdleFits ==
    /\ Product!Idle \in HandlerType /\ HandlerFits(Product!Idle)
    /\ Product!Idle.op = "idle" /\ Product!Idle.step = "none" /\ Product!Idle.seen = {}
    /\ Product!Idle.dead = {}
  BY DEF Product!Idle, HandlerType, HandlerFits, TokensFit, FloorFits, RetirementFits, Retirement

(* At first nothing is registered. *)
LEMMA InitProduct == Product!Init => ProductInv
  <1> SUFFICES ASSUME Product!Init PROVE ProductInv
    OBVIOUS
  <1>1. \A r \in Requests : req[r] = Product!Idle
    BY DEF Product!Init
  <1>2. req \in [Requests -> HandlerType] /\ \A r \in Requests : HandlerFits(req[r])
    BY <1>1, IdleFits DEF Product!Init
  <1>3. \A r \in Requests : req[r].op = "idle" /\ req[r].step = "none"
    BY <1>1, IdleFits
  <1>4. Product!TypeOK
    <2>1. doc = [registered |-> FALSE, last |-> 0, tokens |-> {}] /\ disk = doc
          /\ view = [registered |-> FALSE, credentials |-> {}]
      BY DEF Product!Init, Product!Forgotten, Product!Projection
    <2>2. /\ productMu = None /\ lock = None /\ unsigned = FALSE /\ directory = {} /\ tree \in BOOLEAN
          /\ given = {} /\ withdrawn = {}
          /\ index \in [Backends -> [Channels -> SUBSET Product!Codes]]
      BY DEF Product!Init
    <2>3. 0 \in 0..MaxCode
      BY AdminAssumption
    <2> QED
      BY <1>3, <2>1, <2>2, <2>3, AdminAssumption DEF Product!TypeOK
  <1> QED
    BY <1>2, <1>4 DEF Product!Init, ProductInv, ProductOK

(* A handler moves on: what the others count on is as before, and so are the
   locks of the others. *)
LEMMA HandlerMoves ==
    ASSUME ProductInv, NEW r \in Requests, NEW new \in HandlerType, HandlerFits(new),
           req' = [req EXCEPT ![r] = new],
           UNCHANGED <<doc, disk, index, directory, tree, given, withdrawn>>,
           unsigned' \in BOOLEAN,
           view' \in [registered : BOOLEAN, credentials : SUBSET Tokens],
           view'.credentials = view.credentials,
           lock' = IF new.op = "retire" THEN r ELSE IF lock = r THEN None ELSE lock,
           new.op = "retire" => lock \in {None, r},
           productMu' = IF new.step \in {"credentials", "assign"} THEN r
                        ELSE IF productMu = r THEN None ELSE productMu,
           new.step \in {"credentials", "assign"} => productMu \in {None, r}
    PROVE  ProductInv'
  <1>1. req' \in [Requests -> HandlerType]
    BY DEF ProductInv, ProductOK
  <1>2. \A q \in Requests : req'[q] = IF q = r THEN new ELSE req[q]
    BY DEF ProductInv, ProductOK
  <1>3. \A q \in Requests : HandlerFits(req[q])'
    <2>1. ASSUME NEW q \in Requests PROVE HandlerFits(req'[q])
      BY <1>2 DEF ProductInv
    <2> QED
      BY <2>1 DEF HandlerFits, TokensFit, FloorFits, RetirementFits, Retirement, Gone, Product!Listed
  <1>4. Product!TypeOK'
    BY <1>2, AdminAssumption DEF ProductInv, ProductOK, Product!TypeOK
  <1> QED
    BY <1>1, <1>3, <1>4 DEF ProductInv, ProductOK

(* The document changes: the tokens it gets are new ones. *)
LEMMA DocumentMoves ==
    ASSUME ProductInv, NEW r \in Requests, NEW new \in HandlerType, NEW d,
           d \in [registered : BOOLEAN, last : 0..MaxCode, tokens : SUBSET Tokens],
           req' = [req EXCEPT ![r] = new], doc' = d, disk' = d,
           UNCHANGED <<view, productMu, lock, unsigned, index, directory, tree, withdrawn>>,
           given' \in SUBSET Product!Codes, \A c \in given' : c <= d.last,
           \A t \in d.tokens \ doc.tokens :
               t \notin withdrawn /\ \A q \in Requests : t \notin req[q].dead,
           new.dead \cap d.tokens = {}, FloorFits(new), RetirementFits(new),
           new.step \notin {"credentials", "assign"}, req[r].step \notin {"credentials", "assign"},
           new.op = "retire" <=> req[r].op = "retire"
    PROVE  ProductInv'
  <1>1. req' \in [Requests -> HandlerType]
    BY DEF ProductInv, ProductOK
  <1>2. \A q \in Requests : req'[q] = IF q = r THEN new ELSE req[q]
    BY DEF ProductInv, ProductOK
  <1>3. ASSUME NEW q \in Requests PROVE HandlerFits(req[q])'
    <2>1. FloorFits(req'[q]) /\ RetirementFits(req'[q])
      BY <1>2 DEF ProductInv, HandlerFits
    <2>2. FloorFits(req[q])' /\ RetirementFits(req[q])'
      BY <2>1 DEF FloorFits, RetirementFits, Retirement, Gone, Product!Listed
    <2>3. TokensFit(req[q])'
      BY <1>2 DEF ProductInv, HandlerFits, TokensFit
    <2> QED
      BY <2>2, <2>3 DEF HandlerFits
  <1>4. Product!TypeOK'
    BY <1>2 DEF ProductInv, ProductOK, Product!TypeOK
  <1>5. withdrawn' \cap (view'.credentials \cup doc'.tokens) = {}
    BY DEF ProductInv
  <1> QED
    BY <1>1, <1>3, <1>4, <1>5 DEF ProductInv, ProductOK

(* A handler that holds no lock moves on with its own record only. *)
LEMMA RecordMoves ==
    ASSUME ProductInv, NEW r \in Requests, NEW new \in HandlerType, HandlerFits(new),
           req' = [req EXCEPT ![r] = new],
           UNCHANGED <<doc, disk, view, productMu, lock, unsigned, index, directory, tree, given, withdrawn>>,
           new.op = "retire" <=> req[r].op = "retire",
           new.step \in {"credentials", "assign"} <=> req[r].step \in {"credentials", "assign"}
    PROVE  ProductInv'
  <1>1. (lock = r <=> req[r].op = "retire") /\ (productMu = r <=> req[r].step \in {"credentials", "assign"})
    BY DEF ProductInv, ProductOK, Product!TypeOK
  <1>2. view \in [registered : BOOLEAN, credentials : SUBSET Tokens] /\ unsigned \in BOOLEAN
    BY DEF ProductInv, ProductOK, Product!TypeOK
  <1> QED
    BY <1>1, <1>2, HandlerMoves

(* ... in particular when it answers. *)
LEMMA Answers ==
    ASSUME ProductInv, NEW r \in Requests, Product!Answer(r),
           req[r].op # "retire", req[r].step \notin {"credentials", "assign"},
           UNCHANGED <<Product!agent, Product!store, given, withdrawn>>
    PROVE  ProductInv'
  BY IdleFits, RecordMoves DEF Product!Answer, Product!agent, Product!store

(* The records of an idle handler and of one that reloads. *)
LEMMA Records ==
    /\ \A r \in Requests : Product!Free(r) =>
          req[r].op = "idle" /\ req[r].step = "none" /\ req[r].dead = {} /\ req[r].seen = {}
    /\ \A op \in {"token", "register", "retire"}, dead \in SUBSET Tokens :
          LET q == Product!Reload(op, dead) IN
          /\ q \in HandlerType /\ q.op = op /\ q.step = "reload" /\ q.dead = dead /\ q.seen = {}
          /\ FloorFits(q) /\ RetirementFits(q)
  <1>1. \A r \in Requests : Product!Free(r) =>
          req[r].op = "idle" /\ req[r].step = "none" /\ req[r].dead = {} /\ req[r].seen = {}
    BY DEF Product!Free, Product!Idle
  <1>2. ASSUME NEW op \in {"token", "register", "retire"}, NEW dead \in SUBSET Tokens
        PROVE  LET q == Product!Reload(op, dead) IN
               /\ q \in HandlerType /\ q.op = op /\ q.step = "reload" /\ q.dead = dead /\ q.seen = {}
    BY DEF Product!Reload, Product!Idle, HandlerType
  <1>3. ASSUME NEW q, q.step = "reload", q.seen = {} PROVE FloorFits(q) /\ RetirementFits(q)
    BY <1>3 DEF FloorFits, RetirementFits, Retirement
  <1> QED
    BY <1>1, <1>2, <1>3

(* The type of the document. *)
LEMMA DocumentParts ==
    ProductInv =>
        /\ doc \in [registered : BOOLEAN, last : 0..MaxCode, tokens : SUBSET Tokens]
        /\ disk = doc /\ given \in SUBSET Product!Codes
        /\ view \in [registered : BOOLEAN, credentials : SUBSET Tokens]
        /\ \A r \in Requests : req[r] \in HandlerType
  BY DEF ProductInv, ProductOK, Product!TypeOK

(* Tokens come and go. *)
LEMMA TokenSteps ==
    ASSUME ProductInv, NEW r \in Requests, Product!Token(r)
    PROVE  ProductInv'
  <1> USE DocumentParts, Records
  <1>1. PICK t \in Tokens : Product!IssueToken(r, t) \/ Product!RevokeToken(r, t)
                              \/ \E new \in Tokens : Product!RotateToken(r, t, new)
    BY DEF Product!Token
  <1>2. CASE Product!PersistFails(r) /\ Product!Free(r)
    BY <1>2, Answers DEF Product!PersistFails
  <1> DEFINE Changes(d, dead) ==
               /\ Product!Free(r)
               /\ Product!Persist(d) /\ Product!Go(r, Product!Reload("token", dead))
               /\ UNCHANGED <<view, productMu, lock, unsigned, Product!store, Product!rest>>
  <1>3. ASSUME NEW d, NEW dead \in SUBSET Tokens, Changes(d, dead),
               d \in [registered : BOOLEAN, last : 0..MaxCode, tokens : SUBSET Tokens],
               d.last = doc.last, dead \cap d.tokens = {},
               \A u \in d.tokens \ doc.tokens : Product!Fresh(u)
        PROVE  ProductInv'
    <2> DEFINE new == Product!Reload("token", dead)
    <2>1. \A u \in d.tokens \ doc.tokens : u \notin withdrawn /\ \A q \in Requests : u \notin req[q].dead
      BY <1>3 DEF Product!Fresh
    <2>2. /\ req' = [req EXCEPT ![r] = new] /\ doc' = d /\ disk' = d /\ given' = given
          /\ UNCHANGED <<view, productMu, lock, unsigned, index, directory, tree, withdrawn>>
      BY <1>3 DEF Product!Persist, Product!Go, Product!store, Product!rest
    <2>3. given' \in SUBSET Product!Codes /\ \A c \in given' : c <= d.last
      BY <1>3, <2>2 DEF ProductInv
    <2>4. /\ new \in HandlerType /\ new.op = "token" /\ new.step = "reload" /\ new.dead = dead
          /\ FloorFits(new) /\ RetirementFits(new)
      OBVIOUS
    <2>5. req[r].op = "idle" /\ req[r].step = "none"
      BY <1>3
    <2> HIDE DEF new, Changes
    <2> QED
      BY <1>3, <2>1, <2>2, <2>3, <2>4, <2>5, DocumentMoves
  <1>4. CASE Product!IssueToken(r, t)
    <2> DEFINE d == [doc EXCEPT !.tokens = @ \cup {t}]
    <2>1. d \in [registered : BOOLEAN, last : 0..MaxCode, tokens : SUBSET Tokens]
          /\ d.last = doc.last /\ d.tokens \ doc.tokens \subseteq {t}
      OBVIOUS
    <2>2. Product!Free(r) /\ Product!Fresh(t) /\ (Changes(d, {}) \/ Product!PersistFails(r))
      BY <1>4 DEF Product!IssueToken
    <2> HIDE DEF d, Changes
    <2> QED
      BY <1>2, <1>3, <2>1, <2>2
  <1>5. CASE Product!RevokeToken(r, t)
    <2> DEFINE d == [doc EXCEPT !.tokens = @ \ {t}]
    <2>1. d \in [registered : BOOLEAN, last : 0..MaxCode, tokens : SUBSET Tokens]
          /\ d.last = doc.last /\ d.tokens \ doc.tokens = {} /\ t \notin d.tokens
      OBVIOUS
    <2>2. Product!Free(r) /\ (Changes(d, {t}) \/ Product!PersistFails(r))
      BY <1>5 DEF Product!RevokeToken
    <2> HIDE DEF d, Changes
    <2> QED
      BY <1>2, <1>3, <2>1, <2>2
  <1>6. ASSUME NEW new \in Tokens, Product!RotateToken(r, t, new) PROVE ProductInv'
    <2> DEFINE d == [doc EXCEPT !.tokens = (@ \ {t}) \cup {new}]
    <2>1. t \in doc.tokens /\ Product!Fresh(new) /\ new # t
      BY <1>6 DEF Product!RotateToken, Product!Fresh
    <2>2. d \in [registered : BOOLEAN, last : 0..MaxCode, tokens : SUBSET Tokens]
          /\ d.last = doc.last /\ d.tokens \ doc.tokens \subseteq {new} /\ t \notin d.tokens
      BY <2>1
    <2>3. Product!Free(r) /\ (Changes(d, {t}) \/ Product!PersistFails(r))
      BY <1>6 DEF Product!RotateToken
    <2> HIDE DEF d, Changes
    <2> QED
      BY <1>2, <1>3, <2>1, <2>2, <2>3
  <1> QED
    BY <1>1, <1>4, <1>5, <1>6

(* The view is reloaded by one handler at a time. *)
LEMMA ReloadSteps ==
    ASSUME ProductInv, NEW r \in Requests, Product!reloadAdmin(r)
    PROVE  ProductInv'
  <1> USE DocumentParts
  <1>1. req[r] \in HandlerType /\ HandlerFits(req[r])
        /\ (lock = r <=> req[r].op = "retire") /\ (productMu = r <=> req[r].step \in {"credentials", "assign"})
    BY DEF ProductInv, ProductOK, Product!TypeOK
  <1>2. CASE Product!ReloadProducts(r)
    <2> DEFINE new == [req[r] EXCEPT !.step = "credentials"]
    <2>1. /\ new \in HandlerType /\ new.op = req[r].op /\ new.step = "credentials" /\ new.dead = req[r].dead
          /\ new.seen = req[r].seen /\ new.todo = req[r].todo /\ new.floor = req[r].floor
      BY <1>1 DEF HandlerType
    <2> HIDE DEF new
    <2>2. HandlerFits(new)
      BY <1>1, <2>1 DEF HandlerFits, TokensFit, FloorFits, RetirementFits, Retirement
    <2>3. req' = [req EXCEPT ![r] = new] /\ req[r].step = "reload" /\ productMu = None /\ productMu' = r
          /\ view' = [view EXCEPT !.registered = doc.registered]
          /\ UNCHANGED <<doc, disk, lock, unsigned, index, directory, tree, given, withdrawn>>
      BY <1>2 DEF Product!ReloadProducts, Product!Go, new, Product!store, Product!rest
    <2>4. view' \in [registered : BOOLEAN, credentials : SUBSET Tokens] /\ view'.credentials = view.credentials
      BY <2>3
    <2>5. unsigned' \in BOOLEAN
      BY <2>3 DEF ProductInv, ProductOK, Product!TypeOK
    <2> QED
      BY <1>1, <2>1, <2>2, <2>3, <2>4, <2>5, HandlerMoves
  <1>3. CASE Product!ReloadCredentials(r)
    <2> DEFINE new == [req[r] EXCEPT !.step = "assign", !.credentials = doc.tokens]
    <2>1. /\ new \in HandlerType /\ new.op = req[r].op /\ new.step = "assign" /\ new.dead = req[r].dead
          /\ new.seen = req[r].seen /\ new.todo = req[r].todo /\ new.floor = req[r].floor
          /\ new.credentials = doc.tokens
      BY <1>1 DEF HandlerType
    <2> HIDE DEF new
    <2>2. HandlerFits(new)
      BY <1>1, <2>1 DEF ProductInv, HandlerFits, TokensFit, FloorFits, RetirementFits, Retirement
    <2>3. req' = [req EXCEPT ![r] = new] /\ req[r].step = "credentials"
          /\ UNCHANGED <<doc, disk, view, productMu, lock, unsigned, index, directory, tree, given, withdrawn>>
      BY <1>3 DEF Product!ReloadCredentials, Product!Go, new, Product!agent, Product!store, Product!rest
    <2> QED
      BY <2>1, <2>2, <2>3, RecordMoves
  <1>4. CASE Product!ReloadDone(r)
    <2>1. /\ req[r].step = "assign" /\ productMu = r
          /\ view' = [view EXCEPT !.credentials = req[r].credentials]
          /\ productMu' = None /\ withdrawn' = withdrawn \cup req[r].dead
          /\ lock' = IF lock = r THEN None ELSE lock
          /\ UNCHANGED <<doc, disk, unsigned, index, directory, tree, given, troubles>>
      BY <1>1, <1>4 DEF Product!ReloadDone, Product!store
    <2>2. PICK new \in HandlerType :
             /\ req' = [req EXCEPT ![r] = new] /\ HandlerFits(new)
             /\ new.op \in {"idle", "register"} /\ new.step \in {"none", "sign"}
             /\ new.dead = {} /\ new.seen = {}
      <3> DEFINE sign == [Product!Idle EXCEPT !.op = "register", !.step = "sign"]
      <3>1. sign \in HandlerType /\ sign.op = "register" /\ sign.step = "sign" /\ sign.dead = {} /\ sign.seen = {}
        BY DEF Product!Idle, HandlerType
      <3>2. HandlerFits(sign)
        BY <3>1 DEF HandlerFits, TokensFit, FloorFits, RetirementFits, Retirement
      <3>3. req' = [req EXCEPT ![r] = sign] \/ req' = [req EXCEPT ![r] = Product!Idle]
        BY <1>4 DEF Product!ReloadDone, Product!Go, Product!Answer
      <3> HIDE DEF sign
      <3> QED
        BY <3>1, <3>2, <3>3, IdleFits
    <2>3. \A q \in Requests : req'[q] = IF q = r THEN new ELSE req[q]
      BY <2>2 DEF ProductInv, ProductOK
    <2>4. req' \in [Requests -> HandlerType]
      BY <2>2 DEF ProductInv, ProductOK
    <2>5. ASSUME NEW q \in Requests PROVE HandlerFits(req[q])'
      <3>1. FloorFits(req'[q]) /\ RetirementFits(req'[q])
        BY <2>2, <2>3 DEF ProductInv, HandlerFits
      <3>2. FloorFits(req[q])' /\ RetirementFits(req[q])'
        BY <2>1, <3>1 DEF FloorFits, RetirementFits, Retirement, Gone, Product!Listed
      <3>3. q # r => req[q].step # "assign"
        BY <2>1, AdminAssumption DEF ProductInv, ProductOK, Product!TypeOK
      <3>4. TokensFit(req[q])'
        BY <2>1, <2>2, <2>3, <3>3 DEF ProductInv, HandlerFits, TokensFit
      <3> QED
        BY <3>2, <3>4 DEF HandlerFits
    <2>6. view' \in [registered : BOOLEAN, credentials : SUBSET Tokens] /\ view'.credentials = req[r].credentials
      BY <1>1, <2>1 DEF HandlerType
    <2>7. withdrawn' \cap (view'.credentials \cup doc'.tokens) = {}
      BY <1>1, <2>1, <2>6 DEF ProductInv, HandlerFits, TokensFit
    <2>8. Product!TypeOK'
      BY <1>1, <2>1, <2>2, <2>3, <2>6, AdminAssumption DEF ProductInv, ProductOK, Product!TypeOK, HandlerType
    <2> QED
      BY <2>1, <2>4, <2>5, <2>7, <2>8 DEF ProductInv, ProductOK
  <1> QED
    BY <1>2, <1>3, <1>4 DEF Product!reloadAdmin

(* Nobody retires a product whose lock is free. *)
LEMMA NobodyRetires ==
    ASSUME ProductInv, lock = None
    PROVE  \A q \in Requests : req[q].op # "retire"
  BY AdminAssumption DEF ProductInv, ProductOK, Product!TypeOK

(* The published documents change: what the handlers count on is cut down to
   what is still listed. *)
LEMMA StoreMoves ==
    ASSUME ProductInv, NEW rs \in [Requests -> HandlerType],
           req' = Product!Still(rs, index'),
           UNCHANGED <<doc, disk, view, productMu, lock, unsigned, tree, given, withdrawn>>,
           index' \in [Backends -> [Channels -> SUBSET Product!Codes]],
           directory' \in SUBSET Backends,
           \A q \in Requests :
               /\ rs[q].op = "retire" <=> req[q].op = "retire"
               /\ rs[q].step \in {"credentials", "assign"} <=> req[q].step \in {"credentials", "assign"}
               /\ TokensFit(rs[q])
               /\ rs[q].op = "claim" => \A p \in rs[q].seen : p[1] \in rs[q].todo \/ p[2] <= rs[q].floor
               /\ Retirement(rs[q], index', directory')
    PROVE  ProductInv'
  <1>1. \A q \in Requests : req'[q] = [rs[q] EXCEPT !.seen = @ \cap Product!Listed(index')]
    BY DEF Product!Still
  <1>2. ASSUME NEW q \in Requests
        PROVE  /\ req'[q] \in HandlerType
               /\ req'[q].op = rs[q].op /\ req'[q].step = rs[q].step /\ req'[q].dead = rs[q].dead
               /\ req'[q].credentials = rs[q].credentials /\ req'[q].key = rs[q].key
               /\ req'[q].todo = rs[q].todo /\ req'[q].failed = rs[q].failed /\ req'[q].floor = rs[q].floor
               /\ req'[q].seen = rs[q].seen \cap Product!Listed(index')
    <2> DEFINE new == [rs[q] EXCEPT !.seen = @ \cap Product!Listed(index')]
    <2>1. rs[q] \in HandlerType
      OBVIOUS
    <2>2. /\ new.op = rs[q].op /\ new.step = rs[q].step /\ new.dead = rs[q].dead
          /\ new.credentials = rs[q].credentials /\ new.key = rs[q].key
          /\ new.todo = rs[q].todo /\ new.failed = rs[q].failed /\ new.floor = rs[q].floor
          /\ new.seen = rs[q].seen \cap Product!Listed(index')
      BY <2>1 DEF HandlerType
    <2>3. new \in HandlerType
      BY <2>1 DEF HandlerType
    <2> HIDE DEF new
    <2> QED
      BY <1>1, <2>2, <2>3 DEF new
  <1>3. req' \in [Requests -> HandlerType]
    <2>1. req' = [q \in Requests |-> [rs[q] EXCEPT !.seen = @ \cap Product!Listed(index')]]
      BY DEF Product!Still
    <2> QED
      BY <1>2, <2>1
  <1>4. ASSUME NEW q \in Requests PROVE HandlerFits(req[q])'
    <2>1. TokensFit(req[q])'
      BY <1>2 DEF TokensFit
    <2>2. FloorFits(req[q])'
      BY <1>2 DEF FloorFits, Product!Listed
    <2>3. RetirementFits(req[q])'
      BY <1>2 DEF RetirementFits, Retirement, Gone
    <2> QED
      BY <2>1, <2>2, <2>3 DEF HandlerFits
  <1>5. Product!TypeOK'
    <2>1. \A q \in Requests :
            /\ productMu = q <=> req[q].step \in {"credentials", "assign"}
            /\ lock = q <=> req[q].op = "retire"
      BY DEF ProductInv, ProductOK, Product!TypeOK
    <2>2. \A q \in Requests : productMu' = q <=> req'[q].step \in {"credentials", "assign"}
      BY <1>2, <2>1
    <2>3. \A q \in Requests : lock' = q <=> req'[q].op = "retire"
      BY <1>2, <2>1
    <2> QED
      BY <2>2, <2>3 DEF ProductInv, ProductOK, Product!TypeOK
  <1> QED
    BY <1>3, <1>4, <1>5 DEF ProductInv, ProductOK

(* The directory is written while nobody retires the product. *)
LEMMA ProfileSteps ==
    ASSUME ProductInv, Product!SignProfile, NEW r \in Requests,
           UNCHANGED <<doc, disk, view, productMu, lock, index, tree, given, withdrawn>>,
           unsigned' \in BOOLEAN,
           UNCHANGED req \/ /\ req' = [req EXCEPT ![r] = Product!Idle]
                            /\ req[r].step \notin {"credentials", "assign"}
    PROVE  ProductInv'
  <1>1. \A q \in Requests : req[q].op # "retire"
    BY NobodyRetires DEF Product!SignProfile
  <1>2. directory' \in SUBSET Backends
    BY DEF Product!SignProfile, Product!DirectoryWritten, ProductInv, ProductOK, Product!TypeOK
  <1>3. \A q \in Requests : req'[q] = req[q] \/ (q = r /\ req'[q] = Product!Idle
                                                    /\ req[q].step \notin {"credentials", "assign"})
    BY DEF ProductInv, ProductOK
  <1>4. req' \in [Requests -> HandlerType]
    BY IdleFits DEF ProductInv, ProductOK
  <1>5. ASSUME NEW q \in Requests PROVE HandlerFits(req[q])'
    <2>1. HandlerFits(req'[q]) /\ req'[q].op # "retire"
      BY <1>1, <1>3, IdleFits DEF ProductInv
    <2> QED
      BY <2>1 DEF HandlerFits, TokensFit, FloorFits, RetirementFits, Retirement, Product!Listed
  <1>6. Product!TypeOK'
    BY <1>1, <1>2, <1>3, IdleFits DEF ProductInv, ProductOK, Product!TypeOK
  <1> QED
    BY <1>4, <1>5, <1>6 DEF ProductInv, ProductOK

(* A product is registered. *)
LEMMA RegisterSteps ==
    ASSUME ProductInv, NEW r \in Requests, Product!Register(r)
    PROVE  ProductInv'
  <1> USE DocumentParts, Records
  <1>1. CASE Product!AddProduct(r)
    <2>1. CASE Product!PersistFails(r)
      BY <1>1, <2>1, Answers DEF Product!PersistFails, Product!AddProduct
    <2>2. CASE ~Product!PersistFails(r)
      <3> DEFINE new == [Product!Idle EXCEPT !.op = "register", !.step = "token"]
                 d == [doc EXCEPT !.registered = TRUE]
      <3>1. /\ new \in HandlerType /\ new.op = "register" /\ new.step = "token" /\ new.dead = {}
            /\ new.seen = {}
        BY DEF Product!Idle, HandlerType
      <3>2. d \in [registered : BOOLEAN, last : 0..MaxCode, tokens : SUBSET Tokens]
            /\ d.last = doc.last /\ d.tokens = doc.tokens
        OBVIOUS
      <3>3. /\ req' = [req EXCEPT ![r] = new] /\ doc' = d /\ disk' = d /\ given' = given
            /\ UNCHANGED <<view, productMu, lock, unsigned, index, directory, tree, withdrawn>>
        BY <1>1, <2>2 DEF Product!AddProduct, Product!Persist, Product!Go, Product!store, Product!rest
      <3>4. req[r].op = "idle" /\ req[r].step = "none"
        BY <1>1 DEF Product!AddProduct
      <3>5. FloorFits(new) /\ RetirementFits(new)
        BY <3>1 DEF FloorFits, RetirementFits, Retirement
      <3>6. given' \in SUBSET Product!Codes /\ \A c \in given' : c <= d.last
        BY <3>2, <3>3 DEF ProductInv
      <3>7. /\ \A u \in d.tokens \ doc.tokens : u \notin withdrawn /\ \A q \in Requests : u \notin req[q].dead
            /\ new.dead \cap d.tokens = {}
        BY <3>1, <3>2
      <3>8. /\ new.step \notin {"credentials", "assign"} /\ req[r].step \notin {"credentials", "assign"}
            /\ new.op = "retire" <=> req[r].op = "retire"
        BY <3>1, <3>4
      <3> HIDE DEF new, d
      <3> QED
        BY <3>1, <3>2, <3>3, <3>5, <3>6, <3>7, <3>8, DocumentMoves
    <2> QED
      BY <2>1, <2>2
  <1>2. ASSUME NEW t \in Tokens, Product!FirstToken(r, t) PROVE ProductInv'
    <2>1. req[r].op = "register" /\ req[r].step = "token" /\ Product!Fresh(t)
      BY <1>2 DEF Product!FirstToken, Product!At
    <2>2. CASE Product!PersistFails(r)
      BY <2>1, <2>2, Answers DEF Product!PersistFails
    <2>3. CASE Product!Answer(r) /\ UNCHANGED <<Product!agent, Product!store, Product!rest>>
      BY <2>1, <2>3, Answers DEF Product!rest
    <2> DEFINE d == [doc EXCEPT !.tokens = @ \cup {t}]
    <2>4. CASE /\ Product!Persist(d) /\ Product!Go(r, Product!Reload("register", {}))
               /\ UNCHANGED <<view, productMu, lock, unsigned, Product!store, Product!rest>>
      <3> DEFINE new == Product!Reload("register", {})
      <3>1. d \in [registered : BOOLEAN, last : 0..MaxCode, tokens : SUBSET Tokens]
            /\ d.last = doc.last /\ d.tokens \ doc.tokens \subseteq {t}
        OBVIOUS
      <3>2. /\ req' = [req EXCEPT ![r] = new] /\ doc' = d /\ disk' = d /\ given' = given
            /\ UNCHANGED <<view, productMu, lock, unsigned, index, directory, tree, withdrawn>>
        BY <2>4 DEF Product!Persist, Product!Go, Product!store, Product!rest
      <3>3. /\ new \in HandlerType /\ new.op = "register" /\ new.step = "reload" /\ new.dead = {}
            /\ FloorFits(new) /\ RetirementFits(new)
        OBVIOUS
      <3> HIDE DEF new, d
      <3>4. given' \in SUBSET Product!Codes /\ \A c \in given' : c <= d.last
        BY <3>1, <3>2 DEF ProductInv
      <3>5. \A u \in d.tokens \ doc.tokens : u \notin withdrawn /\ \A q \in Requests : u \notin req[q].dead
        BY <2>1, <3>1 DEF Product!Fresh
      <3>6. /\ new.step \notin {"credentials", "assign"} /\ req[r].step \notin {"credentials", "assign"}
            /\ new.op = "retire" <=> req[r].op = "retire"
            /\ new.dead \cap d.tokens = {}
        BY <2>1, <3>3
      <3> QED
        BY <3>1, <3>2, <3>3, <3>4, <3>5, <3>6, DocumentMoves
    <2> QED
      BY <1>2, <2>2, <2>3, <2>4 DEF Product!FirstToken
  <1>3. CASE Product!SignFirst(r)
    <2>1. Product!SignProfile /\ req[r].step = "sign" /\ req' = [req EXCEPT ![r] = Product!Idle]
          /\ UNCHANGED <<doc, disk, view, productMu, lock, unsigned, index, tree, given, withdrawn>>
      BY <1>3 DEF Product!SignFirst, Product!At, Product!Answer, Product!agent
    <2>2. unsigned' \in BOOLEAN
      BY <2>1 DEF ProductInv, ProductOK, Product!TypeOK
    <2> QED
      BY <2>1, <2>2, ProfileSteps
  <1> QED
    BY <1>1, <1>2, <1>3 DEF Product!Register

(* What agreeing backends list of a channel. *)
LEMMA Agreed ==
    ASSUME ProductInv, NEW ch \in Channels, Product!Agree(ch)
    PROVE  /\ Product!ListedCodes(ch) \in SUBSET Product!Codes
           /\ \A b \in Backends : index[b][ch] = Product!ListedCodes(ch)
           /\ Product!Highest(ch) \in 0..MaxCode
           /\ \A c \in Product!ListedCodes(ch) : c <= Product!Highest(ch)
  <1>1. (CHOOSE b \in Backends : TRUE) \in Backends
    BY AdminAssumption
  <1>2. Product!ListedCodes(ch) \in SUBSET Product!Codes
        /\ \A b \in Backends : index[b][ch] = Product!ListedCodes(ch)
    BY <1>1 DEF Product!ListedCodes, Product!Agree, ProductInv, ProductOK, Product!TypeOK
  <1> DEFINE S == Product!ListedCodes(ch) \cup {0}
  <1>3. S \in SUBSET (0..MaxCode) /\ S # {} /\ MaxCode \in Nat
    BY <1>2, AdminAssumption DEF Product!Codes
  <1>4. Product!Max(S) \in S /\ \A c \in S : c <= Product!Max(S)
    BY <1>3, MaxIsHighest
  <1> QED
    BY <1>2, <1>3, <1>4 DEF Product!Highest

(* The number of a claim is above what was handed out and what it has read. *)
LEMMA NextIsHigher ==
    ASSUME ProductInv, NEW r \in Requests
    PROVE  /\ Product!NextCode(r) \in Nat
           /\ \A c \in given : c < Product!NextCode(r)
           /\ req[r].op = "claim" /\ req[r].todo = {} =>
                  \A p \in req[r].seen : p[2] < Product!NextCode(r)
  <1>1. doc.last \in Nat /\ req[r].floor \in Nat
    BY DocumentParts, AdminAssumption DEF HandlerType
  <1>2. Product!Max({doc.last, req[r].floor}) \in Nat
        /\ doc.last <= Product!Max({doc.last, req[r].floor})
        /\ req[r].floor <= Product!Max({doc.last, req[r].floor})
    BY <1>1, MaxOfTwo
  <1>3. Product!NextCode(r) \in Nat /\ doc.last < Product!NextCode(r) /\ req[r].floor < Product!NextCode(r)
    BY <1>1, <1>2 DEF Product!NextCode
  <1>4. \A c \in given : c \in Nat /\ c <= doc.last
    BY DocumentParts, AdminAssumption DEF ProductInv, Product!Codes
  <1>5. req[r].op = "claim" /\ req[r].todo = {} =>
            \A p \in req[r].seen : p[2] \in Nat /\ p[2] <= req[r].floor
    BY DocumentParts, AdminAssumption DEF ProductInv, HandlerFits, FloorFits, HandlerType, Product!Codes
  <1> QED
    BY <1>1, <1>3, <1>4, <1>5

(* A release code is claimed. *)
LEMMA ClaimSteps ==
    ASSUME ProductInv, NEW r \in Requests, Product!Claim(r)
    PROVE  ProductInv'
  <1> USE DocumentParts
  <1>1. CASE Product!BeginClaim(r)
    <2> DEFINE new == [Product!Idle EXCEPT !.op = "claim", !.step = "floor", !.todo = Channels,
                                           !.seen = Product!Listed(index)]
    <2>1. /\ new \in HandlerType /\ new.op = "claim" /\ new.step = "floor" /\ new.dead = {}
          /\ new.seen = Product!Listed(index) /\ new.todo = Channels
      BY DEF Product!Idle, HandlerType, Product!Listed
    <2>2. /\ req' = [req EXCEPT ![r] = new] /\ req[r].op = "idle" /\ req[r].step = "none"
          /\ UNCHANGED <<doc, disk, view, productMu, lock, unsigned, index, directory, tree, given, withdrawn>>
      BY <1>1, Records DEF Product!BeginClaim, Product!Go, Product!agent, Product!store, Product!rest
    <2> HIDE DEF new
    <2>3. HandlerFits(new)
      BY <2>1 DEF HandlerFits, TokensFit, FloorFits, RetirementFits, Retirement, Product!Listed
    <2> QED
      BY <2>1, <2>2, <2>3, RecordMoves
  <1>2. ASSUME NEW ch \in Channels, Product!ReadFloor(r, ch) PROVE ProductInv'
    <2>1. /\ req[r].op = "claim" /\ req[r].step = "floor" /\ ch \in req[r].todo
          /\ UNCHANGED <<Product!agent, Product!store, given, withdrawn>>
      BY <1>2 DEF Product!ReadFloor, Product!At, Product!rest
    <2>2. CASE ~Product!Agree(ch)
      BY <1>2, <2>1, <2>2, Answers DEF Product!ReadFloor
    <2>3. CASE Product!Agree(ch)
      <3> DEFINE floor == Product!Max({req[r].floor, Product!Highest(ch)})
                 new == [req[r] EXCEPT !.todo = @ \ {ch}, !.floor = floor]
      <3>1. req[r] \in HandlerType /\ FloorFits(req[r]) /\ TokensFit(req[r])
        BY DEF ProductInv, HandlerFits
      <3>2. req[r].floor \in Nat /\ Product!Highest(ch) \in Nat
        BY <2>3, <3>1, Agreed, AdminAssumption DEF HandlerType
      <3>3. floor \in Nat /\ req[r].floor <= floor /\ Product!Highest(ch) <= floor
        BY <3>2, MaxOfTwo
      <3> HIDE DEF floor
      <3>4. /\ new.op = "claim" /\ new.step = "floor" /\ new.dead = req[r].dead
            /\ new.seen = req[r].seen /\ new.todo = req[r].todo \ {ch} /\ new.floor = floor
            /\ new.credentials = req[r].credentials
        BY <2>1, <3>1 DEF HandlerType
      <3>5. new \in HandlerType
        BY <3>1, <3>3 DEF HandlerType
      <3>6. req' = [req EXCEPT ![r] = new]
        BY <1>2, <2>3 DEF Product!ReadFloor, Product!Go, floor
      <3> HIDE DEF new
      <3>7. ASSUME NEW p \in new.seen PROVE p[1] \in new.todo \/ p[2] <= new.floor
        <4>1. p \in Product!Listed(index) /\ (p[1] \in req[r].todo \/ p[2] <= req[r].floor)
          BY <2>1, <3>1, <3>4 DEF FloorFits
        <4>2. p[2] \in Nat
          BY <4>1, AdminAssumption DEF Product!Listed, Product!Codes
        <4>3. CASE p[1] = ch
          <5>1. p[2] \in Product!ListedCodes(ch)
            BY <2>3, <4>1, <4>3, Agreed DEF Product!Listed
          <5>2. p[2] <= Product!Highest(ch)
            BY <2>3, <5>1, Agreed
          <5> QED
            BY <3>2, <3>3, <3>4, <4>2, <5>2
        <4>4. CASE p[1] # ch
          BY <3>2, <3>3, <3>4, <4>1, <4>2, <4>4
        <4> QED
          BY <4>3, <4>4
      <3>8. HandlerFits(new)
        BY <2>1, <3>1, <3>4, <3>7 DEF HandlerFits, TokensFit, FloorFits, RetirementFits, Retirement
      <3>9. UNCHANGED <<doc, disk, view, productMu, lock, unsigned, index, directory, tree, given, withdrawn>>
        BY <2>1 DEF Product!agent, Product!store
      <3> QED
        BY <2>1, <3>4, <3>5, <3>6, <3>8, <3>9, RecordMoves
    <2> QED
      BY <2>2, <2>3
  <1>3. CASE Product!AllocateReleaseCode(r)
    <2>1. req[r].op = "claim" /\ req[r].step = "floor" /\ req[r].todo = {}
      BY <1>3 DEF Product!AllocateReleaseCode, Product!At
    <2>2. CASE Product!PersistFails(r)
      BY <2>1, <2>2, Answers DEF Product!PersistFails
    <2>3. CASE Product!Answer(r) /\ UNCHANGED <<Product!agent, Product!store, Product!rest>>
      BY <2>1, <2>3, Answers DEF Product!rest
    <2> DEFINE code == Product!NextCode(r)
               d == [doc EXCEPT !.last = code]
    <2>4. CASE /\ code \in Product!Codes /\ Product!Persist(d) /\ given' = given \cup {code}
               /\ Product!Answer(r)
               /\ UNCHANGED <<view, productMu, lock, unsigned, Product!store, withdrawn>>
      <3>1. \A c \in given : c < code
        BY NextIsHigher
      <3>2. \A c \in given' : c <= code
        BY <2>4, <3>1, AdminAssumption DEF Product!Codes
      <3> HIDE DEF code
      <3>3. d \in [registered : BOOLEAN, last : 0..MaxCode, tokens : SUBSET Tokens]
            /\ d.last = code /\ d.tokens = doc.tokens
        BY <2>4 DEF Product!Codes
      <3>4. /\ req' = [req EXCEPT ![r] = Product!Idle] /\ doc' = d /\ disk' = d
            /\ UNCHANGED <<view, productMu, lock, unsigned, index, directory, tree, withdrawn>>
            /\ given' \in SUBSET Product!Codes
        BY <2>4 DEF Product!Persist, Product!Answer, Product!store
      <3>5. /\ Product!Idle.step \notin {"credentials", "assign"} /\ req[r].step \notin {"credentials", "assign"}
            /\ Product!Idle.op = "retire" <=> req[r].op = "retire"
            /\ Product!Idle.dead \cap d.tokens = {}
            /\ FloorFits(Product!Idle) /\ RetirementFits(Product!Idle) /\ Product!Idle \in HandlerType
        BY <2>1, IdleFits DEF HandlerFits
      <3>6. \A u \in d.tokens \ doc.tokens : u \notin withdrawn /\ \A q \in Requests : u \notin req[q].dead
        BY <3>3
      <3> HIDE DEF d
      <3> QED
        BY <3>2, <3>3, <3>4, <3>5, <3>6, DocumentMoves
    <2> QED
      BY <1>3, <2>2, <2>3, <2>4 DEF Product!AllocateReleaseCode
  <1> QED
    BY <1>1, <1>2, <1>3 DEF Product!Claim

(* What is listed where a publish or an unpublish has got to. *)
LEMMA ListingTyped ==
    ASSUME ProductInv, NEW S, NEW ch \in Channels, NEW codes \in SUBSET Product!Codes,
           Product!Listing(S, ch, codes)
    PROVE  index' \in [Backends -> [Channels -> SUBSET Product!Codes]]
  <1>1. index \in [Backends -> [Channels -> SUBSET Product!Codes]]
    BY DEF ProductInv, ProductOK, Product!TypeOK
  <1>2. \A b \in Backends : [index[b] EXCEPT ![ch] = codes] \in [Channels -> SUBSET Product!Codes]
    BY <1>1
  <1> QED
    BY <1>1, <1>2 DEF Product!Listing

(* A version is published or taken off. *)
LEMMA WriteSteps ==
    ASSUME ProductInv, NEW r \in Requests, Product!Write(r)
    PROVE  ProductInv'
  <1> USE DocumentParts
  <1>1. CASE Product!BeginWrite(r)
    <2> DEFINE new == [Product!Idle EXCEPT !.op = "write", !.step = "lock"]
    <2>1. /\ new \in HandlerType /\ new.op = "write" /\ new.step = "lock" /\ new.dead = {} /\ new.seen = {}
      BY DEF Product!Idle, HandlerType
    <2>2. /\ req' = [req EXCEPT ![r] = new] /\ req[r].op = "idle" /\ req[r].step = "none"
          /\ UNCHANGED <<doc, disk, view, productMu, lock, unsigned, index, directory, tree, given, withdrawn>>
      BY <1>1, Records DEF Product!BeginWrite, Product!Go, Product!agent, Product!store, Product!rest
    <2> HIDE DEF new
    <2>3. HandlerFits(new)
      BY <2>1 DEF HandlerFits, TokensFit, FloorFits, RetirementFits, Retirement
    <2> QED
      BY <2>1, <2>2, <2>3, RecordMoves
  <1>2. CASE Product!Refused(r)
    BY <1>2, Answers DEF Product!Refused, Product!At, Product!rest
  <1>3. ASSUME NEW c \in Product!Codes, NEW ch \in Channels, Product!Publish(r, c, ch) \/ Product!Unpublish(r, c, ch)
        PROVE  ProductInv'
    <2> DEFINE rs == [req EXCEPT ![r] = Product!Idle]
    <2>1. /\ req[r].op = "write" /\ req[r].step = "lock" /\ lock = None /\ Product!Agree(ch)
          /\ req' = Product!Still(rs, index')
          /\ UNCHANGED <<doc, disk, view, productMu, lock, unsigned, tree, given, withdrawn>>
      BY <1>3 DEF Product!Publish, Product!Unpublish, Product!Writes, Product!At, Product!agent
    <2>2. \E S \in SUBSET Backends, codes \in SUBSET Product!Codes :
             Product!Listing(S, ch, codes) /\ directory' \in SUBSET Backends
      <3>1. /\ Product!ListedCodes(ch) \cup {c} \in SUBSET Product!Codes
            /\ Product!ListedCodes(ch) \ {c} \in SUBSET Product!Codes
        BY <2>1, Agreed
      <3>2. directory \in SUBSET Backends
        BY DEF ProductInv, ProductOK, Product!TypeOK
      <3>3. CASE Product!Publish(r, c, ch)
        BY <3>1, <3>2, <3>3 DEF Product!Publish, Product!DirectoryWritten
      <3>4. CASE Product!Unpublish(r, c, ch)
        BY <3>1, <3>2, <3>4 DEF Product!Unpublish
      <3> QED
        BY <1>3, <3>3, <3>4
    <2>3. index' \in [Backends -> [Channels -> SUBSET Product!Codes]] /\ directory' \in SUBSET Backends
      BY <2>2, ListingTyped
    <2>4. rs \in [Requests -> HandlerType] /\ \A q \in Requests : rs[q] = IF q = r THEN Product!Idle ELSE req[q]
      BY IdleFits DEF ProductInv, ProductOK
    <2> HIDE DEF rs
    <2>5. ASSUME NEW q \in Requests
          PROVE  /\ rs[q].op = "retire" <=> req[q].op = "retire"
                 /\ rs[q].step \in {"credentials", "assign"} <=> req[q].step \in {"credentials", "assign"}
                 /\ TokensFit(rs[q]) /\ FloorFits(rs[q]) /\ rs[q].op # "retire"
      <3>1. HandlerFits(rs[q])
        BY <2>4, IdleFits DEF ProductInv
      <3>2. req[q].op # "retire"
        BY <2>1, NobodyRetires
      <3> QED
        BY <2>1, <2>4, <3>1, <3>2, IdleFits DEF HandlerFits
    <2>6. \A q \in Requests : rs[q].op = "claim" =>
              \A p \in rs[q].seen : p[1] \in rs[q].todo \/ p[2] <= rs[q].floor
      BY <2>5 DEF FloorFits
    <2>7. \A q \in Requests : Retirement(rs[q], index', directory')
      BY <2>5 DEF Retirement
    <2> QED
      BY <2>1, <2>3, <2>4, <2>5, <2>6, <2>7, StoreMoves
  <1> QED
    BY <1>1, <1>2, <1>3 DEF Product!Write

(* A handler of a retirement moves on with its lock. *)
LEMMA RetirementMoves ==
    ASSUME ProductInv, NEW r \in Requests, NEW new \in HandlerType,
           Product!Go(r, new), UNCHANGED <<Product!agent, Product!store, given, withdrawn>>,
           req[r].op = "retire", new.op = "retire",
           req[r].step \in {"channels", "remove"}, new.step \in {"channels", "remove"},
           new.dead = req[r].dead, new.seen = req[r].seen, RetirementFits(new)
    PROVE  ProductInv'
  <1>1. TokensFit(new) /\ FloorFits(new)
    BY DEF ProductInv, HandlerFits, TokensFit, FloorFits
  <1>2. HandlerFits(new)
    BY <1>1 DEF HandlerFits
  <1> QED
    BY <1>2, RecordMoves DEF Product!Go, Product!agent, Product!store

(* A retirement is given up. *)
LEMMA Leaves ==
    ASSUME ProductInv, NEW r \in Requests, Product!Answer(r), lock' = None,
           UNCHANGED <<doc, disk, view, productMu, unsigned, Product!store, given, withdrawn>>,
           req[r].op = "retire", req[r].step \notin {"credentials", "assign"}
    PROVE  ProductInv'
  <1>1. lock = r /\ productMu # r
    BY DEF ProductInv, ProductOK, Product!TypeOK
  <1>2. view \in [registered : BOOLEAN, credentials : SUBSET Tokens] /\ unsigned \in BOOLEAN
    BY DEF ProductInv, ProductOK, Product!TypeOK
  <1> QED
    BY <1>1, <1>2, IdleFits, HandlerMoves DEF Product!Answer, Product!store

(* The crash of the agent leaves what the file says. *)
LEMMA CrashStep == ASSUME ProductInv, Product!Crash PROVE ProductInv'
  <1> USE DocumentParts
  <1>1. \A q \in Requests : req'[q] = Product!Idle
    BY DEF Product!Crash
  <1>2. req' \in [Requests -> HandlerType] /\ \A q \in Requests : HandlerFits(req'[q])
    BY <1>1, IdleFits DEF Product!Crash
  <1>3. \A q \in Requests : req'[q].op = "idle" /\ req'[q].step = "none" /\ req'[q].dead = {}
                             /\ req'[q].seen = {}
    BY <1>1, IdleFits
  <1>4. \A q \in Requests : HandlerFits(req[q])'
    BY <1>3 DEF HandlerFits, TokensFit, FloorFits, RetirementFits, Retirement
  <1>5. /\ doc' = doc /\ disk' = disk /\ view' = [registered |-> doc.registered, credentials |-> doc.tokens]
        /\ productMu' = None /\ lock' = None /\ unsigned' = TRUE
        /\ UNCHANGED <<index, directory, tree, given, withdrawn>>
    BY DEF Product!Crash, Product!Projection, Product!store
  <1>6. Product!TypeOK'
    BY <1>3, <1>5, AdminAssumption DEF ProductInv, ProductOK, Product!TypeOK
  <1> QED
    BY <1>2, <1>4, <1>5, <1>6 DEF ProductInv, ProductOK

(* Documents are deleted: what was gone stays gone, and what could be deleted
   everywhere is gone too. *)
LEMMA DeleteSteps ==
    ASSUME ProductInv, NEW r \in Requests, Product!deleteOnAll(r)
    PROVE  ProductInv'
  <1> USE DocumentParts
  <1>1. PICK S \in SUBSET Backends :
          /\ directory' = IF req[r].key = "directory" THEN directory \cap S ELSE directory
          /\ index' = [b \in Backends |-> [ch \in Channels |->
                 IF req[r].key = ch /\ b \notin S THEN {} ELSE index[b][ch]]]
          /\ req' = Product!Still([req EXCEPT ![r].key = None, ![r].failed = @ \/ S # {}], index')
    BY Zenon DEF Product!deleteOnAll
  <1>2. req[r].key # None /\ UNCHANGED <<doc, disk, view, productMu, lock, unsigned, tree, given, withdrawn>>
    BY DEF Product!deleteOnAll, Product!agent
  <1> DEFINE new == [req[r] EXCEPT !.key = None, !.failed = @ \/ S # {}]
             rs  == [req EXCEPT ![r] = new]
  <1>3. req[r] \in HandlerType
    OBVIOUS
  <1>4. /\ new.op = req[r].op /\ new.step = req[r].step /\ new.dead = req[r].dead
        /\ new.seen = req[r].seen /\ new.todo = req[r].todo /\ new.floor = req[r].floor
        /\ new.credentials = req[r].credentials /\ new.key = None
        /\ new.failed = (req[r].failed \/ S # {})
    BY <1>3 DEF HandlerType
  <1>5. new \in HandlerType
    BY <1>3 DEF HandlerType
  <1>6. req' = Product!Still(rs, index')
    <2> DEFINE changed == [req EXCEPT ![r].key = None, ![r].failed = @ \/ S # {}]
    <2>1. \A q \in Requests : changed[q] = rs[q]
      BY <1>3 DEF ProductInv, ProductOK, HandlerType
    <2>2. req' = Product!Still(changed, index')
      BY <1>1
    <2> HIDE DEF changed, rs
    <2> QED
      BY <2>1, <2>2 DEF Product!Still
  <1> HIDE DEF new
  <1>7. rs \in [Requests -> HandlerType] /\ \A q \in Requests : rs[q] = IF q = r THEN new ELSE req[q]
    BY <1>5 DEF ProductInv, ProductOK
  <1>8. index' \in [Backends -> [Channels -> SUBSET Product!Codes]] /\ directory' \in SUBSET Backends
    <2>1. index \in [Backends -> [Channels -> SUBSET Product!Codes]] /\ directory \in SUBSET Backends
      BY DEF ProductInv, ProductOK, Product!TypeOK
    <2> QED
      BY <1>1, <2>1
  <1>9. \A ch \in Channels : Gone(index, ch) => Gone(index', ch)
    BY <1>1 DEF Gone
  <1>10. \A ch \in Channels : req[r].key = ch /\ S = {} => Gone(index', ch)
    BY <1>1 DEF Gone
  <1>11. /\ directory = {} => directory' = {}
         /\ req[r].key = "directory" /\ S = {} => directory' = {}
    BY <1>1
  <1> HIDE DEF rs
  <1>12. ASSUME NEW q \in Requests
         PROVE  /\ TokensFit(rs[q]) /\ FloorFits(rs[q])
                /\ rs[q].op = "retire" <=> req[q].op = "retire"
                /\ rs[q].step \in {"credentials", "assign"} <=> req[q].step \in {"credentials", "assign"}
    BY <1>4, <1>7 DEF ProductInv, HandlerFits, TokensFit, FloorFits
  <1>13. ASSUME NEW q \in Requests, q # r PROVE Retirement(rs[q], index', directory')
    <2>1. rs[q] = req[q] /\ Retirement(req[q], index, directory)
      BY <1>7, <1>13 DEF ProductInv, HandlerFits, RetirementFits
    <2>2. Retirement(req[q], index', directory')
      <3> HIDE DEF Gone
      <3> SUFFICES ASSUME req[q].op = "retire" PROVE Retirement(req[q], index', directory')
        BY DEF Retirement
      <3>1. CASE req[q].step = "channels"
        BY <1>9, <2>1, <3>1 DEF Retirement
      <3>2. CASE req[q].step = "remove"
        BY <1>9, <1>11, <2>1, <3>2 DEF Retirement
      <3>3. CASE req[q].step \notin {"channels", "remove"}
        BY <3>3 DEF Retirement
      <3> QED
        BY <3>1, <3>2, <3>3
    <2> QED
      BY <2>1, <2>2
  <1>14. Retirement(new, index', directory')
    <2>1. Retirement(req[r], index, directory)
      BY DEF ProductInv, HandlerFits, RetirementFits
    <2>2. None \notin Channels /\ None # "directory" /\ "directory" \notin Channels
      BY AdminAssumption
    <2>3. req[r].key \in Channels \cup {None, "directory"}
      BY <1>3 DEF HandlerType
    <2> QED
      BY <1>2, <1>4, <1>9, <1>10, <1>11, <2>1, <2>2, <2>3 DEF Retirement
  <1>15. \A q \in Requests : Retirement(rs[q], index', directory')
    BY <1>7, <1>13, <1>14
  <1>16. \A q \in Requests : rs[q].op = "claim" =>
            \A p \in rs[q].seen : p[1] \in rs[q].todo \/ p[2] <= rs[q].floor
    BY <1>12 DEF FloorFits
  <1> QED
    BY <1>2, <1>6, <1>7, <1>8, <1>12, <1>15, <1>16, StoreMoves

(* A product is retired. *)
LEMMA RetireSteps ==
    ASSUME ProductInv, NEW r \in Requests, Product!Retire(r)
    PROVE  ProductInv'
  <1> USE DocumentParts
  <1>0. req[r] \in HandlerType /\ HandlerFits(req[r])
    BY DEF ProductInv
  <1>1. CASE Product!BeginRetire(r)
    <2> DEFINE new == [Product!Idle EXCEPT !.op = "retire", !.step = IF tree THEN "channels" ELSE "remove",
                                           !.todo = Channels]
    <2>1. /\ new.op = "retire" /\ new.step = IF tree THEN "channels" ELSE "remove"
          /\ new.todo = Channels /\ new.dead = {} /\ new.seen = {} /\ new.key = None
      BY DEF Product!Idle
    <2>2. new \in HandlerType
      BY ZenonT(60) DEF Product!Idle, HandlerType
    <2>3. /\ req' = [req EXCEPT ![r] = new] /\ req[r].op = "idle" /\ req[r].step = "none" /\ lock = None /\ lock' = r
          /\ UNCHANGED <<doc, disk, view, productMu, unsigned, index, directory, tree, given, withdrawn>>
      BY <1>1, Records DEF Product!BeginRetire, Product!Go, Product!store, Product!rest
    <2> HIDE DEF new
    <2>4. HandlerFits(new)
      BY <2>1, AdminAssumption DEF HandlerFits, TokensFit, FloorFits, RetirementFits, Retirement
    <2>5. productMu # r /\ unsigned \in BOOLEAN
      BY <2>3 DEF ProductInv, ProductOK, Product!TypeOK
    <2> QED
      BY <2>1, <2>2, <2>3, <2>4, <2>5, HandlerMoves
  <1>2. ASSUME NEW ch \in Channels, Product!RetireChannel(r, ch) PROVE ProductInv'
    <2> DEFINE new == [req[r] EXCEPT !.todo = @ \ {ch}, !.key = IF Product!ListedCodes(ch) = {} THEN None ELSE ch]
    <2>1. /\ req[r].op = "retire" /\ req[r].step = "channels" /\ req[r].key = None /\ Product!Agree(ch)
          /\ UNCHANGED <<Product!agent, Product!store, given, withdrawn>> /\ Product!Go(r, new)
      BY <1>2 DEF Product!RetireChannel, Product!At, Product!rest
    <2>2. /\ new.op = req[r].op /\ new.step = req[r].step /\ new.dead = req[r].dead
          /\ new.seen = req[r].seen /\ new.todo = req[r].todo \ {ch} /\ new.failed = req[r].failed
          /\ new.key = IF Product!ListedCodes(ch) = {} THEN None ELSE ch
      BY <1>0 DEF HandlerType
    <2>3. new \in HandlerType
      BY <1>0 DEF HandlerType
    <2> HIDE DEF new
    <2>4. Product!ListedCodes(ch) = {} => Gone(index, ch)
      BY <2>1, Agreed DEF Gone
    <2>5. RetirementFits(new)
      <3>1. tree /\ ~req[r].failed => \A k \in Channels \ (req[r].todo \cup {None}) : Gone(index, k)
        BY <1>0, <2>1 DEF HandlerFits, RetirementFits, Retirement
      <3>2. tree /\ ~new.failed => \A k \in Channels \ (new.todo \cup {new.key}) : Gone(index, k)
        BY <2>2, <2>4, <3>1, AdminAssumption
      <3>3. new.key # "directory"
        BY <2>2, AdminAssumption
      <3> QED
        BY <2>1, <2>2, <3>2, <3>3 DEF RetirementFits, Retirement
    <2> QED
      BY <2>1, <2>2, <2>3, <2>5, RetirementMoves
  <1>3. CASE Product!RetireDisagrees(r)
    BY <1>3, Leaves DEF Product!RetireDisagrees, Product!At, Product!Leave, Product!rest
  <1>4. CASE Product!RetireDirectory(r)
    <2> DEFINE new == [req[r] EXCEPT !.step = "remove", !.key = "directory"]
    <2>1. /\ req[r].op = "retire" /\ req[r].step = "channels" /\ req[r].key = None /\ req[r].todo = {}
          /\ UNCHANGED <<Product!agent, Product!store, given, withdrawn>> /\ Product!Go(r, new)
      BY <1>4 DEF Product!RetireDirectory, Product!At, Product!rest
    <2>2. /\ new.op = req[r].op /\ new.step = "remove" /\ new.dead = req[r].dead
          /\ new.seen = req[r].seen /\ new.failed = req[r].failed /\ new.key = "directory"
      BY <1>0 DEF HandlerType
    <2>3. new \in HandlerType
      BY <1>0 DEF HandlerType
    <2> HIDE DEF new
    <2>4. RetirementFits(new)
      BY <1>0, <2>1, <2>2, AdminAssumption DEF HandlerFits, RetirementFits, Retirement
    <2> QED
      BY <2>1, <2>2, <2>3, <2>4, RetirementMoves
  <1>5. CASE Product!deleteOnAll(r)
    BY <1>5, DeleteSteps
  <1>6. CASE Product!RetireFails(r)
    BY <1>6, Leaves DEF Product!RetireFails, Product!Retired, Product!At, Product!Leave, Product!rest
  <1>7. CASE Product!RemoveProduct(r)
    <2>1. req[r].op = "retire" /\ req[r].step = "remove"
      BY <1>7 DEF Product!RemoveProduct, Product!Retired, Product!At
    <2>2. CASE /\ Product!Answer(r) /\ lock' = None
               /\ UNCHANGED <<doc, disk, view, productMu, unsigned, Product!store, given, withdrawn>>
      BY <2>1, <2>2, Leaves
    <2> DEFINE new == Product!Reload("retire", doc.tokens)
    <2>3. CASE /\ Product!Persist(Product!Forgotten) /\ given' = {} /\ Product!Go(r, new)
               /\ UNCHANGED <<view, productMu, lock, unsigned, Product!store, withdrawn>>
      <3>1. /\ Product!Forgotten \in [registered : BOOLEAN, last : 0..MaxCode, tokens : SUBSET Tokens]
            /\ Product!Forgotten.tokens = {}
        BY AdminAssumption DEF Product!Forgotten
      <3>2. /\ req' = [req EXCEPT ![r] = new] /\ doc' = Product!Forgotten /\ disk' = Product!Forgotten
            /\ UNCHANGED <<view, productMu, lock, unsigned, index, directory, tree, withdrawn>>
            /\ given' \in SUBSET Product!Codes /\ \A c \in given' : c <= Product!Forgotten.last
        BY <2>3 DEF Product!Persist, Product!Go, Product!store
      <3>3. /\ new \in HandlerType /\ new.op = "retire" /\ new.step = "reload"
            /\ FloorFits(new) /\ RetirementFits(new)
        BY Records
      <3> HIDE DEF new
      <3> QED
        BY <2>1, <3>1, <3>2, <3>3, DocumentMoves
    <2> QED
      BY <1>7, <2>2, <2>3 DEF Product!RemoveProduct, Product!Leave, Product!rest
  <1> QED
    BY <1>1, <1>2, <1>3, <1>4, <1>5, <1>6, <1>7 DEF Product!Retire

(* Every step of the product keeps its invariant. *)
LEMMA ProductStep == ASSUME ProductInv, Product!Next PROVE ProductInv'
  <1>1. CASE Product!EnsureProfile
    <2>1. CASE Requests = {}
      <3>1. Product!TypeOK'
        <4>1. directory' \in SUBSET Backends /\ unsigned' \in BOOLEAN
          BY <1>1 DEF Product!EnsureProfile, Product!SignProfile, Product!DirectoryWritten, ProductInv, ProductOK,
                      Product!TypeOK
        <4> QED
          BY <1>1, <2>1, <4>1 DEF Product!EnsureProfile, ProductInv, ProductOK, Product!TypeOK
      <3> QED
        BY <1>1, <2>1, <3>1 DEF Product!EnsureProfile, ProductInv, ProductOK
    <2>2. CASE Requests # {}
      <3>1. PICK r \in Requests : TRUE
        BY <2>2
      <3> QED
        BY <1>1, <3>1, ProfileSteps DEF Product!EnsureProfile
    <2> QED
      BY <2>1, <2>2
  <1> QED
    BY <1>1, CrashStep, RegisterSteps, TokenSteps, ReloadSteps, ClaimSteps, WriteSteps, RetireSteps DEF Product!Next

(* Codes are handed out by claims only. *)
LEMMA GivenByClaims ==
    ASSUME Product!Next, NEW c \in given', c \notin given
    PROVE  \E r \in Requests :
               /\ req[r].op = "claim" /\ req[r].todo = {} /\ c = Product!NextCode(r)
               /\ req' = [req EXCEPT ![r] = Product!Idle]
  <1>1. ASSUME Product!EnsureProfile \/ Product!Crash PROVE FALSE
    BY <1>1 DEF Product!EnsureProfile, Product!Crash
  <1>2. PICK r \in Requests : \/ Product!Register(r) \/ Product!Token(r) \/ Product!reloadAdmin(r)
                              \/ Product!Claim(r) \/ Product!Write(r) \/ Product!Retire(r)
    BY <1>1 DEF Product!Next
  <1>3. ASSUME Product!Register(r) PROVE FALSE
    BY <1>3 DEF Product!Register, Product!AddProduct, Product!SignFirst, Product!FirstToken, Product!PersistFails,
                Product!rest
  <1>4. ASSUME Product!Token(r) PROVE FALSE
    BY <1>4 DEF Product!Token, Product!IssueToken, Product!RevokeToken, Product!RotateToken, Product!PersistFails,
                Product!rest
  <1>5. ASSUME Product!reloadAdmin(r) PROVE FALSE
    BY <1>5 DEF Product!reloadAdmin, Product!ReloadProducts, Product!ReloadCredentials, Product!ReloadDone,
                Product!rest
  <1>6. ASSUME Product!Write(r) PROVE FALSE
    BY <1>6 DEF Product!Write, Product!BeginWrite, Product!Refused, Product!Publish, Product!Unpublish, Product!rest
  <1>7. ASSUME Product!Retire(r) PROVE FALSE
    BY <1>7 DEF Product!Retire, Product!BeginRetire, Product!RetireDisagrees, Product!RetireDirectory,
                Product!deleteOnAll, Product!RetireFails, Product!RemoveProduct, Product!RetireChannel,
                Product!Leave, Product!rest
  <1>8. Product!Claim(r)
    BY <1>2, <1>3, <1>4, <1>5, <1>6, <1>7
  <1>9. Product!AllocateReleaseCode(r)
    BY <1>8 DEF Product!Claim, Product!BeginClaim, Product!ReadFloor, Product!rest
  <1> QED
    BY <1>9 DEF Product!AllocateReleaseCode, Product!At, Product!Answer, Product!PersistFails, Product!rest

(* A claimed code is above all that went before and all that the claim read. *)
LEMMA CodesFresh ==
    ASSUME ProductInv, Product!Next, NEW c \in given' \ given, NEW r \in Requests,
           Product!At(r, "claim", "floor"), req'[r] = Product!Idle, req[r].todo = {},
           NEW old \in given \cup {p[2] : p \in req[r].seen}
    PROVE  c > old
  <1>1. PICK q \in Requests : /\ req[q].op = "claim" /\ req[q].todo = {} /\ c = Product!NextCode(q)
                              /\ req' = [req EXCEPT ![q] = Product!Idle]
    BY GivenByClaims
  <1>2. q = r
    <2>1. req[r].op = "claim"
      BY DEF Product!At
    <2> QED
      BY <1>1, <2>1, IdleFits DEF ProductInv, ProductOK
  <1>3. Product!NextCode(q) \in Nat /\ old < Product!NextCode(q)
    BY <1>1, <1>2, NextIsHigher
  <1>4. old \in Nat
    BY DocumentParts, AdminAssumption DEF HandlerType, Product!Codes
  <1> QED
    BY <1>1, <1>3, <1>4

(* Only a retirement that has deleted everything removes the registration. *)
LEMMA RetiredIsGone ==
    ASSUME ProductInv, Product!Next, doc.registered, ~doc'.registered, tree
    PROVE  directory = {} /\ \A b \in Backends, ch \in Channels : index[b][ch] = {}
  <1> USE DocumentParts
  <1>1. ASSUME Product!EnsureProfile \/ Product!Crash PROVE FALSE
    BY <1>1 DEF Product!EnsureProfile, Product!Crash
  <1>2. PICK r \in Requests : \/ Product!Register(r) \/ Product!Token(r) \/ Product!reloadAdmin(r)
                              \/ Product!Claim(r) \/ Product!Write(r) \/ Product!Retire(r)
    BY <1>1 DEF Product!Next
  <1>3. ASSUME Product!Register(r) PROVE FALSE
    BY <1>3 DEF Product!Register, Product!AddProduct, Product!SignFirst, Product!FirstToken, Product!PersistFails,
                Product!Persist, Product!rest, Product!agent
  <1>4. ASSUME Product!Token(r) PROVE FALSE
    BY <1>4 DEF Product!Token, Product!IssueToken, Product!RevokeToken, Product!RotateToken, Product!PersistFails,
                Product!Persist, Product!rest, Product!agent
  <1>5. ASSUME Product!reloadAdmin(r) PROVE FALSE
    BY <1>5 DEF Product!reloadAdmin, Product!ReloadProducts, Product!ReloadCredentials, Product!ReloadDone,
                Product!rest, Product!agent
  <1>6. ASSUME Product!Write(r) PROVE FALSE
    BY <1>6 DEF Product!Write, Product!BeginWrite, Product!Refused, Product!Publish, Product!Unpublish, Product!rest,
                Product!agent
  <1>7. ASSUME Product!Claim(r) PROVE FALSE
    <2> DEFINE code == Product!NextCode(r)
    <2>1. doc' = doc \/ doc' = [doc EXCEPT !.last = code]
      BY <1>7 DEF Product!Claim, Product!BeginClaim, Product!ReadFloor, Product!AllocateReleaseCode, Product!Persist,
                  Product!PersistFails, Product!agent
    <2> HIDE DEF code
    <2> QED
      BY <2>1
  <1>8. Product!Retired(r) /\ ~Product!Stops(r)
    BY <1>2, <1>3, <1>4, <1>5, <1>6, <1>7 DEF Product!Retire, Product!BeginRetire, Product!RetireDisagrees,
       Product!RetireDirectory, Product!deleteOnAll, Product!RetireFails, Product!RemoveProduct, Product!RetireChannel,
       Product!Leave, Product!rest, Product!agent
  <1>9. Retirement(req[r], index, directory)
    BY DEF ProductInv, HandlerFits, RetirementFits
  <1> QED
    BY <1>8, <1>9 DEF Product!Retired, Product!Stops, Product!At, Retirement, Gone

-----------------------------------------------------------------------------
(* Steps of the accounts. *)

(* The bodies that the handlers accept. *)
LEMMA BodiesTyped == Operators!ChangeBodies \subseteq ChangeType
  <1> SUFFICES ASSUME NEW c \in Operators!ChangeBodies PROVE c \in ChangeType
    OBVIOUS
  <1> DEFINE body(op, n, role, products, password) ==
               [at |-> op, name |-> n, role |-> role, products |-> products, password |-> password]
             assigned == (SUBSET Products) \ {{}}
             D == {body("delete", n, None, {}, None) : n \in Names}
             W == {body("password", n, None, {}, w) : n \in Names, w \in Passwords}
             P == {body("products", n, None, ps, None) : n \in Names, ps \in assigned}
             RA == {body("role", n, "admin", {}, None) : n \in Names}
             RO == {body("role", n, "owner", ps, None) : n \in Names, ps \in assigned}
             AA == {body("add", n, "admin", {}, w) : n \in Names, w \in Passwords}
             AO == {body("add", n, "owner", ps, w) : n \in Names, ps \in assigned, w \in Passwords}
  <1>1. c \in UNION {D, W, P, RA, RO, AA, AO}
    BY DEF Operators!ChangeBodies
  <1>2. c \in D => c \in ChangeType
    BY DEF ChangeType
  <1>3. c \in W => c \in ChangeType
    BY DEF ChangeType
  <1>4. c \in P => c \in ChangeType
    BY DEF ChangeType
  <1>5. c \in RA => c \in ChangeType
    BY DEF ChangeType
  <1>6. c \in RO => c \in ChangeType
    BY DEF ChangeType
  <1>7. c \in AA => c \in ChangeType
    BY DEF ChangeType
  <1>8. c \in AO => c \in ChangeType
    BY DEF ChangeType
  <1> HIDE DEF D, W, P, RA, RO, AA, AO
  <1>9. c \in D \/ c \in W \/ c \in P \/ c \in RA \/ c \in RO \/ c \in AA \/ c \in AO
    BY <1>1
  <1> QED
    BY <1>2, <1>3, <1>4, <1>5, <1>6, <1>7, <1>8, <1>9

(* What a handler is doing tells its record. *)
LEMMA RequestKinds ==
    ASSUME AccountsOK, NEW r \in Requests
    PROVE  /\ request[r].at = "issue" => request[r] \in IssueType
           /\ request[r].at \in {"delete", "password", "products", "role", "add"} => request[r] \in ChangeType
           /\ request[r] = Operators!Idle => request[r] \notin ChangeType
           /\ request[r] \in IssueType => request[r] \notin ChangeType
  BY DEF AccountsOK, IssueType, ChangeType, Operators!Idle

(* A document with another account of a name. *)
LEMMA Putting ==
    ASSUME NEW d \in DocumentType, NEW n \in Names, NEW account \in Operators!Account \cup {None},
           NEW b \in Nat
    PROVE  LET e == [users |-> [d.users EXCEPT ![n] = account], bootstrap |-> b] IN
           /\ e \in DocumentType
           /\ \A m \in Names : e.users[m] = IF m = n THEN account ELSE d.users[m]
  BY DEF DocumentType

(* A change is stored, or put back. *)
LEMMA Stored ==
    ASSUME AccountsInv, NEW d \in DocumentType, Operators!Store(d),
           overwrote \/ Operators!Admins(d) # {},
           accounts' \in 0..MaxAccounts,
           sessions' \subseteq sessions,
           \A s \in sessions' : s.of # 0 => d.users[s.name] # None /\ d.users[s.name].born = s.of,
           request' \in [Requests -> {Operators!Idle} \cup IssueType \cup ChangeType],
           \A q \in Requests : request'[q] \in ChangeType => request[q] \in ChangeType,
           UNCHANGED <<registered, command, mints>>
    PROVE  AccountsInv'
  <1>1. CASE Operators!Persist(d)
    <2>1. /\ accountDoc' = d /\ accountDisk' = d /\ foreign' = FALSE
          /\ faults' = faults /\ overwrote' = overwrote
      BY <1>1 DEF Operators!Persist
    <2>2. AccountsOK'
      BY <2>1 DEF AccountsInv, AccountsOK
    <2>3. SomebodyAsks'
      BY <2>1 DEF AccountsInv, SomebodyAsks, Operators!Admins, Operators!Present
    <2>4. SessionsFit'
      BY <2>1 DEF SessionsFit
    <2>5. Operators!AdminRemains'
      BY <2>1 DEF Operators!AdminRemains, Operators!Admins, Operators!Present
    <2> QED
      BY <2>2, <2>3, <2>4, <2>5 DEF AccountsInv
  <1>2. CASE Operators!PersistFails(d)
    <2>1. /\ accountDoc' = accountDoc /\ accountDisk' = accountDisk /\ faults' = faults + 1
          /\ foreign' = foreign /\ overwrote' = overwrote
      BY <1>2 DEF Operators!PersistFails, Operators!PutBack, Operators!history
    <2>2. AccountsOK'
      BY <2>1 DEF AccountsInv, AccountsOK
    <2>3. SomebodyAsks'
      BY <2>1 DEF AccountsInv, SomebodyAsks, Operators!Admins, Operators!Present
    <2>4. SessionsFit'
      BY <2>1 DEF AccountsInv, SessionsFit
    <2>5. Operators!AdminRemains'
      BY <2>1 DEF AccountsInv, Operators!AdminRemains, Operators!Admins, Operators!Present
    <2> QED
      BY <2>2, <2>3, <2>4, <2>5 DEF AccountsInv
  <1> QED
    BY <1>1, <1>2 DEF Operators!Store

(* The document stays. *)
LEMMA Kept ==
    ASSUME AccountsInv,
           UNCHANGED <<accountDoc, accountDisk, registered, command, accounts, mints, faults, foreign, overwrote>>,
           sessions' \subseteq [name : Names, of : Nat],
           \A s \in sessions' \ sessions : s.of # 0 =>
               accountDoc.users[s.name] # None /\ accountDoc.users[s.name].born = s.of,
           request' \in [Requests -> {Operators!Idle} \cup IssueType \cup ChangeType],
           \A q \in Requests : request'[q] \in ChangeType =>
               request[q] \in ChangeType \/ Operators!Present(accountDoc) # {}
    PROVE  AccountsInv'
  <1>1. AccountsOK'
    BY DEF AccountsInv, AccountsOK
  <1>2. SomebodyAsks'
    BY DEF AccountsInv, SomebodyAsks, Operators!Present
  <1>3. SessionsFit'
    BY DEF AccountsInv, SessionsFit
  <1>4. Operators!AdminRemains'
    BY DEF AccountsInv, Operators!AdminRemains, Operators!Admins, Operators!Present
  <1> QED
    BY <1>1, <1>2, <1>3, <1>4 DEF AccountsInv

(* At first nobody has an account. *)
LEMMA InitAccounts == ASSUME Operators!AccountsInit PROVE AccountsInv
  <1>1. PICK b \in 0..1 : accountDoc = [Operators!Empty EXCEPT !.bootstrap = b] /\ accountDisk = accountDoc
                          /\ mints = b
    BY DEF Operators!AccountsInit
  <1>2. accountDoc = [users |-> [n \in Names |-> None], bootstrap |-> b]
    BY <1>1 DEF Operators!Empty
  <1>3. accountDoc \in DocumentType /\ Operators!Present(accountDoc) = {}
    BY <1>2 DEF DocumentType, Operators!Present
  <1>4. AccountsOK
    <2>1. /\ sessions = {} /\ registered = {} /\ command = None /\ accounts = 0 /\ faults = 0
          /\ foreign = FALSE /\ overwrote = FALSE /\ request = [r \in Requests |-> Operators!Idle]
      BY DEF Operators!AccountsInit
    <2>2. mints \in Nat /\ 0 \in 0..MaxAccounts
      BY <1>1, AccountsAssumption
    <2>3. request \in [Requests -> {Operators!Idle} \cup IssueType \cup ChangeType]
      BY <2>1
    <2> QED
      BY <1>1, <1>3, <2>1, <2>2, <2>3 DEF AccountsOK
  <1>5. \A r \in Requests : request[r] \notin ChangeType
    BY DEF Operators!AccountsInit, Operators!Idle, ChangeType
  <1>6. SomebodyAsks /\ SessionsFit
    BY <1>5 DEF SomebodyAsks, SessionsFit, Operators!AccountsInit
  <1>7. Operators!AdminRemains
    BY <1>1, <1>3 DEF Operators!AdminRemains, Operators!AccountsInit
  <1> QED
    BY <1>4, <1>6, <1>7 DEF AccountsInv

(* Somebody who asks for a change is there, and so is an admin. *)
LEMMA AnAdminIsThere ==
    ASSUME AccountsInv, NEW r \in Requests, request[r] \in ChangeType
    PROVE  overwrote \/ Operators!Admins(accountDoc) # {}
  BY DEF AccountsInv, SomebodyAsks, Operators!AdminRemains

(* The changes that admins ask for. *)
LEMMA ChangeSteps ==
    ASSUME AccountsInv, NEW r \in Requests, Operators!Change(r)
    PROVE  AccountsInv'
  <1> DEFINE c == request[r]
  <1>1. AccountsOK
    BY DEF AccountsInv
  <1>2. request' = [request EXCEPT ![r] = Operators!Idle] /\ UNCHANGED <<registered, command, mints>>
    BY DEF Operators!Change
  <1>3. /\ request' \in [Requests -> {Operators!Idle} \cup IssueType \cup ChangeType]
        /\ \A q \in Requests : request'[q] \in ChangeType => request[q] \in ChangeType
    <2>1. \A q \in Requests : request'[q] = IF q = r THEN Operators!Idle ELSE request[q]
      BY <1>1, <1>2 DEF AccountsOK
    <2>2. Operators!Idle \notin ChangeType
      BY DEF Operators!Idle, ChangeType
    <2> QED
      BY <1>1, <1>2, <2>1, <2>2 DEF AccountsOK
  <1>4. accountDoc \in DocumentType /\ accounts \in 0..MaxAccounts /\ MaxAccounts \in Nat
        /\ sessions \subseteq [name : Names, of : Nat]
    BY <1>1, AccountsAssumption DEF AccountsOK
  <1>5. \A n \in Names : accountDoc.users[n] \in Operators!Account \cup {None}
    BY <1>4 DEF DocumentType
  <1>6. \A s \in sessions : s.of # 0 => accountDoc.users[s.name] # None /\ accountDoc.users[s.name].born = s.of
    BY DEF AccountsInv, SessionsFit
  <1>7. CASE Operators!Refuse /\ UNCHANGED <<accounts, sessions>>
    BY <1>2, <1>3, <1>4, <1>7, Kept DEF Operators!Refuse, Operators!history
  <1>8. CASE Operators!AddUser(r) /\ accountDoc.users[c.name] = None
    <2>1. c \in ChangeType /\ c.name \in Names /\ c.role \in {"admin", "owner"} /\ c.password \in Passwords
          /\ c.products \in SUBSET Products
      BY <1>1, <1>8, RequestKinds DEF Operators!AddUser, Operators!Changes, ChangeType
    <2> DEFINE account == [role |-> c.role, products |-> Operators!Assigned(c),
                           password |-> c.password, born |-> accounts + 1]
               d == [users |-> [accountDoc.users EXCEPT ![c.name] = account], bootstrap |-> accountDoc.bootstrap]
    <2>2. Operators!Store(d) /\ accounts' = accounts + 1 /\ accounts' \in 0..MaxAccounts /\ sessions' = sessions
      <3>1. Operators!Put(c.name, account) = d
        BY <1>4 DEF Operators!Put, DocumentType
      <3> QED
        BY <1>4, <1>8, <3>1 DEF Operators!AddUser
    <2>3. account \in Operators!Account /\ accountDoc.bootstrap \in Nat
      BY <1>4, <2>1, <2>2 DEF Operators!Account, Operators!Assigned, DocumentType
    <2> HIDE DEF account
    <2>4. d \in DocumentType /\ \A m \in Names : d.users[m] = IF m = c.name THEN account ELSE accountDoc.users[m]
      BY <1>4, <2>1, <2>3, Putting
    <2> HIDE DEF d
    <2>5. overwrote \/ Operators!Admins(d) # {}
      BY <1>8, <2>1, <2>4, AnAdminIsThere DEF Operators!Admins, Operators!Present
    <2>6. \A s \in sessions' : s.of # 0 => d.users[s.name] # None /\ d.users[s.name].born = s.of
      BY <1>4, <1>6, <1>8, <2>2, <2>4
    <2> QED
      BY <1>2, <1>3, <2>2, <2>4, <2>5, <2>6, Stored
  <1>9. ASSUME NEW n \in Names, NEW account \in Operators!Account, accountDoc.users[n] # None,
               Operators!Store([users |-> [accountDoc.users EXCEPT ![n] = account],
                                bootstrap |-> accountDoc.bootstrap]),
               account.born = accountDoc.users[n].born, c \in ChangeType,
               account.role = "admin" \/ accountDoc.users[n].role # "admin" \/ Operators!Admins(accountDoc) # {n},
               UNCHANGED <<accounts, sessions>>
        PROVE  AccountsInv'
    <2> DEFINE d == [users |-> [accountDoc.users EXCEPT ![n] = account], bootstrap |-> accountDoc.bootstrap]
    <2>1. accountDoc.bootstrap \in Nat
      BY <1>4 DEF DocumentType
    <2>2. d \in DocumentType /\ \A m \in Names : d.users[m] = IF m = n THEN account ELSE accountDoc.users[m]
      BY <1>4, <1>9, <2>1, Putting
    <2>3. account # None
      BY <1>9, RecordsAssumption
    <2>4. Operators!Store(d)
      BY <1>9
    <2> HIDE DEF d
    <2>5. overwrote \/ Operators!Admins(d) # {}
      BY <1>9, <2>2, <2>3, AnAdminIsThere DEF Operators!Admins, Operators!Present
    <2>6. \A s \in sessions' : s.of # 0 => d.users[s.name] # None /\ d.users[s.name].born = s.of
      BY <1>4, <1>6, <1>9, <2>2, <2>3
    <2> QED
      BY <1>2, <1>3, <1>4, <1>9, <2>2, <2>4, <2>5, <2>6, Stored
  <1>10. CASE Operators!SetPassword(r)
    <2>1. c \in ChangeType /\ c.name \in Names /\ c.password \in Passwords
      BY <1>1, <1>10, RequestKinds DEF Operators!SetPassword, Operators!Changes, ChangeType
    <2>2. CASE accountDoc.users[c.name] # None
      <3> DEFINE old == accountDoc.users[c.name]
                 account == [old EXCEPT !.password = c.password]
      <3>1. old \in Operators!Account
        BY <1>5, <2>1, <2>2
      <3>2. account \in Operators!Account /\ account.born = old.born /\ account.role = old.role
        BY <2>1, <3>1 DEF Operators!Account
      <3>3. old.role \in {"admin", "owner"}
        BY <3>1 DEF Operators!Account
      <3>4. [accountDoc EXCEPT !.users[c.name].password = c.password]
              = [users |-> [accountDoc.users EXCEPT ![c.name] = account], bootstrap |-> accountDoc.bootstrap]
        BY <1>4 DEF DocumentType
      <3>5. Operators!Store([users |-> [accountDoc.users EXCEPT ![c.name] = account],
                             bootstrap |-> accountDoc.bootstrap])
            /\ UNCHANGED <<accounts, sessions>>
        BY <1>10, <2>2, <3>4 DEF Operators!SetPassword
      <3> HIDE DEF account
      <3> QED
        BY <1>9, <2>1, <2>2, <3>2, <3>3, <3>5
    <2> QED
      BY <1>7, <1>10, <2>2 DEF Operators!SetPassword
  <1>11. CASE Operators!SetUserProducts(r)
    <2>1. c \in ChangeType /\ c.name \in Names /\ c.products \in SUBSET Products
      BY <1>1, <1>11, RequestKinds DEF Operators!SetUserProducts, Operators!Changes, ChangeType
    <2>2. CASE c.name \in Operators!Present(accountDoc) \ Operators!Admins(accountDoc)
      <3> DEFINE old == accountDoc.users[c.name]
                 account == [old EXCEPT !.products = c.products]
      <3>1. old \in Operators!Account /\ old # None /\ old.role # "admin"
        BY <1>5, <2>1, <2>2 DEF Operators!Present, Operators!Admins
      <3>2. account \in Operators!Account /\ account.born = old.born /\ account.role = old.role
        BY <2>1, <3>1 DEF Operators!Account
      <3>4. [accountDoc EXCEPT !.users[c.name].products = c.products]
              = [users |-> [accountDoc.users EXCEPT ![c.name] = account], bootstrap |-> accountDoc.bootstrap]
        BY <1>4 DEF DocumentType
      <3>5. Operators!Store([users |-> [accountDoc.users EXCEPT ![c.name] = account],
                             bootstrap |-> accountDoc.bootstrap])
            /\ UNCHANGED <<accounts, sessions>>
        BY <1>11, <2>2, <3>4 DEF Operators!SetUserProducts
      <3> HIDE DEF account
      <3> QED
        BY <1>9, <2>1, <3>1, <3>2, <3>5
    <2> QED
      BY <1>7, <1>11, <2>2 DEF Operators!SetUserProducts
  <1>12. CASE Operators!SetRole(r)
    <2>1. c \in ChangeType /\ c.name \in Names /\ c.role \in {"admin", "owner"} /\ c.products \in SUBSET Products
      BY <1>1, <1>12, RequestKinds DEF Operators!SetRole, Operators!Changes, ChangeType
    <2>2. CASE accountDoc.users[c.name] # None /\ ~(c.role = "owner" /\ Operators!LastAdmin(c.name))
      <3> DEFINE old == accountDoc.users[c.name]
                 account == [old EXCEPT !.role = c.role, !.products = Operators!Assigned(c)]
      <3>1. old \in Operators!Account
        BY <1>5, <2>1, <2>2
      <3>2. account \in Operators!Account /\ account.born = old.born /\ account.role = c.role
        BY <2>1, <3>1 DEF Operators!Account, Operators!Assigned
      <3>3. account.role = "admin" \/ Operators!Admins(accountDoc) # {c.name}
        BY <2>1, <2>2, <3>2 DEF Operators!LastAdmin
      <3>4. [accountDoc EXCEPT !.users[c.name].role = c.role, !.users[c.name].products = Operators!Assigned(c)]
              = [users |-> [accountDoc.users EXCEPT ![c.name] = account], bootstrap |-> accountDoc.bootstrap]
        <4> DEFINE assigned == Operators!Assigned(c)
                   middle == [users |-> [accountDoc.users EXCEPT ![c.name] = [old EXCEPT !.role = c.role]],
                              bootstrap |-> accountDoc.bootstrap]
        <4>1. [accountDoc EXCEPT !.users[c.name].role = c.role] = middle
          BY <1>4 DEF DocumentType
        <4>2. middle.users[c.name] = [old EXCEPT !.role = c.role]
          BY <1>4, <2>1 DEF DocumentType
        <4> HIDE DEF assigned
        <4>3. [middle EXCEPT !.users[c.name].products = assigned]
                = [users |-> [accountDoc.users EXCEPT ![c.name] = [old EXCEPT !.role = c.role, !.products = assigned]],
                   bootstrap |-> accountDoc.bootstrap]
          <5> DEFINE first == [old EXCEPT !.role = c.role]
                     u     == [accountDoc.users EXCEPT ![c.name] = first]
          <5>1. [first EXCEPT !.products = assigned] = [old EXCEPT !.role = c.role, !.products = assigned]
            OBVIOUS
          <5>2. u \in [Names -> Operators!Account \cup {None, first}] /\ u[c.name] = first
            BY <1>4, <2>1 DEF DocumentType
          <5> HIDE DEF first
          <5>3. [u EXCEPT ![c.name].products = assigned]
                  = [accountDoc.users EXCEPT ![c.name] = [first EXCEPT !.products = assigned]]
            BY <1>4, <2>1 DEF DocumentType
          <5>4. middle = [users |-> u, bootstrap |-> accountDoc.bootstrap]
            BY DEF first
          <5> HIDE DEF u, middle
          <5>5. [middle EXCEPT !.users[c.name].products = assigned]
                  = [users |-> [u EXCEPT ![c.name].products = assigned], bootstrap |-> accountDoc.bootstrap]
            BY <5>4
          <5> QED
            BY <5>1, <5>3, <5>5
        <4> QED
          BY <4>1, <4>3 DEF assigned
      <3>5. Operators!Store([users |-> [accountDoc.users EXCEPT ![c.name] = account],
                             bootstrap |-> accountDoc.bootstrap])
            /\ UNCHANGED <<accounts, sessions>>
        BY <1>12, <2>2, <3>4 DEF Operators!SetRole
      <3> HIDE DEF account
      <3> QED
        BY <1>9, <2>1, <2>2, <3>2, <3>3, <3>5
    <2> QED
      BY <1>7, <1>12, <2>2 DEF Operators!SetRole
  <1>13. CASE Operators!DeleteUser(r) /\ accountDoc.users[c.name] # None /\ ~Operators!LastAdmin(c.name)
    <2>1. c \in ChangeType /\ c.name \in Names
      BY <1>1, <1>13, RequestKinds DEF Operators!DeleteUser, Operators!Changes, ChangeType
    <2> DEFINE d == [users |-> [accountDoc.users EXCEPT ![c.name] = None], bootstrap |-> accountDoc.bootstrap]
    <2>2. /\ \/ Operators!Persist(d) /\ sessions' = {s \in sessions : s.name # c.name}
             \/ Operators!PersistFails(d) /\ sessions' = sessions
          /\ accounts' = accounts
      <3>1. Operators!Put(c.name, None) = d
        BY <1>4 DEF Operators!Put, DocumentType
      <3> QED
        BY <1>13, <3>1 DEF Operators!DeleteUser, Operators!DropSessions
    <2>3. accountDoc.bootstrap \in Nat
      BY <1>4 DEF DocumentType
    <2>4. d \in DocumentType /\ \A m \in Names : d.users[m] = IF m = c.name THEN None ELSE accountDoc.users[m]
      BY <1>4, <2>1, <2>3, Putting
    <2> HIDE DEF d
    <2>5. overwrote \/ Operators!Admins(d) # {}
      BY <1>13, <2>1, <2>4, AnAdminIsThere DEF Operators!Admins, Operators!Present, Operators!LastAdmin
    <2>6. CASE Operators!Persist(d) /\ sessions' = {s \in sessions : s.name # c.name}
      <3>1. \A s \in sessions' : s.of # 0 => d.users[s.name] # None /\ d.users[s.name].born = s.of
        BY <1>4, <1>6, <2>4, <2>6
      <3> QED
        BY <1>2, <1>3, <1>4, <2>2, <2>4, <2>5, <2>6, <3>1, Stored DEF Operators!Store
    <2>7. CASE Operators!PersistFails(d) /\ sessions' = sessions
      <3>1. accountDoc' = accountDoc /\ accountDisk' = accountDisk /\ faults' = faults + 1
            /\ foreign' = foreign /\ overwrote' = overwrote
        BY <2>7 DEF Operators!PersistFails, Operators!PutBack, Operators!history
      <3>2. AccountsOK'
        BY <1>1, <1>2, <1>3, <2>2, <2>7, <3>1 DEF AccountsOK
      <3>3. SomebodyAsks'
        BY <1>2, <1>3, <3>1 DEF AccountsInv, SomebodyAsks, Operators!Present
      <3>4. SessionsFit'
        BY <1>6, <2>7, <3>1 DEF SessionsFit
      <3>5. Operators!AdminRemains'
        BY <3>1 DEF AccountsInv, Operators!AdminRemains, Operators!Admins, Operators!Present
      <3> QED
        BY <3>2, <3>3, <3>4, <3>5 DEF AccountsInv
    <2> QED
      BY <2>2, <2>6, <2>7
  <1>14. CASE Operators!AddUser(r) \/ Operators!DeleteUser(r)
    BY <1>7, <1>8, <1>13, <1>14 DEF Operators!AddUser, Operators!DeleteUser
  <1> QED
    BY <1>10, <1>11, <1>12, <1>14 DEF Operators!Change

(* Every step of the accounts keeps their invariant. *)
LEMMA AccountsStep == ASSUME AccountsInv, Operators!AccountsNext PROVE AccountsInv'
  <1>1. /\ accountDoc \in DocumentType /\ accountDisk \in DocumentType
        /\ sessions \subseteq [name : Names, of : Nat] /\ accounts \in 0..MaxAccounts /\ MaxAccounts \in Nat
        /\ request \in [Requests -> {Operators!Idle} \cup IssueType \cup ChangeType]
        /\ mints \in Nat /\ faults \in Nat
    BY AccountsAssumption DEF AccountsInv, AccountsOK
  <1>2. ASSUME NEW r \in Requests, NEW new \in {Operators!Idle} \cup IssueType \cup ChangeType,
               request' = [request EXCEPT ![r] = new],
               new \in ChangeType => Operators!Present(accountDoc) # {}
        PROVE  /\ request' \in [Requests -> {Operators!Idle} \cup IssueType \cup ChangeType]
               /\ \A q \in Requests : request'[q] \in ChangeType =>
                     request[q] \in ChangeType \/ Operators!Present(accountDoc) # {}
    BY <1>1, <1>2
  <1>3. Operators!Idle \notin ChangeType /\ \A i \in IssueType : i \notin ChangeType
    BY DEF Operators!Idle, ChangeType, IssueType
  <1>4. CASE Operators!OpenCommand
    <2>1. /\ Operators!Present(accountDisk) = {} /\ command' = accountDisk
          /\ UNCHANGED <<accountDoc, accountDisk, sessions, registered, request, accounts, mints, faults,
                         foreign, overwrote>>
      BY <1>4 DEF Operators!OpenCommand, Operators!counters, Operators!history
    <2>2. AccountsOK' /\ SomebodyAsks'
      BY <1>1, <2>1 DEF AccountsInv, AccountsOK, SomebodyAsks, Operators!Present
    <2>3. SessionsFit' /\ Operators!AdminRemains'
      BY <2>1 DEF AccountsInv, SessionsFit, Operators!AdminRemains, Operators!Present, Operators!Admins
    <2> QED
      BY <2>2, <2>3 DEF AccountsInv
  <1>5. CASE Operators!DropSession
    <2>1. /\ sessions' \subseteq sessions
          /\ UNCHANGED <<accountDoc, accountDisk, registered, command, request, accounts, mints, faults,
                         foreign, overwrote>>
      BY <1>5 DEF Operators!DropSession, Operators!counters, Operators!history
    <2> QED
      BY <1>1, <2>1, Kept
  <1>6. CASE Operators!Registrations
    <2>1. /\ registered' \subseteq Products
          /\ UNCHANGED <<accountDoc, accountDisk, sessions, command, request, accounts, mints, faults,
                         foreign, overwrote>>
      BY <1>6 DEF Operators!Registrations, Operators!counters, Operators!history, AccountsInv, AccountsOK
    <2>2. AccountsOK' /\ SomebodyAsks'
      BY <2>1 DEF AccountsInv, AccountsOK, SomebodyAsks, Operators!Present
    <2>3. SessionsFit' /\ Operators!AdminRemains'
      BY <2>1 DEF AccountsInv, SessionsFit, Operators!AdminRemains, Operators!Present, Operators!Admins
    <2> QED
      BY <2>2, <2>3 DEF AccountsInv
  <1>7. CASE Operators!Restart
    <2>1. /\ accountDoc' = accountDisk /\ sessions' = {} /\ foreign' = FALSE /\ faults' = faults + 1
          /\ request' = [r \in Requests |-> Operators!Idle]
          /\ UNCHANGED <<accountDisk, registered, command, accounts, mints, overwrote>>
      BY <1>7 DEF Operators!Restart
    <2>2. AccountsOK'
      <3>1. request' \in [Requests -> {Operators!Idle} \cup IssueType \cup ChangeType]
        BY <2>1
      <3>2. /\ accountDoc' \in DocumentType /\ accountDisk' \in DocumentType
            /\ sessions' \subseteq [name : Names, of : Nat]
            /\ accounts' \in 0..MaxAccounts /\ mints' \in Nat /\ faults' \in Nat
        BY <1>1, <2>1
      <3>3. /\ registered' \subseteq Products /\ command' \in DocumentType \cup {None}
            /\ foreign' \in BOOLEAN /\ overwrote' \in BOOLEAN
        BY <2>1 DEF AccountsInv, AccountsOK
      <3> HIDE DEF DocumentType
      <3> QED
        BY <3>1, <3>2, <3>3 DEF AccountsOK
    <2>3. SomebodyAsks'
      BY <1>3, <2>1 DEF AccountsInv, SomebodyAsks, Operators!Present
    <2>4. SessionsFit'
      BY <2>1 DEF SessionsFit
    <2>5. Operators!AdminRemains'
      BY <2>1 DEF AccountsInv, Operators!AdminRemains, Operators!Present, Operators!Admins
    <2> QED
      BY <2>2, <2>3, <2>4, <2>5 DEF AccountsInv
  <1>8. ASSUME NEW reset \in BOOLEAN, Operators!MintBootstrap(reset) PROVE AccountsInv'
    <2>1. /\ command \in DocumentType /\ Operators!Present(command) = {} /\ command' = None
          /\ UNCHANGED <<accountDoc, sessions, registered, request, accounts, faults>>
      BY <1>8 DEF Operators!MintBootstrap, AccountsInv, AccountsOK, SomebodyAsks
    <2>2. CASE UNCHANGED <<accountDisk, mints, foreign, overwrote>>
      <3>1. AccountsOK' /\ SomebodyAsks'
        BY <2>1, <2>2 DEF AccountsInv, AccountsOK, SomebodyAsks, Operators!Present
      <3>2. SessionsFit' /\ Operators!AdminRemains'
        BY <2>1, <2>2 DEF AccountsInv, SessionsFit, Operators!AdminRemains, Operators!Present, Operators!Admins
      <3> QED
        BY <3>1, <3>2 DEF AccountsInv
    <2>3. CASE /\ mints' = mints + 1 /\ accountDisk' = [command EXCEPT !.bootstrap = mints']
               /\ foreign' = TRUE /\ overwrote' = (overwrote \/ Operators!Present(accountDisk) # {})
      <3>1. accountDisk' \in DocumentType /\ accountDisk'.users = command.users
        BY <1>1, <2>1, <2>3 DEF DocumentType
      <3>2. AccountsOK'
        BY <1>1, <2>1, <2>3, <3>1 DEF AccountsInv, AccountsOK
      <3>3. SomebodyAsks'
        BY <2>1, <2>3 DEF AccountsInv, SomebodyAsks, Operators!Present
      <3>4. SessionsFit'
        BY <2>1 DEF AccountsInv, SessionsFit
      <3>5. Operators!AdminRemains'
        BY <2>1, <2>3, <3>1, ZenonT(60) DEF AccountsInv, Operators!AdminRemains, Operators!Present, Operators!Admins
      <3> QED
        BY <3>2, <3>3, <3>4, <3>5 DEF AccountsInv
    <2> QED
      BY <1>8, <2>2, <2>3 DEF Operators!MintBootstrap, Operators!history
  <1>9. ASSUME NEW r \in Requests, NEW n \in Names, NEW w \in Passwords, Operators!CreateFirstUser(r, n, w)
        PROVE  AccountsInv'
    <2> DEFINE account == [role |-> "admin", products |-> {}, password |-> w, born |-> accounts + 1]
               d == [users |-> [accountDoc.users EXCEPT ![n] = account], bootstrap |-> 0]
    <2>1. /\ Operators!Present(accountDoc) = {} /\ accounts' = accounts + 1 /\ accounts' \in 0..MaxAccounts
          /\ UNCHANGED <<sessions, registered, command, mints>>
          /\ request[r] = Operators!Idle
      BY <1>1, <1>9 DEF Operators!CreateFirstUser
    <2>2. \/ Operators!Persist(d) /\ request' = [request EXCEPT ![r] = [at |-> "issue", name |-> n]]
          \/ Operators!PersistFails(d) /\ request' = request
      <3>1. [Operators!Put(n, account) EXCEPT !.bootstrap = 0] = d
        <4> HIDE DEF account
        <4>1. Operators!Put(n, account) = [users |-> [accountDoc.users EXCEPT ![n] = account],
                                           bootstrap |-> accountDoc.bootstrap]
          BY <1>1 DEF Operators!Put, DocumentType
        <4> QED
          BY <4>1
      <3>2. [role |-> "admin", products |-> {}, password |-> w, born |-> accounts'] = account
        BY <2>1
      <3> HIDE DEF account, d
      <3> QED
        BY <1>9, <3>1, <3>2 DEF Operators!CreateFirstUser
    <2>3. account \in Operators!Account
      BY <1>1, <2>1 DEF Operators!Account
    <2>4. account.role = "admin" /\ account # None
      BY <2>3, RecordsAssumption
    <2> HIDE DEF account
    <2>5. d \in DocumentType /\ \A m \in Names : d.users[m] = IF m = n THEN account ELSE accountDoc.users[m]
      BY <1>1, <2>3, Putting
    <2> HIDE DEF d
    <2>6. Operators!Store(d) /\ Operators!Admins(d) # {}
      BY <2>2, <2>4, <2>5 DEF Operators!Store, Operators!Admins, Operators!Present
    <2>7. \A s \in sessions' : s.of # 0 => d.users[s.name] # None /\ d.users[s.name].born = s.of
      BY <1>1, <2>1, <2>5 DEF AccountsInv, SessionsFit, Operators!Present
    <2>8. /\ request' \in [Requests -> {Operators!Idle} \cup IssueType \cup ChangeType]
          /\ \A q \in Requests : request'[q] \in ChangeType => request[q] \in ChangeType
      <3>1. [at |-> "issue", name |-> n] \in IssueType
        BY DEF IssueType
      <3> QED
        BY <1>1, <1>3, <2>2, <3>1
    <2> QED
      BY <2>1, <2>5, <2>6, <2>7, <2>8, Stored
  <1>10. ASSUME NEW r \in Requests, NEW n \in Names, NEW w \in Passwords, Operators!Authenticate(r, n, w)
         PROVE  AccountsInv'
    <2>1. [at |-> "issue", name |-> n] \in IssueType
      BY DEF IssueType
    <2>2. /\ request' = [request EXCEPT ![r] = [at |-> "issue", name |-> n]]
          /\ UNCHANGED <<accountDoc, accountDisk, sessions, registered, command, accounts, mints, faults,
                         foreign, overwrote>>
      BY <1>10 DEF Operators!Authenticate, Operators!counters, Operators!history
    <2> QED
      BY <1>1, <1>2, <1>3, <2>1, <2>2, Kept
  <1>11. ASSUME NEW r \in Requests, Operators!NewSession(r) PROVE AccountsInv'
    <2> DEFINE n == request[r].name
               of == IF accountDoc.users[n] = None THEN 0 ELSE accountDoc.users[n].born
    <2>1. /\ request[r] \in IssueType /\ sessions' = sessions \cup {[name |-> n, of |-> of]}
          /\ request' = [request EXCEPT ![r] = Operators!Idle]
          /\ UNCHANGED <<accountDoc, accountDisk, registered, command, accounts, mints, faults, foreign, overwrote>>
      BY <1>11, RequestKinds DEF Operators!NewSession, Operators!counters, Operators!history, AccountsInv
    <2>2. n \in Names
      BY <2>1 DEF IssueType
    <2>3. of \in Nat
      <3>1. accountDoc.users[n] \in Operators!Account \cup {None}
        BY <1>1, <2>2 DEF DocumentType
      <3> QED
        BY <1>1, <3>1 DEF Operators!Account
    <2>4. of # 0 => accountDoc.users[n] # None /\ accountDoc.users[n].born = of
      OBVIOUS
    <2> HIDE DEF n, of
    <2>5. sessions' \subseteq [name : Names, of : Nat]
      BY <1>1, <2>1, <2>2, <2>3
    <2>6. \A s \in sessions' \ sessions : s.of # 0 =>
             accountDoc.users[s.name] # None /\ accountDoc.users[s.name].born = s.of
      BY <2>1, <2>4
    <2> QED
      BY <1>2, <1>3, <2>1, <2>5, <2>6, Kept
  <1>12. ASSUME NEW r \in Requests, Operators!Admit(r) PROVE AccountsInv'
    <2>1. PICK change \in ChangeType : request' = [request EXCEPT ![r] = change]
      BY <1>12, BodiesTyped DEF Operators!Admit
    <2>2. UNCHANGED <<accountDoc, accountDisk, sessions, registered, command, accounts, mints, faults,
                      foreign, overwrote>>
      BY <1>12 DEF Operators!Admit, Operators!counters, Operators!history
    <2>3. Operators!Present(accountDoc) # {}
      BY <1>1, <1>12 DEF Operators!Admit, Operators!Opens, Operators!Present
    <2> QED
      BY <1>1, <1>2, <2>1, <2>2, <2>3, Kept
  <1> QED
    BY <1>4, <1>5, <1>6, <1>7, <1>8, <1>9, <1>10, <1>11, <1>12, ChangeSteps DEF Operators!AccountsNext

-----------------------------------------------------------------------------
(* Steps of the keys. *)

(* The types of what the commands work with. *)
LEMMA KeyParts ==
    ASSUME KeysInv
    PROVE  /\ keyFile \in [Paths -> KeyDocuments \cup {None, Torn}]
           /\ hand \in [Hands -> CommandType \cup {None}]
           /\ \A o \in Hands : hand[o] # None =>
                  /\ hand[o] \in CommandType /\ hand[o].private # hand[o].public
                  /\ Keys!Target(o) \in Paths /\ Made(o) \subseteq Paths
                  /\ Keys!Document(hand[o].half, hand[o].id, hand[o].seed) \in KeyDocuments
           /\ \A d \in KeyDocuments : d \notin {None, Torn}
  <1>1. \A d \in KeyDocuments : d \notin {None, Torn}
    BY RecordsAssumption DEF KeyDocuments, Keys!Document
  <1>2. keyFile \in [Paths -> KeyDocuments \cup {None, Torn}] /\ hand \in [Hands -> CommandType \cup {None}]
    BY DEF KeysInv, KeysOK
  <1>3. ASSUME NEW o \in Hands, hand[o] # None
        PROVE  /\ hand[o] \in CommandType /\ hand[o].private # hand[o].public
               /\ Keys!Target(o) \in Paths /\ Made(o) \subseteq Paths
               /\ Keys!Document(hand[o].half, hand[o].id, hand[o].seed) \in KeyDocuments
    <2>1. hand[o] \in CommandType /\ hand[o].private # hand[o].public
      BY <1>2, <1>3 DEF KeysInv, KeysOK
    <2>2. Keys!Document(hand[o].half, hand[o].id, hand[o].seed) \in KeyDocuments
      BY <2>1 DEF CommandType, KeyDocuments, Keys!Document
    <2> QED
      BY <2>1, <2>2 DEF CommandType, Keys!Target, Made
  <1> QED
    BY <1>1, <1>2, <1>3

(* A command ends: it has changed files of its own only. *)
LEMMA CommandEnds ==
    ASSUME KeysInv, NEW o \in Hands, hand[o] # None,
           hand' = [hand EXCEPT ![o] = None],
           keyFile' \in [Paths -> KeyDocuments \cup {None, Torn}],
           \A p \in Paths \ Made(o) : keyFile'[p] = keyFile[p],
           UNCHANGED <<seeds, reported, agent>>, keyFaults' \in Nat
    PROVE  KeysInv'
  <1>1. \A q \in Hands : hand'[q] = IF q = o THEN None ELSE hand[q]
    BY DEF KeysInv, KeysOK
  <1>2. KeysOK'
    BY <1>1 DEF KeysInv, KeysOK
  <1>3. \A q \in Hands : hand'[q] # None => q # o /\ hand[q] # None /\ Made(q)' = Made(q)
    BY <1>1 DEF Made
  <1>4. ASSUME NEW q \in Hands, hand'[q] # None
        PROVE  /\ \A p \in Made(q)' : keyFile'[p] # None
               /\ hand'[q].half = "public" =>
                     keyFile'[hand'[q].private] = Keys!Document("private", hand'[q].id, hand'[q].seed)
               /\ \A w \in Hands \ {q} : hand'[w] # None => Made(q)' \cap Made(w)' = {}
               /\ \A r \in reported' : {r.private, r.public} \cap Made(q)' = {}
    <2>1. q # o /\ hand[q] # None /\ Made(q)' = Made(q) /\ hand'[q] = hand[q]
      BY <1>1, <1>3, <1>4
    <2>2. Made(q) \cap Made(o) = {} /\ Made(q) \subseteq Paths
      BY <2>1, KeyParts DEF KeysInv, OwnFiles
    <2>3. \A p \in Made(q) : keyFile'[p] = keyFile[p]
      BY <2>2
    <2>4. hand[q].half = "public" => hand[q].private \in Made(q)
      BY DEF Made
    <2> QED
      BY <1>3, <2>1, <2>3, <2>4 DEF KeysInv, OwnFiles
  <1>5. OwnFiles'
    BY <1>4 DEF OwnFiles
  <1>6. PairsStay'
    <2>1. ASSUME NEW r \in reported PROVE r.private \in Paths \ Made(o) /\ r.public \in Paths \ Made(o)
      BY DEF KeysInv, KeysOK, OwnFiles, ReportType
    <2> QED
      BY <2>1 DEF KeysInv, PairsStay
  <1>7. AgentFits'
    BY DEF KeysInv, AgentFits
  <1> QED
    BY <1>2, <1>5, <1>6, <1>7 DEF KeysInv

(* A command starts: it has no file yet. *)
LEMMA CommandStarts ==
    ASSUME KeysInv, NEW o \in Hands, NEW id \in KeyIds, NEW seed \in 1..MaxSeeds,
           NEW private \in Paths, NEW public \in Paths,
           Keys!Command(o, id, seed, private, public), seeds' \in 0..MaxSeeds,
           UNCHANGED <<keyFile, reported, agent, keyFaults>>
    PROVE  KeysInv'
  <1> DEFINE new == [id |-> id, seed |-> seed, private |-> private, public |-> public,
                     half |-> "private", at |-> "open"]
  <1>1. hand[o] = None /\ private # public /\ hand' = [hand EXCEPT ![o] = new]
    BY DEF Keys!Command
  <1>2. new \in CommandType /\ new.private = private /\ new.public = public /\ new.half = "private"
        /\ new.at = "open"
    BY DEF CommandType
  <1> HIDE DEF new
  <1>3. \A q \in Hands : hand'[q] = IF q = o THEN new ELSE hand[q]
    BY <1>1 DEF KeysInv, KeysOK
  <1>4. KeysOK'
    BY <1>1, <1>2, <1>3 DEF KeysInv, KeysOK
  <1>5. \A q \in Hands : Made(q)' = IF q = o THEN {} ELSE Made(q)
    BY <1>2, <1>3 DEF Made
  <1>6. OwnFiles'
    <2>1. ASSUME NEW q \in Hands, hand'[q] # None
          PROVE  /\ \A p \in Made(q)' : keyFile'[p] # None
                 /\ hand'[q].half = "public" =>
                       keyFile'[hand'[q].private] = Keys!Document("private", hand'[q].id, hand'[q].seed)
                 /\ \A w \in Hands \ {q} : hand'[w] # None => Made(q)' \cap Made(w)' = {}
                 /\ \A r \in reported' : {r.private, r.public} \cap Made(q)' = {}
      <3>1. CASE q = o
        BY <1>2, <1>3, <1>5, <3>1
      <3>2. CASE q # o
        BY <1>3, <1>5, <2>1, <3>2 DEF KeysInv, OwnFiles
      <3> QED
        BY <3>1, <3>2
    <2> QED
      BY <2>1 DEF OwnFiles
  <1>7. PairsStay' /\ AgentFits'
    BY DEF KeysInv, PairsStay, AgentFits
  <1> QED
    BY <1>4, <1>6, <1>7 DEF KeysInv

(* A command goes on, and keeps its files: at most the one it opens is new. *)
LEMMA CommandMoves ==
    ASSUME KeysInv, NEW o \in Hands, hand[o] # None, NEW new \in CommandType,
           hand' = [hand EXCEPT ![o] = new],
           new.private = hand[o].private, new.public = hand[o].public,
           Made(o)' \subseteq Made(o) \cup {Keys!Target(o)},
           Keys!Target(o) \in Made(o) \/ keyFile[Keys!Target(o)] = None,
           NEW content \in KeyDocuments \cup {Torn},
           keyFile' = [keyFile EXCEPT ![Keys!Target(o)] = content],
           new.half = "public" => keyFile'[new.private] = Keys!Document("private", new.id, new.seed),
           UNCHANGED <<seeds, reported, agent, keyFaults>>
    PROVE  KeysInv'
  <1> DEFINE t == Keys!Target(o)
  <1>0. t \in Paths /\ content # None /\ content \in KeyDocuments \cup {None, Torn}
    BY KeyParts, KeysAssumption
  <1> HIDE DEF t
  <1>1. \A q \in Hands : hand'[q] = IF q = o THEN new ELSE hand[q]
    BY DEF KeysInv, KeysOK
  <1>2. \A p \in Paths : keyFile'[p] = IF p = t THEN content ELSE keyFile[p]
    BY <1>0 DEF KeysInv, KeysOK, t
  <1>3. KeysOK'
    <2>1. keyFile' \in [Paths -> KeyDocuments \cup {None, Torn}]
      BY <1>0 DEF KeysInv, KeysOK, t
    <2>2. hand[o].private # hand[o].public
      BY KeyParts
    <2>3. \A q \in Hands : hand'[q] # None => hand'[q].private # hand'[q].public
      BY <1>1, <2>2 DEF KeysInv, KeysOK
    <2> QED
      BY <2>1, <2>3 DEF KeysInv, KeysOK
  <1>4. \A q \in Hands : q # o => Made(q)' = Made(q)
    BY <1>1 DEF Made
  <1>5. \A q \in Hands : q # o /\ hand[q] # None => t \notin Made(q)
    BY DEF KeysInv, OwnFiles, t
  <1>6. \A r \in reported : t \notin {r.private, r.public}
    <2>1. ASSUME NEW r \in reported PROVE keyFile[r.private] # None /\ keyFile[r.public] # None
      <3>1. Keys!Document("private", r.id, r.seed) # None /\ Keys!Document("public", r.id, r.seed) # None
        BY RecordsAssumption DEF KeysInv, KeysOK, ReportType
      <3> QED
        BY <3>1 DEF KeysInv, PairsStay
    <2> QED
      BY <2>1 DEF KeysInv, OwnFiles, t
  <1>7. Made(o) \subseteq Paths /\ Made(o)' \subseteq Made(o) \cup {t}
    BY KeyParts DEF t
  <1>8. ASSUME NEW q \in Hands, hand'[q] # None
        PROVE  /\ \A p \in Made(q)' : keyFile'[p] # None
               /\ hand'[q].half = "public" =>
                     keyFile'[hand'[q].private] = Keys!Document("private", hand'[q].id, hand'[q].seed)
               /\ \A w \in Hands \ {q} : hand'[w] # None => Made(q)' \cap Made(w)' = {}
               /\ \A r \in reported' : {r.private, r.public} \cap Made(q)' = {}
    <2>1. CASE q = o
      <3>1. \A p \in Made(o)' : keyFile'[p] # None
        BY <1>0, <1>2, <1>7 DEF KeysInv, OwnFiles
      <3>2. \A w \in Hands \ {o} : hand'[w] # None => Made(o)' \cap Made(w)' = {}
        BY <1>1, <1>4, <1>5, <1>7 DEF KeysInv, OwnFiles
      <3>3. \A r \in reported' : {r.private, r.public} \cap Made(o)' = {}
        BY <1>6, <1>7 DEF KeysInv, OwnFiles
      <3> QED
        BY <1>1, <2>1, <3>1, <3>2, <3>3
    <2>2. CASE q # o
      <3>1. hand'[q] = hand[q] /\ hand[q] # None /\ Made(q)' = Made(q) /\ t \notin Made(q) /\ Made(q) \subseteq Paths
        BY <1>1, <1>4, <1>5, <1>8, <2>2, KeyParts
      <3>2. \A p \in Made(q) : keyFile'[p] = keyFile[p]
        BY <1>2, <3>1
      <3>3. hand[q].half = "public" => hand[q].private \in Made(q)
        BY DEF Made
      <3>4. /\ \A p \in Made(q)' : keyFile'[p] # None
            /\ hand'[q].half = "public" =>
                  keyFile'[hand'[q].private] = Keys!Document("private", hand'[q].id, hand'[q].seed)
            /\ \A r \in reported' : {r.private, r.public} \cap Made(q)' = {}
        BY <3>1, <3>2, <3>3 DEF KeysInv, OwnFiles
      <3>5. \A w \in Hands \ {q} : hand'[w] # None => Made(q)' \cap Made(w)' = {}
        BY <1>1, <1>4, <1>7, <2>2, <3>1 DEF KeysInv, OwnFiles
      <3> QED
        BY <3>4, <3>5
    <2> QED
      BY <2>1, <2>2
  <1>9. OwnFiles'
    BY <1>8 DEF OwnFiles
  <1>10. PairsStay'
    <2>1. \A r \in reported : keyFile'[r.private] = keyFile[r.private] /\ keyFile'[r.public] = keyFile[r.public]
      BY <1>2, <1>6 DEF KeysInv, KeysOK, ReportType
    <2> QED
      BY <2>1 DEF KeysInv, PairsStay
  <1>11. AgentFits'
    BY DEF KeysInv, AgentFits
  <1> QED
    BY <1>3, <1>9, <1>10, <1>11 DEF KeysInv

(* At first there are no keys. *)
LEMMA InitKeys == ASSUME Keys!KeysInit PROVE KeysInv
  <1>1. KeysOK
    BY KeysAssumption DEF Keys!KeysInit, KeysOK
  <1> QED
    BY <1>1 DEF Keys!KeysInit, KeysInv, OwnFiles, PairsStay, AgentFits

(* A file is opened, or the command ends. *)
LEMMA OpenSteps == ASSUME KeysInv, NEW o \in Hands, Keys!OpenNew(o) PROVE KeysInv'
  <1> DEFINE t == Keys!Target(o)
  <1>1. /\ hand[o] # None /\ hand[o].at = "open" /\ hand[o] \in CommandType /\ t \in Paths
        /\ hand[o].private # hand[o].public
        /\ UNCHANGED <<seeds, reported, agent, keyFaults>>
    BY KeyParts DEF Keys!OpenNew
  <1>2. CASE keyFile[t] = None
    <2> DEFINE new == [hand[o] EXCEPT !.at = "write"]
    <2>1. keyFile' = [keyFile EXCEPT ![t] = Torn] /\ hand' = [hand EXCEPT ![o] = new]
      BY <1>2 DEF Keys!OpenNew
    <2>2. /\ new \in CommandType /\ new.private = hand[o].private /\ new.public = hand[o].public
          /\ new.half = hand[o].half /\ new.id = hand[o].id /\ new.seed = hand[o].seed /\ new.at = "write"
      BY <1>1 DEF CommandType
    <2> HIDE DEF new
    <2>3. hand'[o] = new
      BY <2>1 DEF KeysInv, KeysOK
    <2>4. Made(o)' \subseteq Made(o) \cup {Keys!Target(o)}
      <3>1. hand[o].half \in {"private", "public"}
        BY <1>1 DEF CommandType
      <3>2. CASE hand[o].half = "private"
        BY <2>2, <2>3, <3>2 DEF Made, Keys!Target
      <3>3. CASE hand[o].half = "public"
        BY <1>1, <2>2, <2>3, <3>3 DEF Made, Keys!Target
      <3> QED
        BY <3>1, <3>2, <3>3
    <2>5. ASSUME new.half = "public"
          PROVE  keyFile'[new.private] = Keys!Document("private", new.id, new.seed)
      <3>1. t = hand[o].public /\ hand[o].private \in Paths
        BY <1>1, <2>2, <2>5 DEF Keys!Target, CommandType
      <3>2. keyFile[hand[o].private] = Keys!Document("private", hand[o].id, hand[o].seed)
        BY <1>1, <2>2, <2>5 DEF KeysInv, OwnFiles
      <3>3. keyFile'[hand[o].private] = keyFile[hand[o].private]
        BY <1>1, <2>1, <3>1, KeyParts
      <3> QED
        BY <2>2, <3>2, <3>3
    <2> QED
      BY <1>1, <1>2, <2>1, <2>2, <2>4, <2>5, CommandMoves
  <1>3. CASE keyFile[t] # None
    <2>1. keyFile' = Keys!Undone(o, keyFile) /\ hand' = [hand EXCEPT ![o] = None]
      BY <1>3 DEF Keys!OpenNew
    <2>2. keyFile' \in [Paths -> KeyDocuments \cup {None, Torn}]
          /\ \A p \in Paths \ Made(o) : keyFile'[p] = keyFile[p]
      BY <1>1, <2>1, KeyParts DEF Keys!Undone, Made
    <2> QED
      BY <1>1, <2>1, <2>2, CommandEnds DEF KeysInv, KeysOK
  <1> QED
    BY <1>2, <1>3

(* A document is written whole. *)
LEMMA WriteKeySteps == ASSUME KeysInv, NEW o \in Hands, Keys!WriteNew(o) PROVE KeysInv'
  <1> DEFINE t == Keys!Target(o)
             content == Keys!Document(hand[o].half, hand[o].id, hand[o].seed)
  <1>1. /\ hand[o] # None /\ hand[o].at = "write" /\ hand[o] \in CommandType /\ t \in Paths
        /\ hand[o].private # hand[o].public /\ t \in Made(o) /\ content \in KeyDocuments
        /\ UNCHANGED <<seeds, agent, keyFaults>> /\ keyFile' = [keyFile EXCEPT ![t] = content]
    BY KeyParts DEF Keys!WriteNew, Keys!Written, Made, Keys!Target, CommandType
  <1>2. CASE hand[o].half = "private"
    <2> DEFINE new == [hand[o] EXCEPT !.half = "public", !.at = "open"]
    <2>1. hand' = [hand EXCEPT ![o] = new] /\ reported' = reported
      <3>1. hand' = [hand EXCEPT ![o].half = "public", ![o].at = "open"] /\ reported' = reported
        BY <1>2 DEF Keys!WriteNew
      <3>2. \A q \in Hands : hand'[q] = IF q = o THEN new ELSE hand[q]
        BY <1>1, <3>1 DEF KeysInv, KeysOK, CommandType
      <3> QED
        BY <3>1, <3>2 DEF KeysInv, KeysOK
    <2>2. /\ new \in CommandType /\ new.private = hand[o].private /\ new.public = hand[o].public
          /\ new.half = "public" /\ new.id = hand[o].id /\ new.seed = hand[o].seed /\ new.at = "open"
      BY <1>1 DEF CommandType
    <2> HIDE DEF new
    <2>3. hand'[o] = new
      BY <2>1 DEF KeysInv, KeysOK
    <2>4. Made(o)' \subseteq Made(o) \cup {Keys!Target(o)}
      BY <1>1, <1>2, <2>2, <2>3 DEF Made
    <2>5. keyFile'[new.private] = Keys!Document("private", new.id, new.seed)
      BY <1>1, <1>2, <2>2 DEF KeysInv, KeysOK, Keys!Target
    <2> HIDE DEF content
    <2> QED
      BY <1>1, <2>1, <2>2, <2>4, <2>5, CommandMoves
  <1>3. CASE hand[o].half # "private"
    <2>1. hand[o].half = "public"
      BY <1>1, <1>3 DEF CommandType
    <2> DEFINE pair == [id |-> hand[o].id, seed |-> hand[o].seed, private |-> hand[o].private,
                        public |-> hand[o].public]
    <2>2. hand' = [hand EXCEPT ![o] = None] /\ reported' = reported \cup {pair}
      BY <1>3 DEF Keys!WriteNew
    <2>3. pair \in ReportType /\ pair.private = hand[o].private /\ pair.public = hand[o].public
          /\ pair.id = hand[o].id /\ pair.seed = hand[o].seed
      BY <1>1 DEF CommandType, ReportType
    <2>4. t = hand[o].public /\ Made(o) = {hand[o].private, hand[o].public}
      BY <1>1, <2>1 DEF Keys!Target, Made
    <2> HIDE DEF pair
    <2>5. \A q \in Hands : hand'[q] = IF q = o THEN None ELSE hand[q]
      BY <2>2 DEF KeysInv, KeysOK
    <2>6. keyFile' \in [Paths -> KeyDocuments \cup {None, Torn}]
          /\ \A p \in Paths : keyFile'[p] = IF p = t THEN content ELSE keyFile[p]
      BY <1>1, KeyParts
    <2> HIDE DEF t
    <2>7. KeysOK'
      BY <1>1, <2>2, <2>3, <2>5, <2>6 DEF KeysInv, KeysOK
    <2>8. \A q \in Hands : q # o => Made(q)' = Made(q)
      BY <2>5 DEF Made
    <2>9. ASSUME NEW q \in Hands, hand'[q] # None
          PROVE  /\ \A p \in Made(q)' : keyFile'[p] # None
                 /\ hand'[q].half = "public" =>
                       keyFile'[hand'[q].private] = Keys!Document("private", hand'[q].id, hand'[q].seed)
                 /\ \A w \in Hands \ {q} : hand'[w] # None => Made(q)' \cap Made(w)' = {}
                 /\ \A r \in reported' : {r.private, r.public} \cap Made(q)' = {}
      <3>1. q # o /\ hand'[q] = hand[q] /\ hand[q] # None /\ Made(q)' = Made(q) /\ Made(q) \subseteq Paths
        BY <2>5, <2>8, <2>9, KeyParts
      <3>2. Made(q) \cap Made(o) = {}
        BY <1>1, <3>1 DEF KeysInv, OwnFiles
      <3>3. \A p \in Made(q) : keyFile'[p] = keyFile[p]
        BY <2>4, <2>6, <3>1, <3>2
      <3>4. hand[q].half = "public" => hand[q].private \in Made(q)
        BY DEF Made
      <3>5. {pair.private, pair.public} \cap Made(q) = {}
        BY <2>3, <2>4, <3>2
      <3>6. \A r \in reported : {r.private, r.public} \cap Made(q) = {}
        BY <3>1 DEF KeysInv, OwnFiles
      <3>7. /\ \A p \in Made(q)' : keyFile'[p] # None
            /\ hand'[q].half = "public" =>
                  keyFile'[hand'[q].private] = Keys!Document("private", hand'[q].id, hand'[q].seed)
        BY <3>1, <3>3, <3>4 DEF KeysInv, OwnFiles
      <3>8. \A r \in reported' : {r.private, r.public} \cap Made(q)' = {}
        BY <2>2, <3>1, <3>5, <3>6
      <3>9. \A w \in Hands \ {q} : hand'[w] # None => Made(q)' \cap Made(w)' = {}
        BY <2>5, <2>8, <3>1 DEF KeysInv, OwnFiles
      <3> QED
        BY <3>7, <3>8, <3>9
    <2>10. OwnFiles'
      BY <2>9 DEF OwnFiles
    <2>11. PairsStay'
      <3>1. ASSUME NEW r \in reported PROVE keyFile'[r.private] = keyFile[r.private] /\ keyFile'[r.public] = keyFile[r.public]
        BY <1>1, <2>4, <2>6 DEF KeysInv, KeysOK, OwnFiles, ReportType
      <3>2. keyFile'[pair.private] = Keys!Document("private", pair.id, pair.seed)
        BY <1>1, <2>1, <2>3, <2>4, <2>6 DEF KeysInv, OwnFiles, CommandType
      <3>3. keyFile'[pair.public] = Keys!Document("public", pair.id, pair.seed)
        BY <1>1, <2>1, <2>3, <2>4, <2>6 DEF CommandType
      <3> QED
        BY <2>2, <3>1, <3>2, <3>3 DEF KeysInv, PairsStay
    <2>12. AgentFits'
      BY <1>1 DEF KeysInv, AgentFits
    <2> QED
      BY <2>7, <2>10, <2>11, <2>12 DEF KeysInv
  <1> QED
    BY <1>2, <1>3

(* Every step of the keys keeps their invariant. *)
LEMMA KeysStep == ASSUME KeysInv, Keys!KeysNext PROVE KeysInv'
  <1>1. ASSUME NEW o \in Hands, Keys!WriteFails(o) PROVE KeysInv'
    <2>1. /\ hand[o] # None /\ hand[o].at = "write" /\ hand' = [hand EXCEPT ![o] = None]
          /\ UNCHANGED <<seeds, reported, agent>> /\ keyFaults' = keyFaults + 1
      BY <1>1 DEF Keys!WriteFails
    <2>2. PICK left \in {[keyFile EXCEPT ![Keys!Target(o)] = None], Keys!Written(o)} : keyFile' = Keys!Undone(o, left)
      BY <1>1 DEF Keys!WriteFails
    <2>3. Keys!Target(o) \in Made(o) /\ (hand[o].half = "public" => hand[o].private \in Made(o))
      BY <2>1, KeyParts DEF Keys!Target, Made, CommandType
    <2>4. left \in [Paths -> KeyDocuments \cup {None, Torn}]
          /\ \A p \in Paths \ Made(o) : left[p] = keyFile[p]
      BY <2>1, <2>2, <2>3, KeyParts DEF Keys!Written
    <2>5. keyFile' \in [Paths -> KeyDocuments \cup {None, Torn}]
          /\ \A p \in Paths \ Made(o) : keyFile'[p] = keyFile[p]
      BY <2>2, <2>3, <2>4, KeyParts DEF Keys!Undone
    <2>6. keyFaults' \in Nat
      BY <2>1 DEF KeysInv, KeysOK
    <2> QED
      BY <2>1, <2>5, <2>6, CommandEnds
  <1>2. ASSUME NEW o \in Hands, Keys!Killed(o) PROVE KeysInv'
    <2>1. /\ hand[o] # None /\ hand' = [hand EXCEPT ![o] = None] /\ keyFaults' \in Nat
          /\ UNCHANGED <<keyFile, seeds, reported, agent>>
      BY <1>2 DEF Keys!Killed, KeysInv, KeysOK
    <2>2. keyFile' \in [Paths -> KeyDocuments \cup {None, Torn}]
      BY <2>1, KeyParts
    <2> QED
      BY <2>1, <2>2, CommandEnds
  <1>3. ASSUME NEW o \in Hands, NEW id \in KeyIds, NEW private \in Paths, NEW public \in Paths,
               Keys!Generate(o, id, private, public)
        PROVE  KeysInv'
    <2>1. seeds \in 0..MaxSeeds /\ seeds + 1 \in 1..MaxSeeds /\ seeds' = seeds + 1
          /\ Keys!Command(o, id, seeds + 1, private, public)
          /\ UNCHANGED <<keyFile, reported, agent, keyFaults>>
      BY <1>3, KeysAssumption DEF Keys!Generate, KeysInv, KeysOK
    <2>2. seeds' \in 0..MaxSeeds
      BY <2>1, KeysAssumption
    <2> QED
      BY <2>1, <2>2, CommandStarts
  <1>4. ASSUME NEW o \in Hands, NEW id \in KeyIds, NEW private \in Paths, NEW public \in Paths,
               NEW from \in Paths, Keys!ReissueKeyPair(o, id, from, private, public)
        PROVE  KeysInv'
    <2>1. keyFile[from] \in KeyDocuments
      BY <1>4, KeyParts DEF Keys!ReissueKeyPair, Keys!IsHalf
    <2>2. keyFile[from].seed \in 1..MaxSeeds /\ Keys!Command(o, id, keyFile[from].seed, private, public)
          /\ UNCHANGED <<keyFile, reported, agent, keyFaults>> /\ seeds' \in 0..MaxSeeds
      BY <1>4, <2>1 DEF Keys!ReissueKeyPair, KeyDocuments, KeysInv, KeysOK
    <2> QED
      BY <2>2, CommandStarts
  <1>5. ASSUME NEW p \in Paths, Keys!Discard(p) PROVE KeysInv'
    <2>1. /\ \A o \in Hands : hand[o] = None /\ hand'[o] = None
          /\ keyFile' = [keyFile EXCEPT ![p] = None]
          /\ reported' = {r \in reported : p \notin {r.private, r.public}}
          /\ UNCHANGED <<hand, seeds, agent, keyFaults>>
      BY <1>5 DEF Keys!Discard
    <2>2. KeysOK'
      BY <2>1 DEF KeysInv, KeysOK
    <2>3. OwnFiles'
      BY <2>1 DEF OwnFiles
    <2>4. PairsStay'
      BY <2>1 DEF KeysInv, KeysOK, PairsStay, ReportType
    <2>5. AgentFits'
      BY <2>1 DEF KeysInv, AgentFits
    <2> QED
      BY <2>2, <2>3, <2>4, <2>5 DEF KeysInv
  <1>6. CASE Keys!StartAgent \/ Keys!ConnectConfig
    <2>1. UNCHANGED <<keyFile, hand, seeds, reported, keyFaults>>
      BY <1>6 DEF Keys!StartAgent, Keys!ConnectConfig
    <2>2. AgentFits'
      <3>1. CASE Keys!ConnectConfig
        BY <3>1 DEF Keys!ConnectConfig, KeysInv, AgentFits
      <3>2. CASE Keys!StartAgent
        <4>1. PICK e \in Keys!Entries : agent' = Keys!Root(e)
          BY <3>2 DEF Keys!StartAgent
        <4>2. Keys!PrivateSeed(e) # None => Keys!PrivateSeed(e) = e.fingerprint
          BY DEF Keys!PrivateSeed
        <4> QED
          BY <4>1, <4>2 DEF Keys!Root, AgentFits
      <3> QED
        BY <1>6, <3>1, <3>2
    <2>3. KeysOK'
      BY <2>1 DEF KeysInv, KeysOK
    <2>4. \A o \in Hands : Made(o)' = Made(o)
      BY <2>1 DEF Made
    <2>5. OwnFiles' /\ PairsStay'
      BY <2>1, <2>4 DEF KeysInv, OwnFiles, PairsStay
    <2> QED
      BY <2>2, <2>3, <2>5 DEF KeysInv
  <1> QED
    BY <1>1, <1>2, <1>3, <1>4, <1>5, <1>6, OpenSteps, WriteKeySteps DEF Keys!KeysNext

(* Whoever starts with a reported pair gets its seed, and a host that pinned
   the registered key verifies. *)
LEMMA KeysServe == ASSUME KeysInv PROVE Keys!KeysHold
  <1>1. ASSUME NEW r \in reported
        PROVE  Keys!PrivateSeed([id |-> r.id, fingerprint |-> r.seed, path |-> r.private, public |-> r.public]) = r.seed
    <2> DEFINE e == [id |-> r.id, fingerprint |-> r.seed, path |-> r.private, public |-> r.public]
    <2>1. r.id \in KeyIds /\ r.seed \in 1..MaxSeeds /\ r.private \in Paths /\ r.public \in Paths
      BY DEF KeysInv, KeysOK, ReportType
    <2>2. /\ keyFile[r.private] = [half |-> "private", id |-> r.id, seed |-> r.seed]
          /\ keyFile[r.public] = [half |-> "public", id |-> r.id, seed |-> r.seed]
          /\ keyFile[r.private] \notin {None, Torn} /\ keyFile[r.public] \notin {None, Torn}
      BY <2>1, RecordsAssumption DEF KeysInv, PairsStay, Keys!Document
    <2>3. e.id = r.id /\ e.fingerprint = r.seed /\ e.path = r.private /\ e.public = r.public /\ e.public # None
      BY <2>1, KeysAssumption
    <2> HIDE DEF e
    <2>4. Keys!ReadCarrier(e) = keyFile[r.private] /\ Keys!PublicKey(e) = r.seed
      BY <2>2, <2>3 DEF Keys!ReadCarrier, Keys!PublicKey, Keys!IsHalf
    <2>5. Keys!PrivateSeed(e) = r.seed
      BY <2>2, <2>3, <2>4 DEF Keys!PrivateSeed, Keys!verifySignatureRoundTrip
    <2> QED
      BY <2>5 DEF e
  <1>2. Keys!ReportedStarts
    BY <1>1 DEF Keys!ReportedStarts
  <1>3. Keys!HostsVerify
    BY DEF KeysInv, AgentFits, Keys!HostsVerify, Keys!Verifies
  <1> QED
    BY <1>2, <1>3 DEF Keys!KeysHold

-----------------------------------------------------------------------------
(* Steps of the store. *)

(* A set of numbers has a least one. *)
LEMMA LeastIsThere ==
    ASSUME NEW S \in SUBSET Nat, S # {}
    PROVE  LET m == CHOOSE i \in S : \A j \in S : i <= j
           IN  m \in S /\ \A j \in S : m <= j
  <1> DEFINE R == OpToRel(<, Nat)
  <1>1. IsWellFoundedOn(R, Nat)
    BY NatLessThanWellFounded, Zenon
  <1>2. \A u, v \in Nat : u < v => <<u, v>> \in R
    BY Zenon DEF OpToRel
  <1> HIDE DEF R
  <1>3. PICK t \in S : \A u \in S : ~(<<u, t>> \in R)
    BY <1>1, WFMin
  <1>4. \A u \in S : u \in Nat /\ t \in Nat /\ ~(u < t)
    BY <1>2, <1>3
  <1>5. \A u \in S : t <= u
    BY <1>4
  <1> QED
    BY <1>5

(* Files, products, numbers and the marks are different things. *)
LEMMA StoreParts ==
    StoreInv =>
        /\ issued \in Nat /\ issued \in 0..MaxIssued /\ MaxIssued \in Nat
        /\ Store!TokenFiles = {Operator} \cup StoreProducts \cup Store!Families
        /\ StoreProducts \cap Store!Families = {} /\ Operator \notin StoreProducts \cup Store!Families
        /\ None \notin StoreProducts
        /\ \A n \in 1..issued + 1 : n \notin {None, Torn}
        /\ token \in [Store!TokenFiles -> 1..issued \cup {None, Torn}]
        /\ \A g \in granted \cup revoked : g = <<g[1], g[2]>> /\ g[1] \in 1..issued
                                         /\ g[2] \in StoreProducts \cup {Operator}
  BY StoreAssumption DEF StoreInv, StoreOK, Store!TokenFiles, Store!Families, Pairs

(* The entries as they are loaded. *)
LEMMA EntryParts ==
    StoreInv /\ Store!Loads =>
        /\ config \in [DOMAIN config -> EntryType] /\ DOMAIN config \subseteq 1..issued
        /\ \A i \in DOMAIN config :
               /\ config[i] \in EntryType /\ config[i].file \in Store!TokenFiles
               /\ config[i].file \in StoreProducts \cup Store!Families
               /\ config[i].products \in SUBSET StoreProducts
               /\ config[i] = [file |-> config[i].file, products |-> config[i].products]
        /\ \A i \in DOMAIN config : config[i].file \in StoreProducts => config[i].products = {config[i].file}
        /\ \A i, j \in DOMAIN config : i # j /\ config[i].file = config[j].file => config[i].file \in StoreProducts
        /\ \A i \in DOMAIN config : \A p \in config[i].products : <<token[config[i].file], p>> \notin revoked
  BY StoreParts DEF StoreInv, StoreOK, EntryType, EntriesFit, Withheld

(* What withdraws tokens opens nothing. *)
LEMMA WithheldOpensNothing == StoreInv => Store!RevokedOpensNothing
  <1> SUFFICES ASSUME StoreInv, Store!Loads, NEW g \in Store!CredentialsFromFileConfig PROVE g \notin revoked
    BY DEF Store!RevokedOpensNothing
  <1>1. \/ g = <<token[Operator], Operator>>
        \/ \E i \in DOMAIN config : g \in {token[config[i].file]} \X config[i].products
    BY DEF Store!CredentialsFromFileConfig
  <1>2. CASE g = <<token[Operator], Operator>>
    BY <1>2 DEF StoreInv, Withheld
  <1>3. CASE \E i \in DOMAIN config : g \in {token[config[i].file]} \X config[i].products
    <2>1. PICK i \in DOMAIN config : g \in {token[config[i].file]} \X config[i].products
      BY <1>3
    <2>2. PICK p \in config[i].products : g = <<token[config[i].file], p>>
      BY <2>1
    <2> QED
      BY <2>2, EntryParts
  <1> QED
    BY <1>1, <1>2, <1>3

(* Nothing is configured at first. *)
LEMMA InitStoreTokens == ASSUME Store!StoreInit PROVE StoreInv
  <1>1. /\ config = None /\ token = [f \in Store!TokenFiles |-> None] /\ issued = 0 /\ storeCommand = None
        /\ granted = {} /\ revoked = {} /\ strayed = FALSE /\ storeCuts = 0
    BY DEF Store!StoreInit
  <1>2. ~Store!Loads
    BY <1>1 DEF Store!Loads
  <1>3. issued \in 0..MaxIssued
    BY <1>1, StoreAssumption
  <1>4. token \in [Store!TokenFiles -> 1..issued \cup {None, Torn}]
    BY <1>1
  <1>5. StoreOK
    BY <1>1, <1>2, <1>3, <1>4 DEF StoreOK
  <1> QED
    BY <1>1, <1>2, <1>5 DEF StoreInv, TokensDiffer, EntriesFit, CommandFits, Withheld

(* A command begins, or goes on without touching a file. *)
LEMMA BeginsStore ==
    ASSUME StoreInv, UNCHANGED <<config, token, issued, granted, revoked, strayed>>,
           storeCommand' \in StoreCommand \cup {None}, CommandFits', storeCuts' \in Nat
    PROVE  StoreInv'
  <1>1. StoreOK'
    BY DEF StoreInv, StoreOK, Pairs, Store!Loads
  <1>2. TokensDiffer' /\ EntriesFit' /\ Withheld'
    BY DEF StoreInv, TokensDiffer, EntriesFit, Withheld, Store!Loads
  <1> QED
    BY <1>1, <1>2 DEF StoreInv

(* Commands that begin with a token, or with the configuration. *)
LEMMA BeginSteps ==
    ASSUME StoreInv,
           NEW op \in {"init", "rotate", "add", "remove"}, NEW step \in {"token", "config"},
           NEW p \in StoreProducts \cup {Operator}, NEW f \in Store!TokenFiles \cup {None},
           Store!Begin(op, step, p, f),
           step = "token" => op # "remove" /\ issued < MaxIssued /\ f \in Store!TokenFiles,
           op = "add" => step = "token" /\ p \in StoreProducts,
           op = "init" => step = "token",
           op = "rotate" => step = "token",
           op = "remove" => step = "config" /\ Store!Loads /\ p \in StoreProducts
    PROVE  StoreInv'
  <1> DEFINE new == [op |-> op, step |-> step, product |-> p, file |-> f]
  <1>1. storeCommand' = new /\ UNCHANGED <<config, token, issued, granted, revoked, strayed, storeCuts>>
    BY DEF Store!Begin
  <1>2. new \in StoreCommand /\ new.op = op /\ new.step = step /\ new.product = p /\ new.file = f
    BY DEF StoreCommand
  <1> HIDE DEF new
  <1>3. CommandFits'
    BY <1>1, <1>2 DEF CommandFits, Store!Loads
  <1>4. storeCuts' \in Nat
    BY <1>1 DEF StoreInv, StoreOK
  <1> QED
    BY <1>1, <1>2, <1>3, <1>4, BeginsStore

(* The file of a product that one entry lists, or of the last entry that lists
   nothing else. *)
LEMMA FilesThere ==
    ASSUME StoreInv, Store!Loads, NEW p
    PROVE  /\ Store!Orphan(p) \in Store!TokenFiles \cup {None}
           /\ Store!productTokenFile(p) # None =>
                 \E i \in DOMAIN config : /\ Store!Listing(p) = {i}
                                          /\ Store!productTokenFile(p) = config[i].file
  <1>1. Store!Orphan(p) \in Store!TokenFiles \cup {None}
    <2> DEFINE own == {i \in DOMAIN config : config[i].products = {p}}
    <2>1. SUFFICES ASSUME own # {} PROVE Store!Orphan(p) \in Store!TokenFiles
      BY DEF Store!Orphan
    <2>2. own \in SUBSET (0..issued) /\ issued \in Nat
      BY EntryParts, StoreParts
    <2>3. Product!Max(own) \in own /\ \A x \in own : x <= Product!Max(own)
      BY <2>1, <2>2, MaxIsHighest
    <2> DEFINE last == CHOOSE i \in own : \A j \in own : j <= i
    <2>4. last \in own
      BY <2>3
    <2>5. Store!Orphan(p) = config[last].file
      BY <2>1 DEF Store!Orphan
    <2> QED
      BY <2>4, <2>5, EntryParts
  <1>2. ASSUME Store!productTokenFile(p) # None
        PROVE  \E i \in DOMAIN config : Store!Listing(p) = {i} /\ Store!productTokenFile(p) = config[i].file
    <2> DEFINE L == Store!Listing(p)
               k == CHOOSE i \in L : TRUE
    <2>1. PICK i \in DOMAIN config : L = {i}
      BY <1>2 DEF Store!productTokenFile
    <2>2. k = i
      BY <2>1
    <2>3. Store!productTokenFile(p) = config[k].file
      BY <1>2 DEF Store!productTokenFile
    <2> QED
      BY <2>1, <2>2, <2>3
  <1> QED
    BY <1>1, <1>2

(* Each command begins with its checks. *)
LEMMA StoreBegins ==
    ASSUME StoreInv,
           \/ \E force \in BOOLEAN : Store!runInit(force)
           \/ Store!InstallServe \/ Store!RotateOperator
           \/ \E p \in StoreProducts :
                  \/ \E force \in BOOLEAN : Store!runInitProduct(p, force)
                  \/ Store!RotateProduct(p) \/ Store!runInitRemoveProduct(p)
    PROVE  StoreInv'
  <1> DEFINE people == StoreProducts \cup {Operator}
             files == Store!TokenFiles \cup {None}
  <1>0. /\ Operator \in people /\ Operator \in files /\ Operator \in Store!TokenFiles
        /\ \A p \in StoreProducts : p \in people /\ p \in files /\ p \in Store!TokenFiles
    BY StoreParts
  <1>1. CASE (\E force \in BOOLEAN : Store!runInit(force)) \/ Store!InstallServe
    <2>1. issued < MaxIssued /\ Store!Begin("init", "token", Operator, Operator)
      BY <1>1 DEF Store!runInit, Store!InstallServe
    <2> QED
      BY <1>0, <2>1, BeginSteps
  <1>2. CASE Store!RotateOperator
    <2>1. issued < MaxIssued /\ Store!Begin("rotate", "token", Operator, Operator)
      BY <1>2 DEF Store!RotateOperator
    <2> QED
      BY <1>0, <2>1, BeginSteps
  <1>3. ASSUME NEW p \in StoreProducts, NEW force \in BOOLEAN, Store!runInitProduct(p, force) PROVE StoreInv'
    <2>1. issued < MaxIssued /\ Store!Begin("add", "token", p, p)
      BY <1>3 DEF Store!runInitProduct
    <2> QED
      BY <1>0, <2>1, BeginSteps
  <1>4. ASSUME NEW p \in StoreProducts, Store!RotateProduct(p) PROVE StoreInv'
    <2> DEFINE f == Store!productTokenFile(p)
    <2>1. issued < MaxIssued /\ Store!Begin("rotate", "token", p, f) /\ Store!Loads /\ f # None
      BY <1>4 DEF Store!RotateProduct
    <2>2. f \in Store!TokenFiles
      BY <2>1, FilesThere, EntryParts
    <2> HIDE DEF f
    <2> QED
      BY <1>0, <2>1, <2>2, BeginSteps
  <1>5. ASSUME NEW p \in StoreProducts, Store!runInitRemoveProduct(p) PROVE StoreInv'
    <2> DEFINE f == Store!Orphan(p)
    <2>1. Store!Begin("remove", "config", p, f) /\ Store!Loads
      BY <1>5 DEF Store!runInitRemoveProduct
    <2>2. f \in files
      BY <2>1, FilesThere
    <2> HIDE DEF f
    <2> QED
      BY <1>0, <2>1, <2>2, BeginSteps
  <1> QED
    BY <1>1, <1>2, <1>3, <1>4, <1>5

(* The name a shared file gets is free. *)
LEMMA FamilyIsFree ==
    ASSUME StoreInv, Store!FreeFamilies # {}
    PROVE  /\ Store!NextFamilyRel \in Store!Families /\ Store!NextFamilyRel \in Store!TokenFiles
           /\ Store!NextFamilyRel \notin StoreProducts /\ Store!NextFamilyRel # Operator
           /\ \A i \in DOMAIN config : config[i].file # Store!NextFamilyRel
  <1>1. Store!FreeFamilies \in SUBSET Nat
    BY DEF Store!FreeFamilies, Store!Families
  <1>2. Store!NextFamilyRel \in Store!FreeFamilies
    BY <1>1, LeastIsThere DEF Store!NextFamilyRel
  <1> QED
    BY <1>2, StoreParts DEF Store!FreeFamilies

(* A product is about to share the token of another. *)
LEMMA ShareBegins ==
    ASSUME StoreInv, NEW p \in StoreProducts, NEW with \in StoreProducts, Store!runInitShareProduct(p, with)
    PROVE  StoreInv'
  <1> DEFINE f == Store!productTokenFile(with)
             step == IF f \in StoreProducts THEN "rename" ELSE "config"
             new == [op |-> "share", step |-> step, product |-> p, file |-> f]
  <1>1. Store!Loads /\ f # None /\ Store!FreeFamilies # {} /\ Store!Begin("share", step, p, f)
    BY DEF Store!runInitShareProduct
  <1>2. PICK i \in DOMAIN config : Store!Listing(with) = {i} /\ f = config[i].file
    BY <1>1, FilesThere
  <1>3. f \in Store!TokenFiles /\ with \in config[i].products
    BY <1>1, <1>2, EntryParts DEF Store!Listing
  <1>4. ASSUME NEW j \in DOMAIN config, config[j].file = f PROVE j = i
    <2> SUFFICES ASSUME j # i PROVE FALSE
      OBVIOUS
    <2>1. f \in StoreProducts /\ config[i].products = {f} /\ config[j].products = {f}
      BY <1>1, <1>2, <1>4, EntryParts
    <2>2. j \in Store!Listing(with)
      BY <1>3, <2>1 DEF Store!Listing
    <2> QED
      BY <1>2, <2>2
  <1>5. storeCommand' = new /\ UNCHANGED <<config, token, issued, granted, revoked, strayed, storeCuts>>
    BY <1>1 DEF Store!Begin
  <1>6. new \in StoreCommand
    BY <1>3 DEF StoreCommand
  <1>7. new.op = "share" /\ new.step = step /\ new.product = p /\ new.file = f /\ step \in {"rename", "config"}
    OBVIOUS
  <1>8. f \in StoreProducts => step = "rename"
    OBVIOUS
  <1>81. step = "rename" => f \in StoreProducts
    OBVIOUS
  <1> HIDE DEF new, step, f
  <1>9. \E k \in DOMAIN config : \A j \in DOMAIN config : config[j].file = f <=> j = k
    BY <1>2, <1>4
  <1>10. Store!Loads' /\ Store!FreeFamilies' # {}
    BY <1>1, <1>5 DEF Store!Loads, Store!FreeFamilies
  <1>11. ShareFits(storeCommand)'
    BY <1>5, <1>7, <1>8, <1>9, <1>10 DEF ShareFits
  <1>12. CommandFits'
    BY <1>5, <1>7, <1>81, <1>11 DEF CommandFits
  <1>13. storeCuts' \in Nat
    BY <1>5 DEF StoreInv, StoreOK
  <1> QED
    BY <1>5, <1>6, <1>12, <1>13, BeginsStore

-----------------------------------------------------------------------------
(* A step that replaces a token file: by the next token, or by a torn file. *)
LEMMA TokenMoves ==
    ASSUME StoreInv, NEW f \in Store!TokenFiles, NEW t \in {issued + 1, Torn},
           UNCHANGED config, token' = [token EXCEPT ![f] = t], issued' \in {issued, issued + 1},
           \A g \in revoked' : g \in revoked \cup Store!PairsOf(f)
    PROVE  TokensDiffer' /\ EntriesFit' /\ Withheld'
  <1>1. issued \in Nat /\ token \in [Store!TokenFiles -> 1..issued \cup {None, Torn}] /\ issued + 1 \notin 1..issued
    BY StoreParts
  <1>2. \A g \in Store!TokenFiles : token'[g] = IF g = f THEN t ELSE token[g]
    BY <1>1
  <1>3. \A g \in revoked \cup Store!PairsOf(f) : g[1] \in 1..issued
    BY StoreParts DEF Store!PairsOf
  <1>31. issued + 1 \notin {None, Torn} /\ Torn \notin 1..issued /\ None \notin 1..issued
    BY <1>1, StoreParts, StoreAssumption
  <1>4. TokensDiffer'
    BY <1>1, <1>2, <1>31 DEF StoreInv, TokensDiffer
  <1>5. EntriesFit'
    BY DEF StoreInv, EntriesFit, Store!Loads
  <1>6. ASSUME NEW g \in Store!TokenFiles, NEW p, <<token[g], p>> \notin revoked
        PROVE  <<token'[g], p>> \notin revoked'
    <2> SUFFICES ASSUME <<token'[g], p>> \in revoked' PROVE FALSE
      OBVIOUS
    <2>1. <<token'[g], p>> \in revoked \cup Store!PairsOf(f)
      OBVIOUS
    <2>2. token'[g] \in 1..issued
      BY <1>3, <2>1
    <2>3. g # f /\ token'[g] = token[g]
      BY <1>1, <1>2, <1>31, <2>2
    <2>4. token[g] = token[f]
      BY <2>1, <2>3, <1>6 DEF Store!PairsOf
    <2> QED
      BY <1>31, <2>2, <2>3, <2>4 DEF StoreInv, TokensDiffer
  <1>7. Withheld'
    <2>1. Operator \in Store!TokenFiles
      BY StoreParts
    <2>2. <<token'[Operator], Operator>> \notin revoked'
      BY <2>1, <1>6 DEF StoreInv, Withheld
    <2>3. ASSUME Store!Loads, NEW i \in DOMAIN config, NEW p \in config[i].products
          PROVE  <<token'[config[i].file], p>> \notin revoked'
      BY <2>3, <1>6, EntryParts
    <2> QED
      BY <2>2, <2>3 DEF Withheld, Store!Loads
  <1> QED
    BY <1>4, <1>5, <1>7

(* A token is generated and written. *)
LEMMA TokenWritten == ASSUME StoreInv, Store!writeTokenFile PROVE StoreInv'
  <1> DEFINE c == storeCommand
             f == storeCommand.file
             gone == Store!PairsOf(f)
             new == {<<issued', g[2]>> : g \in Store!PairsOf(f)}
  <1>1. /\ c # None /\ c.step = "token" /\ issued' = issued + 1 /\ UNCHANGED <<config, strayed, storeCuts>>
        /\ token' = [token EXCEPT ![f] = issued']
    BY DEF Store!writeTokenFile, Store!At
  <1>2. /\ c \in StoreCommand /\ c.op \in {"init", "rotate", "add"} /\ f \in Store!TokenFiles /\ issued < MaxIssued
        /\ c.op = "add" => c.product \in StoreProducts
    BY <1>1 DEF StoreInv, StoreOK, CommandFits
  <1>3. /\ issued \in Nat /\ issued' \in Nat /\ MaxIssued \in Nat /\ issued' \in 0..MaxIssued
        /\ token \in [Store!TokenFiles -> 1..issued \cup {None, Torn}]
        /\ 1..issued \subseteq 1..issued' /\ issued' \in 1..issued'
    BY <1>1, <1>2, StoreParts
  <1>4. gone \subseteq granted /\ granted \subseteq Pairs /\ revoked \subseteq Pairs
    BY DEF Store!PairsOf, StoreInv, StoreOK
  <1>5. new \subseteq Pairs'
    BY <1>3, <1>4, StoreParts DEF Pairs
  <1>6. Pairs \subseteq Pairs'
    BY <1>3 DEF Pairs
  <1>7. \/ /\ c.op = "rotate" /\ storeCommand' = None
           /\ granted' = (granted \ gone) \cup new /\ revoked' = (revoked \cup gone) \ new
        \/ /\ c.op # "rotate" /\ storeCommand' = [c EXCEPT !.step = "config"]
           /\ granted' = (granted \ gone) \cup {} /\ revoked' = (revoked \cup gone) \ {}
    BY DEF Store!writeTokenFile, Store!Report
  <1> HIDE DEF gone, new
  <1>8. granted' \subseteq Pairs' /\ revoked' \subseteq Pairs' /\ \A g \in revoked' : g \in revoked \cup gone
    BY <1>4, <1>5, <1>6, <1>7
  <1>9. TokensDiffer' /\ EntriesFit' /\ Withheld'
    BY <1>1, <1>2, <1>8, TokenMoves DEF gone
  <1>10. token' \in [Store!TokenFiles -> 1..issued' \cup {None, Torn}]
    BY <1>1, <1>2, <1>3
  <1>11. Store!Loads' => config' \in [DOMAIN config' -> EntryType] /\ DOMAIN config' \subseteq 1..issued'
    BY <1>1, <1>3, EntryParts DEF Store!Loads
  <1>12. CASE c.op = "rotate"
    <2>1. storeCommand' = None
      BY <1>7, <1>12
    <2>2. StoreOK'
      BY <1>1, <1>3, <1>8, <1>10, <1>11, <2>1 DEF StoreInv, StoreOK
    <2> QED
      BY <1>9, <2>1, <2>2 DEF StoreInv, CommandFits
  <1>13. CASE c.op # "rotate"
    <2> DEFINE d == [c EXCEPT !.step = "config"]
    <2>1. storeCommand' = d
      BY <1>7, <1>13
    <2>2. d \in StoreCommand /\ d.op = c.op /\ d.step = "config" /\ d.product = c.product
      BY <1>2 DEF StoreCommand
    <2> HIDE DEF d
    <2>3. StoreOK'
      BY <1>1, <1>3, <1>8, <1>10, <1>11, <2>1, <2>2 DEF StoreInv, StoreOK
    <2>4. Store!Loads' => issued' \notin DOMAIN config'
      <3>1. Store!Loads' => DOMAIN config' \subseteq 1..issued
        BY <1>1, EntryParts DEF Store!Loads
      <3> QED
        BY <1>1, <1>3, <3>1
    <2>5. CommandFits'
      BY <1>1, <1>2, <1>3, <1>13, <2>1, <2>2, <2>4 DEF CommandFits
    <2> QED
      BY <1>9, <2>3, <2>5 DEF StoreInv
  <1> QED
    BY <1>12, <1>13

(* A command is cut short. *)
LEMMA StoreIsCut == ASSUME StoreInv, Store!CutShort PROVE StoreInv'
  <1> DEFINE c == storeCommand
             gone == IF token' # token THEN Store!PairsOf(storeCommand.file) ELSE {}
  <1>1. /\ c # None /\ storeCommand' = None /\ storeCuts' = storeCuts + 1 /\ UNCHANGED issued
        /\ strayed' \in BOOLEAN
        /\ granted' = (granted \ gone) \cup {} /\ revoked' = (revoked \cup gone) \ {}
    BY DEF Store!CutShort, Store!Report, StoreInv, StoreOK
  <1>2. \/ UNCHANGED <<config, token>>
        \/ c.step = "token" /\ token' = [token EXCEPT ![c.file] = Torn] /\ UNCHANGED config
        \/ config' \in {Torn, Store!Skeleton} /\ UNCHANGED token
    BY DEF Store!CutShort, Store!At
  <1>3. granted' \subseteq Pairs /\ revoked' \subseteq Pairs /\ Pairs' = Pairs
    <2>1. gone \subseteq granted
      BY DEF Store!PairsOf
    <2> HIDE DEF gone
    <2> QED
      BY <1>1, <2>1 DEF StoreInv, StoreOK, Pairs
  <1>4. storeCuts' \in Nat /\ CommandFits'
    BY <1>1 DEF StoreInv, StoreOK, CommandFits
  <1>5. CASE c.step = "token" /\ token' = [token EXCEPT ![c.file] = Torn] /\ UNCHANGED config
    <2>1. c.file \in Store!TokenFiles
      BY <1>1, <1>5 DEF StoreInv, CommandFits
    <2>2. \A g \in revoked' : g \in revoked \cup Store!PairsOf(c.file)
      BY <1>1
    <2>3. TokensDiffer' /\ EntriesFit' /\ Withheld'
      BY <1>1, <1>5, <2>1, <2>2, TokenMoves
    <2>4. token' \in [Store!TokenFiles -> 1..issued \cup {None, Torn}]
      BY <1>5, <2>1, StoreParts
    <2>5. StoreOK'
      BY <1>1, <1>3, <1>4, <1>5, <2>4 DEF StoreInv, StoreOK, Store!Loads
    <2> QED
      BY <1>4, <2>3, <2>5 DEF StoreInv
  <1>6. ASSUME UNCHANGED token, UNCHANGED config \/ config' \in {Torn, Store!Skeleton} PROVE StoreInv'
    <2>1. revoked' = revoked
      BY <1>1, <1>6
    <2>2. TokensDiffer'
      BY <1>6 DEF StoreInv, TokensDiffer
    <2>3. <<token'[Operator], Operator>> \notin revoked'
      BY <1>6, <2>1 DEF StoreInv, Withheld
    <2>4. CASE UNCHANGED config
      <3>1. StoreOK'
        BY <1>1, <1>3, <1>4, <1>6, <2>4 DEF StoreInv, StoreOK, Store!Loads
      <3>2. EntriesFit' /\ Withheld'
        BY <1>6, <2>1, <2>4 DEF StoreInv, EntriesFit, Withheld, Store!Loads
      <3> QED
        BY <1>4, <2>2, <3>1, <3>2 DEF StoreInv
    <2>5. CASE config' \in {Torn, Store!Skeleton}
      <3>1. Store!Loads' => DOMAIN config' = {} /\ config' \in [DOMAIN config' -> EntryType]
        BY <2>5 DEF Store!Loads, Store!Skeleton
      <3>2. StoreOK'
        BY <1>1, <1>3, <1>4, <1>6, <3>1 DEF StoreInv, StoreOK
      <3>3. EntriesFit' /\ Withheld'
        BY <2>3, <3>1 DEF EntriesFit, Withheld
      <3> QED
        BY <1>4, <2>2, <3>2, <3>3 DEF StoreInv
    <2> QED
      BY <1>6, <2>4, <2>5
  <1> QED
    BY <1>2, <1>5, <1>6

-----------------------------------------------------------------------------
(* Steps that write the configuration. *)

(* The configuration is of the operator alone. *)
LEMMA SkeletonWritten == ASSUME StoreInv, Store!WriteSkeleton PROVE StoreInv'
  <1> DEFINE told == Store!Told(Operator, Operator)
  <1>1. /\ config' = Store!Skeleton /\ storeCommand' = None /\ UNCHANGED <<token, issued, strayed, storeCuts>>
        /\ granted' = (granted \ granted) \cup told /\ revoked' = (revoked \cup granted) \ told
    BY DEF Store!WriteSkeleton, Store!Report
  <1>2. told \subseteq {<<token[Operator], Operator>>}
    BY DEF Store!Told
  <1>3. token[Operator] \notin {None, Torn} => told = {<<token[Operator], Operator>>} /\ token[Operator] \in 1..issued
    BY StoreParts DEF Store!Told, Store!hashedTokenFromFile
  <1>4. told \subseteq Pairs
    BY <1>3 DEF Store!Told, Store!hashedTokenFromFile, Pairs
  <1>5. Pairs' = Pairs /\ granted \subseteq Pairs /\ revoked \subseteq Pairs
    BY <1>1 DEF Pairs, StoreInv, StoreOK
  <1> HIDE DEF told
  <1>6. granted' \subseteq Pairs' /\ revoked' \subseteq Pairs'
    BY <1>1, <1>4, <1>5
  <1>7. <<token[Operator], Operator>> \notin revoked'
    <2>1. CASE token[Operator] \in {None, Torn}
      <3>1. token[Operator] \notin 1..issued
        BY <2>1, StoreParts
      <3> QED
        BY <1>1, <1>6, <3>1 DEF Pairs
    <2> QED
      BY <1>1, <1>3, <2>1
  <1>8. DOMAIN config' = {} /\ config' \in [DOMAIN config' -> EntryType]
    BY <1>1 DEF Store!Skeleton
  <1>9. StoreOK'
    BY <1>1, <1>6, <1>8 DEF StoreInv, StoreOK
  <1>10. TokensDiffer' /\ CommandFits'
    BY <1>1 DEF StoreInv, TokensDiffer, CommandFits
  <1>11. EntriesFit' /\ Withheld'
    BY <1>1, <1>7, <1>8 DEF EntriesFit, Withheld
  <1> QED
    BY <1>9, <1>10, <1>11 DEF StoreInv

(* What a command reports of a file whose token is there. *)
LEMMA ToldTyped ==
    ASSUME StoreInv, NEW p \in StoreProducts, NEW f \in Store!TokenFiles
    PROVE  /\ Store!Told(p, f) \subseteq Pairs
           /\ \A g \in Pairs : g = <<token[f], p>> => g \in Store!Told(p, f)
           /\ \A x : <<x, Operator>> \notin Store!Told(p, f)
           /\ \A g \in Store!Told(p, f) : g = <<token[f], p>>
  <1>1. token[f] \notin {None, Torn} => token[f] \in 1..issued
    BY StoreParts
  <1>2. token[f] \in {None, Torn} => token[f] \notin 1..issued
    BY StoreParts
  <1> QED
    BY <1>1, <1>2, StoreParts DEF Store!Told, Store!hashedTokenFromFile, Pairs

(* An entry is added, or one that is left to one product is moved to its file. *)
LEMMA EntryAdded ==
    ASSUME StoreInv, Store!WriteAdded, config # Torn
    PROVE  LET p == storeCommand.product
               entries == IF config = None THEN Store!Skeleton ELSE config
           IN  /\ DOMAIN entries \subseteq 1..issued /\ issued \notin DOMAIN entries
               /\ entries \in [DOMAIN entries -> EntryType]
               /\ config' \in [DOMAIN config' -> EntryType]
               /\ \E k \in 1..issued :
                     /\ DOMAIN config' = DOMAIN entries \cup {k}
                     /\ config'[k] = Store!Entry(p, {p})
                     /\ \A i \in DOMAIN entries \ {k} : config'[i] = entries[i]
                     /\ k \in DOMAIN entries => entries[k].products = {p}
  <1> DEFINE p == storeCommand.product
             entries == IF config = None THEN Store!Skeleton ELSE config
             only == {i \in DOMAIN entries : entries[i].products = {p}}
             first == CHOOSE i \in only : \A j \in only : i <= j
  <1>1. storeCommand # None /\ storeCommand.step = "config" /\ storeCommand.op = "add"
    BY DEF Store!WriteAdded, Store!At
  <1>0. p \in StoreProducts /\ issued > 0 /\ (Store!Loads => issued \notin DOMAIN config)
    BY <1>1 DEF StoreInv, CommandFits
  <1>2. /\ DOMAIN entries \subseteq 1..issued /\ issued \notin DOMAIN entries /\ issued \in Nat
        /\ entries \in [DOMAIN entries -> EntryType]
    <2>1. CASE config = None
      BY <2>1, <1>0, StoreParts DEF Store!Skeleton
    <2>2. CASE config # None
      BY <1>0, <2>2, EntryParts, StoreParts DEF Store!Loads
    <2> QED
      BY <2>1, <2>2
  <1>3. config' = IF only # {} THEN [entries EXCEPT ![first].file = p]
                  ELSE [i \in DOMAIN entries \cup {issued} |->
                           IF i \in DOMAIN entries THEN entries[i] ELSE Store!Entry(p, {p})]
    BY DEF Store!WriteAdded, Store!upsertProductToken
  <1>4. only # {} => first \in only
    <2>1. only \in SUBSET Nat
      BY <1>2
    <2> HIDE DEF only
    <2> QED
      BY <2>1, LeastIsThere
  <1>5. /\ config' \in [DOMAIN config' -> EntryType]
        /\ \E k \in 1..issued :
              /\ DOMAIN config' = DOMAIN entries \cup {k}
              /\ config'[k] = Store!Entry(p, {p})
              /\ \A i \in DOMAIN entries \ {k} : config'[i] = entries[i]
              /\ k \in DOMAIN entries => entries[k].products = {p}
    <2>0. Store!Entry(p, {p}) \in EntryType
      BY <1>0 DEF Store!Entry, EntryType
    <2>1. CASE only # {}
      <3> HIDE DEF first
      <3>1. config' = [entries EXCEPT ![first].file = p] /\ first \in DOMAIN entries /\ entries[first].products = {p}
        BY <1>3, <1>4, <2>1
      <3>2. entries[first] \in EntryType
        BY <1>2, <3>1
      <3>3. config'[first] = Store!Entry(p, {p}) /\ DOMAIN config' = DOMAIN entries
        BY <3>1, <3>2 DEF Store!Entry, EntryType
      <3>4. \A i \in DOMAIN entries \ {first} : config'[i] = entries[i]
        BY <3>1
      <3>5. config' \in [DOMAIN config' -> EntryType]
        BY <1>2, <2>0, <3>1, <3>3, <3>4
      <3> QED
        BY <1>2, <3>1, <3>3, <3>4, <3>5
    <2>2. CASE only = {}
      <3>1. config' = [i \in DOMAIN entries \cup {issued} |->
                          IF i \in DOMAIN entries THEN entries[i] ELSE Store!Entry(p, {p})]
        BY <1>3, <2>2
      <3> HIDE DEF entries
      <3>2. DOMAIN config' = DOMAIN entries \cup {issued} /\ issued \in 1..issued
        BY <1>0, <1>2, <3>1
      <3>3. config'[issued] = Store!Entry(p, {p}) /\ \A i \in DOMAIN entries : config'[i] = entries[i]
        BY <1>2, <3>1
      <3>4. \A i \in DOMAIN entries : entries[i] \in EntryType
        BY <1>2
      <3>5. config' \in [DOMAIN config' -> EntryType]
        BY <2>0, <3>1, <3>4
      <3> QED
        BY <1>2, <3>2, <3>3, <3>5
    <2> QED
      BY <2>1, <2>2
  <1> QED
    BY <1>2, <1>5

(* An entry is added, or a shared one that is left to one product is moved. *)
LEMMA AddedWritten == ASSUME StoreInv, Store!WriteAdded PROVE StoreInv'
  <1> DEFINE p == storeCommand.product
             entries == IF config = None THEN Store!Skeleton ELSE config
             told == Store!Told(p, p)
             changed == {i \in DOMAIN entries : entries[i] # config'[i]}
             gone == granted \cap {<<token[entries[i].file], p>> : i \in changed}
  <1>1. /\ storeCommand # None /\ storeCommand.step = "config" /\ storeCommand.op = "add"
        /\ storeCommand' = None /\ UNCHANGED <<token, issued, storeCuts>>
    BY DEF Store!WriteAdded, Store!At
  <1>2. /\ p \in StoreProducts /\ issued > 0
        /\ Store!Loads => issued \notin DOMAIN config
    BY <1>1 DEF StoreInv, CommandFits
  <1>3. TokensDiffer' /\ CommandFits' /\ Pairs' = Pairs
    BY <1>1 DEF StoreInv, TokensDiffer, CommandFits, Pairs
  <1>4. CASE config = Torn
    <2>1. UNCHANGED <<config, granted, revoked, strayed>>
      BY <1>4 DEF Store!WriteAdded, Store!SameGrants
    <2>2. storeCommand' \in StoreCommand \cup {None} /\ storeCuts' \in Nat
      BY <1>1 DEF StoreInv, StoreOK
    <2> QED
      BY <1>1, <1>3, <2>1, <2>2, BeginsStore
  <1>5. CASE config # Torn
    <2>1. /\ config' = Store!upsertProductToken(entries, p)
          /\ granted' = (granted \ gone) \cup told /\ revoked' = (revoked \cup gone) \ told
          /\ strayed' \in BOOLEAN
      BY <1>5 DEF Store!WriteAdded, Store!Report, StoreInv, StoreOK
    <2>2. /\ DOMAIN entries \subseteq 1..issued /\ issued \notin DOMAIN entries /\ issued \in Nat
          /\ entries \in [DOMAIN entries -> EntryType]
          /\ \A i \in DOMAIN entries :
                /\ entries[i].file \in Store!TokenFiles
                /\ entries[i].file \in StoreProducts => entries[i].products = {entries[i].file}
                /\ \A q \in entries[i].products : q \in StoreProducts /\ <<token[entries[i].file], q>> \notin revoked
          /\ \A i, j \in DOMAIN entries : i # j /\ entries[i].file = entries[j].file => entries[i].file \in StoreProducts
      <3>1. CASE config = None
        BY <3>1, <1>2, StoreParts DEF Store!Skeleton
      <3>2. CASE config # None
        BY <1>2, <1>5, <3>2, EntryParts, StoreParts DEF Store!Loads
      <3> QED
        BY <3>1, <3>2
    <2>5. gone \subseteq Pairs /\ told \subseteq Pairs
      BY <1>2, ToldTyped, StoreParts DEF StoreInv, StoreOK
    <2>6. granted' \subseteq Pairs' /\ revoked' \subseteq Pairs'
      BY <1>3, <2>1, <2>5 DEF StoreInv, StoreOK
    <2>7. <<token[Operator], Operator>> \notin revoked'
      <3>1. <<token[Operator], Operator>> \notin gone
        BY <1>2, StoreParts
      <3> QED
        BY <2>1, <3>1 DEF StoreInv, Withheld
    <2>8. <<token[p], p>> \notin revoked'
      BY <1>2, <1>3, <2>1, <2>6, ToldTyped, StoreParts
    <2> HIDE DEF told, gone
    <2>10. PICK k \in 1..issued :
                    /\ DOMAIN config' = DOMAIN entries \cup {k}
                    /\ config'[k] = Store!Entry(p, {p})
                    /\ \A i \in DOMAIN entries \ {k} : config'[i] = entries[i]
                    /\ k \in DOMAIN entries => entries[k].products = {p}
      BY <1>5, EntryAdded
    <2>9. config' \in [DOMAIN config' -> EntryType]
      BY <1>5, EntryAdded
    <2>11. k \in DOMAIN config' /\ config'[k].file = p /\ config'[k].products = {p}
      BY <2>10 DEF Store!Entry
    <2>12. StoreOK'
      <3>1. DOMAIN config' \subseteq 1..issued
        BY <2>2, <2>10
      <3> QED
        BY <1>1, <2>1, <2>6, <2>9, <2>10, <3>1 DEF StoreInv, StoreOK
    <2>13. EntriesFit'
      <3>1. \A i \in DOMAIN config' \ {k} : i \in DOMAIN entries /\ config'[i] = entries[i]
        BY <2>10
      <3>2. \A i \in DOMAIN config' : config'[i].file \in StoreProducts => config'[i].products = {config'[i].file}
        BY <2>2, <2>11, <3>1
      <3>3. ASSUME NEW i \in DOMAIN config', NEW j \in DOMAIN config', i # j, config'[i].file = config'[j].file
            PROVE  config'[i].file \in StoreProducts
        <4>1. CASE i = k \/ j = k
          BY <1>2, <2>11, <3>3, <4>1
        <4>2. CASE i # k /\ j # k
          BY <2>2, <3>1, <3>3, <4>2
        <4> QED
          BY <4>1, <4>2
      <3> QED
        BY <3>2, <3>3 DEF EntriesFit
    <2>14. ASSUME NEW i \in DOMAIN config', NEW q \in config'[i].products
           PROVE  <<token[config'[i].file], q>> \notin revoked'
      <3>1. CASE i = k
        BY <2>8, <2>11, <3>1
      <3>2. CASE i # k
        <4>1. i \in DOMAIN entries /\ config'[i] = entries[i]
          BY <2>10, <3>2
        <4>2. SUFFICES ASSUME <<token[entries[i].file], q>> \in gone PROVE FALSE
          BY <2>1, <2>2, <4>1
        <4>3. PICK j \in changed : <<token[entries[i].file], q>> = <<token[entries[j].file], p>>
          BY <4>2 DEF gone
        <4>4. j = k /\ k \in DOMAIN entries /\ entries[k] # config'[k]
          BY <2>10, <4>3
        <4>5. entries[k].file # p
          <5> SUFFICES ASSUME entries[k].file = p PROVE FALSE
            OBVIOUS
          <5>1. entries[k] = Store!Entry(p, {p})
            BY <2>2, <2>10, <4>4 DEF EntryType, Store!Entry
          <5> QED
            BY <2>10, <4>4, <5>1
        <4>6. entries[k].file \notin StoreProducts
          BY <2>2, <2>10, <4>4, <4>5
        <4>7. token[entries[i].file] \in 1..issued
          BY <2>5, <4>2 DEF Pairs
        <4>8. entries[i].file = entries[k].file
          BY <2>2, <4>1, <4>3, <4>4, <4>7, StoreParts DEF StoreInv, TokensDiffer
        <4> QED
          BY <2>2, <3>2, <4>1, <4>4, <4>6, <4>8
      <3> QED
        BY <3>1, <3>2
    <2>15. Withheld'
      BY <1>1, <2>7, <2>14 DEF Withheld
    <2> QED
      BY <1>3, <2>12, <2>13, <2>15 DEF StoreInv
  <1> QED
    BY <1>4, <1>5

(* The file of an entry that is to be shared gets a name that is nobody's. *)
LEMMA FilePromoted == ASSUME StoreInv, Store!PromoteFile PROVE StoreInv'
  <1> DEFINE c == storeCommand
             f == storeCommand.file
             n == Store!NextFamilyRel
  <1>1. /\ c # None /\ c.step = "rename"
        /\ UNCHANGED <<config, issued, granted, revoked, strayed, storeCuts>>
    BY DEF Store!PromoteFile, Store!At
  <1>2. /\ c \in StoreCommand /\ f \in StoreProducts /\ c.op = "share" /\ Store!Loads /\ c.product \in StoreProducts
        /\ Store!FreeFamilies # {}
        /\ \E i \in DOMAIN config : \A j \in DOMAIN config : config[j].file = f <=> j = i
    BY <1>1 DEF StoreInv, StoreOK, CommandFits, ShareFits
  <1>3. storeCuts' \in Nat
    BY <1>1 DEF StoreInv, StoreOK
  <1>4. CASE token[f] = None
    <2>1. storeCommand' = None /\ UNCHANGED token
      BY <1>4 DEF Store!PromoteFile
    <2>2. CommandFits'
      BY <2>1 DEF CommandFits
    <2> QED
      BY <1>1, <1>3, <2>1, <2>2, BeginsStore
  <1>5. CASE token[f] # None
    <2> DEFINE d == [c EXCEPT !.step = "config"]
    <2>1. storeCommand' = d /\ token' = [token EXCEPT ![f] = None, ![n] = token[f]]
      BY <1>5 DEF Store!PromoteFile
    <2>2. d \in StoreCommand /\ d.op = "share" /\ d.step = "config" /\ d.product = c.product /\ d.file = f
      BY <1>2 DEF StoreCommand
    <2> HIDE DEF d
    <2>3. /\ n \in Store!TokenFiles /\ n \notin StoreProducts /\ n # Operator /\ f \in Store!TokenFiles /\ f # n
          /\ f # Operator
          /\ \A i \in DOMAIN config : config[i].file # n
      BY <1>2, FamilyIsFree, StoreParts
    <2> HIDE DEF n
    <2>4. /\ token'[n] = token[f] /\ token'[f] = None
          /\ \A g \in Store!TokenFiles \ {f, n} : token'[g] = token[g]
          /\ token' \in [Store!TokenFiles -> 1..issued \cup {None, Torn}]
      BY <2>1, <2>3, StoreParts
    <2>5. TokensDiffer'
      BY <2>3, <2>4 DEF StoreInv, TokensDiffer
    <2>6. ASSUME NEW x PROVE <<None, x>> \notin revoked
      BY StoreParts
    <2>7. Withheld'
      <3>1. ASSUME NEW i \in DOMAIN config, NEW q \in config[i].products
            PROVE  <<token'[config[i].file], q>> \notin revoked
        <4>1. config[i].file \in Store!TokenFiles \ {n}
          BY <1>2, <2>3, EntryParts
        <4> QED
          BY <1>2, <2>4, <2>6, <4>1, EntryParts
      <3>2. <<token'[Operator], Operator>> \notin revoked
        BY <2>3, <2>4, StoreParts DEF StoreInv, Withheld
      <3> QED
        BY <1>1, <3>1, <3>2 DEF Withheld
    <2>8. <<token'[n], f>> \notin revoked
      <3>1. PICK i \in DOMAIN config : config[i].file = f
        BY <1>2
      <3>2. f \in config[i].products
        BY <1>2, <3>1, EntryParts
      <3> QED
        BY <1>2, <2>4, <3>1, <3>2, EntryParts
    <2>9. Store!Loads' /\ Store!FreeFamilies' # {} /\ Store!NextFamilyRel' = n
      BY <1>1, <1>2 DEF Store!Loads, Store!FreeFamilies, Store!NextFamilyRel, n
    <2>10. ShareFits(storeCommand)'
      BY <1>1, <1>2, <2>1, <2>2, <2>8, <2>9 DEF ShareFits
    <2>11. CommandFits'
      BY <2>1, <2>2, <2>10 DEF CommandFits
    <2>12. StoreOK' /\ EntriesFit'
      BY <1>1, <2>1, <2>2, <2>4 DEF StoreInv, StoreOK, EntriesFit, Pairs, Store!Loads
    <2> QED
      BY <2>5, <2>7, <2>11, <2>12 DEF StoreInv
  <1> QED
    BY <1>4, <1>5

(* One more product shares an entry. *)
LEMMA SharedWritten == ASSUME StoreInv, Store!WriteShared PROVE StoreInv'
  <1> DEFINE p == storeCommand.product
             from == storeCommand.file
             file0 == IF from \in StoreProducts THEN Store!NextFamilyRel ELSE from
             told == Store!Told(p, file0)
  <1>1. /\ storeCommand # None /\ storeCommand.step = "config" /\ storeCommand.op = "share"
        /\ storeCommand' = None /\ UNCHANGED <<token, issued, storeCuts>> /\ strayed' \in BOOLEAN
        /\ config' \in {Torn, Store!shareProductToken(p, from, file0)}
        /\ granted' = (granted \ {}) \cup told /\ revoked' = (revoked \cup {}) \ told
    BY DEF Store!WriteShared, Store!At, Store!Report, StoreInv, StoreOK
  <1>2. ShareFits(storeCommand)
    BY <1>1 DEF StoreInv, CommandFits
  <1>3. /\ Store!Loads /\ p \in StoreProducts /\ Store!FreeFamilies # {}
        /\ from \in StoreProducts => <<token[file0], from>> \notin revoked
    BY <1>1, <1>2 DEF ShareFits
  <1>4. PICK i \in DOMAIN config : \A j \in DOMAIN config : config[j].file = from <=> j = i
    BY <1>2 DEF ShareFits
  <1>5. /\ file0 \in Store!TokenFiles /\ file0 \notin StoreProducts /\ file0 \in StoreProducts \cup Store!Families
        /\ \A j \in DOMAIN config \ {i} : config[j].file # file0
    <2>1. config[i].file = from /\ from \in StoreProducts \cup Store!Families /\ from \in Store!TokenFiles
      BY <1>3, <1>4, EntryParts
    <2> QED
      BY <1>3, <1>4, <2>1, FamilyIsFree, StoreParts
  <1> HIDE DEF file0
  <1>6. TokensDiffer' /\ CommandFits' /\ Pairs' = Pairs
    BY <1>1 DEF StoreInv, TokensDiffer, CommandFits, Pairs
  <1>7. told \subseteq Pairs
    BY <1>3, <1>5, ToldTyped
  <1>8. granted' \subseteq Pairs' /\ revoked' \subseteq Pairs'
    BY <1>1, <1>6, <1>7 DEF StoreInv, StoreOK
  <1>9. <<token[file0], p>> \notin revoked'
    BY <1>1, <1>3, <1>5, <1>6, <1>8, ToldTyped
  <1> HIDE DEF told
  <1>10. <<token[Operator], Operator>> \notin revoked'
    BY <1>1 DEF StoreInv, Withheld
  <1>11. CASE config' = Torn
    <2>1. ~Store!Loads'
      BY <1>11 DEF Store!Loads
    <2> QED
      BY <1>1, <1>6, <1>8, <1>10, <2>1 DEF StoreInv, StoreOK, EntriesFit, Withheld
  <1>12. CASE config' = Store!shareProductToken(p, from, file0)
    <2> DEFINE shared == Store!Entry(file0, config[i].products \cup {p})
    <2>1. config' = [j \in DOMAIN config |-> IF config[j].file = from
                                            THEN Store!Entry(file0, config[j].products \cup {p}) ELSE config[j]]
      BY <1>12 DEF Store!shareProductToken
    <2>2. DOMAIN config' = DOMAIN config /\ config'[i] = shared /\ \A j \in DOMAIN config \ {i} : config'[j] = config[j]
      BY <1>4, <2>1
    <2>3. shared \in EntryType /\ shared.file = file0 /\ shared.products = config[i].products \cup {p}
      BY <1>3, <1>5, EntryParts DEF EntryType, Store!Entry
    <2> HIDE DEF shared
    <2>4. config' \in [DOMAIN config' -> EntryType]
      <3>1. \A j \in DOMAIN config : config'[j] \in EntryType
        BY <1>3, <2>2, <2>3, EntryParts
      <3> QED
        BY <2>1, <3>1
    <2>5. StoreOK'
      BY <1>1, <1>3, <1>8, <2>2, <2>4, EntryParts DEF StoreInv, StoreOK
    <2>6. EntriesFit'
      <3>1. \A j \in DOMAIN config : config'[j].file \in StoreProducts => config'[j].products = {config'[j].file}
        BY <1>3, <1>5, <2>2, <2>3, EntryParts
      <3>2. ASSUME NEW j \in DOMAIN config, NEW k \in DOMAIN config, j # k, config'[j].file = config'[k].file
            PROVE  config'[j].file \in StoreProducts
        <4>1. j # i /\ k # i
          BY <1>5, <2>2, <2>3, <3>2
        <4> QED
          BY <1>3, <2>2, <3>2, <4>1, EntryParts
      <3> QED
        BY <2>2, <3>1, <3>2 DEF EntriesFit
    <2>7. ASSUME NEW j \in DOMAIN config, NEW q \in config'[j].products
          PROVE  <<token[config'[j].file], q>> \notin revoked'
      <3>1. CASE j # i
        BY <1>1, <1>3, <2>2, <3>1, EntryParts
      <3>2. CASE j = i /\ q = p
        BY <1>9, <2>2, <2>3, <3>2
      <3>3. CASE j = i /\ q \in config[i].products
        <4>1. config[i].file = from
          BY <1>4
        <4>2. CASE from \in StoreProducts
          BY <1>1, <1>3, <2>2, <2>3, <3>3, <4>1, <4>2, EntryParts
        <4>3. CASE from \notin StoreProducts
          BY <1>1, <1>3, <2>2, <2>3, <3>3, <4>1, <4>3, EntryParts DEF file0
        <4> QED
          BY <4>2, <4>3
      <3> QED
        BY <2>2, <2>3, <3>1, <3>2, <3>3
    <2>8. Withheld'
      BY <1>1, <1>10, <2>2, <2>7 DEF Withheld
    <2> QED
      BY <1>6, <2>5, <2>6, <2>8 DEF StoreInv
  <1> QED
    BY <1>1, <1>11, <1>12

(* A product leaves the configuration. *)
LEMMA RemovedWritten == ASSUME StoreInv, Store!WriteRemoved PROVE StoreInv'
  <1> DEFINE c == storeCommand
             p == storeCommand.product
             gone == {g \in granted : g[2] = p}
  <1>1. /\ c # None /\ c.step = "config" /\ c.op = "remove" /\ UNCHANGED <<token, issued, strayed, storeCuts>>
        /\ config' = Store!removeProductToken(p)
        /\ granted' = (granted \ gone) \cup {} /\ revoked' = (revoked \cup gone) \ {}
        /\ storeCommand' = IF c.file = None THEN None ELSE [c EXCEPT !.step = "file"]
    BY DEF Store!WriteRemoved, Store!At, Store!Report
  <1>2. Store!Loads /\ p \in StoreProducts /\ c \in StoreCommand
    BY <1>1 DEF StoreInv, StoreOK, CommandFits
  <1>3. TokensDiffer' /\ Pairs' = Pairs
    BY <1>1 DEF StoreInv, TokensDiffer, Pairs
  <1>4. granted' \subseteq Pairs' /\ revoked' \subseteq Pairs'
    BY <1>1, <1>3 DEF StoreInv, StoreOK
  <1>5. \A x, q : <<x, q>> \in gone => q = p
    OBVIOUS
  <1> HIDE DEF gone
  <1>6. /\ DOMAIN config' \subseteq DOMAIN config
        /\ \A i \in DOMAIN config' : /\ config'[i] = Store!Entry(config[i].file, config[i].products \ {p})
                                     /\ config[i].products \ {p} # {}
    BY <1>1 DEF Store!removeProductToken
  <1>7. \A i \in DOMAIN config' : /\ config'[i].file = config[i].file /\ config'[i].products = config[i].products \ {p}
                                  /\ config'[i] \in EntryType
    BY <1>2, <1>6, EntryParts DEF Store!Entry, EntryType
  <1>8. config' \in [DOMAIN config' -> EntryType]
    BY <1>1, <1>7 DEF Store!removeProductToken
  <1>9. EntriesFit'
    <2>1. ASSUME NEW i \in DOMAIN config', config'[i].file \in StoreProducts
          PROVE  config'[i].products = {config'[i].file}
      <3>1. config[i].products = {config[i].file} /\ config[i].products \ {p} # {}
        BY <1>2, <1>6, <1>7, <2>1, EntryParts
      <3> QED
        BY <1>7, <3>1
    <2>2. \A i, j \in DOMAIN config' : i # j /\ config'[i].file = config'[j].file => config'[i].file \in StoreProducts
      BY <1>2, <1>6, <1>7, EntryParts
    <2> QED
      BY <2>1, <2>2 DEF EntriesFit
  <1>10. Withheld'
    <2>1. <<token[Operator], Operator>> \notin revoked'
      BY <1>1, <1>2, <1>5, StoreParts DEF StoreInv, Withheld
    <2>2. ASSUME NEW i \in DOMAIN config', NEW q \in config'[i].products
          PROVE  <<token[config'[i].file], q>> \notin revoked'
      BY <1>1, <1>2, <1>5, <1>6, <1>7, EntryParts
    <2> QED
      BY <1>1, <2>1, <2>2 DEF Withheld
  <1>11. DOMAIN config' \subseteq 1..issued
    BY <1>2, <1>6, EntryParts
  <1>12. CASE c.file = None
    <2>1. storeCommand' = None
      BY <1>1, <1>12
    <2>2. StoreOK'
      BY <1>1, <1>4, <1>8, <1>11, <2>1 DEF StoreInv, StoreOK
    <2> QED
      BY <1>3, <1>9, <1>10, <2>1, <2>2 DEF StoreInv, CommandFits
  <1>13. CASE c.file # None
    <2> DEFINE d == [c EXCEPT !.step = "file"]
    <2>1. storeCommand' = d
      BY <1>1, <1>13
    <2>2. d \in StoreCommand /\ d.op = "remove" /\ d.step = "file" /\ d.file \in Store!TokenFiles
      BY <1>1, <1>2, <1>13 DEF StoreCommand
    <2> HIDE DEF d
    <2>3. StoreOK'
      BY <1>1, <1>4, <1>8, <1>11, <2>1, <2>2 DEF StoreInv, StoreOK
    <2>4. CommandFits'
      BY <2>1, <2>2 DEF CommandFits
    <2> QED
      BY <1>3, <1>9, <1>10, <2>3, <2>4 DEF StoreInv
  <1> QED
    BY <1>12, <1>13

(* The file of a product that left goes. *)
LEMMA FileRemoved == ASSUME StoreInv, Store!RemoveFile PROVE StoreInv'
  <1> DEFINE f == storeCommand.file
  <1>1. /\ storeCommand # None /\ storeCommand.step = "file" /\ storeCommand' = None
        /\ token' = [token EXCEPT ![f] = None]
        /\ UNCHANGED <<config, issued, granted, revoked, strayed, storeCuts>>
    BY DEF Store!RemoveFile, Store!At
  <1>2. f \in Store!TokenFiles
    BY <1>1 DEF StoreInv, CommandFits
  <1>3. /\ token'[f] = None /\ \A g \in Store!TokenFiles \ {f} : token'[g] = token[g]
        /\ token' \in [Store!TokenFiles -> 1..issued \cup {None, Torn}]
    BY <1>1, <1>2, StoreParts
  <1>4. TokensDiffer'
    BY <1>3 DEF StoreInv, TokensDiffer
  <1>5. \A x : <<None, x>> \notin revoked
    BY StoreParts
  <1>6. Withheld'
    <2>1. <<token'[Operator], Operator>> \notin revoked
      BY <1>3, <1>5, StoreParts DEF StoreInv, Withheld
    <2>2. ASSUME Store!Loads, NEW i \in DOMAIN config, NEW q \in config[i].products
          PROVE  <<token'[config[i].file], q>> \notin revoked
      BY <1>3, <1>5, <2>2, EntryParts
    <2> QED
      BY <1>1, <2>1, <2>2 DEF Withheld, Store!Loads
  <1>7. StoreOK' /\ EntriesFit' /\ CommandFits'
    BY <1>1, <1>3 DEF StoreInv, StoreOK, EntriesFit, CommandFits, Pairs, Store!Loads
  <1> QED
    BY <1>4, <1>6, <1>7 DEF StoreInv

(* Every step of the store keeps its invariant. *)
LEMMA StoreStep == ASSUME StoreInv, Store!StoreNext PROVE StoreInv'
  <1>1. CASE \/ \E force \in BOOLEAN : Store!runInit(force)
             \/ Store!InstallServe \/ Store!RotateOperator
             \/ \E p \in StoreProducts :
                    \/ \E force \in BOOLEAN : Store!runInitProduct(p, force)
                    \/ Store!RotateProduct(p) \/ Store!runInitRemoveProduct(p)
    BY <1>1, StoreBegins
  <1>2. CASE \E p, with \in StoreProducts : Store!runInitShareProduct(p, with)
    BY <1>2, ShareBegins
  <1>3. CASE Store!writeTokenFile \/ Store!CutShort
    BY <1>3, TokenWritten, StoreIsCut
  <1>4. CASE Store!WriteSkeleton \/ Store!WriteAdded \/ Store!WriteShared \/ Store!WriteRemoved
    BY <1>4, SkeletonWritten, AddedWritten, SharedWritten, RemovedWritten
  <1>5. CASE Store!PromoteFile \/ Store!RemoveFile
    BY <1>5, FilePromoted, FileRemoved
  <1> QED
    BY <1>1, <1>2, <1>3, <1>4, <1>5 DEF Store!StoreNext

-----------------------------------------------------------------------------
(* Steps of the tools. *)

(* What every step of a pipeline does to the files. *)
Grows ==
    /\ replaced \subseteq replaced'
    /\ \A v \in Versions, t \in Tools :
           /\ tool[v][t] # None => tool'[v][t] # None
           /\ replaced' = {} /\ tool[v][t] # None => tool'[v][t] = tool[v][t]
           /\ sig[v][t] # None => sig'[v][t] # None
    /\ \A v \in Versions : manifest[v] # None => manifest'[v] # None

(* Nothing is there yet. *)
LEMMA InitTools == ASSUME Release!ToolsInit PROVE ToolsInv
  <1>1. /\ Release!NoRows \in Release!Rows /\ \A t \in Tools : Release!NoRows[t] = None
        /\ Release!NoRows \in [Tools -> Bodies \cup {None, Torn}]
    BY DEF Release!NoRows, Release!Rows
  <1>2. /\ Release!NoCatalog \in Catalogs /\ Release!NoCatalog.current = None
        /\ \A v \in Versions : Release!NoCatalog.releases[v] = Release!NoRows
    BY <1>1 DEF Release!NoCatalog, Catalogs
  <1>3. Release!Waiting \in PipeType /\ Release!Waiting.at = "waiting"
    BY <1>1, <1>2 DEF Release!Waiting, PipeType
  <1>4. Release!Away \in HostType /\ Release!Away.at = "away"
    BY DEF Release!Away, HostType
  <1>5. ToolsOK
    BY <1>1, <1>2, <1>3, <1>4 DEF Release!ToolsInit, ToolsOK
  <1>6. SignedFits /\ CatalogFits(catalog)
    BY <1>1, <1>2, RecordsAssumption DEF Release!ToolsInit, SignedFits, CatalogFits
  <1>7. (\A p \in Pipelines : PipeFits(pipe[p])) /\ HostFits
    BY <1>3, <1>4 DEF Release!ToolsInit, PipeFits, HostFits, Release!HostGetsTool
  <1> QED
    BY <1>5, <1>6, <1>7 DEF ToolsInv

(* What a pipeline relies on stays when another one goes on. *)
LEMMA PipeStays ==
    ASSUME Grows, NEW q \in PipeType, PipeFits(q)
    PROVE  PipeFits(q)'
  <1>1. CatalogFits(q.read) => CatalogFits(q.read)'
    BY DEF CatalogFits, Grows
  <1>2. q.name \in q.todo => q.name \in Tools
    BY DEF PipeType
  <1> QED
    BY <1>1, <1>2 DEF PipeFits, Grows

(* So does what a host relies on. *)
LEMMA HostStays ==
    ASSUME ToolsInv, Grows, UNCHANGED host
    PROVE  HostFits'
  <1>1. HostFits /\ host \in HostType
    BY DEF ToolsInv, ToolsOK
  <1>2. replaced' = {} => replaced = {}
    BY DEF Grows
  <1>3. Release!HostGetsTool'
    BY <1>1, <1>2 DEF HostFits, Release!HostGetsTool
  <1>4. host.at = "again" \/ (host.at = "verify" /\ ~host.moved) =>
           /\ sig'[host.version][host.tool] # None
           /\ replaced' = {} => host.body = tool'[host.version][host.tool]
    BY <1>1, <1>2 DEF HostFits, Grows
  <1>5. \A v \in Versions : manifest[v] # None => manifest'[v] # None
    BY DEF Grows
  <1> QED
    BY <1>1, <1>3, <1>4, <1>5 DEF HostFits

(* One pipeline moves to q. *)
LEMMA PipeMoves ==
    ASSUME ToolsInv, Grows, NEW p \in Pipelines, NEW q \in PipeType,
           pipe' = [pipe EXCEPT ![p] = q], UNCHANGED host,
           tool' \in [Versions -> Release!Rows],
           sig' \in [Versions -> [Tools -> Bodies \cup {None, Torn}]],
           manifest' \in [Versions -> Release!Rows \cup {None, Torn}],
           catalog' \in Catalogs,
           SignedFits', CatalogFits(catalog)', PipeFits(q)'
    PROVE  ToolsInv'
  <1>1. pipe \in [Pipelines -> PipeType] /\ host \in HostType
    BY DEF ToolsInv, ToolsOK
  <1>2. ToolsOK'
    BY <1>1 DEF ToolsOK
  <1>3. pipe'[p] = q /\ \A r \in Pipelines \ {p} : pipe'[r] = pipe[r]
    BY <1>1
  <1>4. ASSUME NEW r \in Pipelines
        PROVE  PipeFits(pipe[r])'
    <2>1. CASE r = p
      BY <1>3, <2>1 DEF PipeFits, CatalogFits
    <2>2. CASE r # p
      <3>1. PipeFits(pipe[r]) /\ pipe[r] \in PipeType
        BY <1>1 DEF ToolsInv
      <3>2. PICK k \in PipeType : k = pipe[r]
        BY <3>1
      <3>3. PipeFits(k)'
        BY <3>1, <3>2, PipeStays
      <3> QED
        BY <1>3, <2>2, <3>2, <3>3 DEF PipeFits, CatalogFits
    <2> QED
      BY <2>1, <2>2
  <1>5. HostFits'
    BY HostStays
  <1> QED
    BY <1>2, <1>4, <1>5 DEF ToolsInv

(* One pipeline moves to q and writes nothing. *)
LEMMA PipeTurns ==
    ASSUME ToolsInv, NEW p \in Pipelines, NEW q \in PipeType,
           pipe' = [pipe EXCEPT ![p] = q], PipeFits(q),
           UNCHANGED <<tool, sig, manifest, catalog, host, replaced>>
    PROVE  ToolsInv'
  <1>1. Grows
    BY DEF Grows
  <1>2. PipeFits(q)'
    BY <1>1, PipeStays
  <1>3. ToolsOK /\ SignedFits' /\ CatalogFits(catalog)'
    BY DEF ToolsInv, SignedFits, CatalogFits
  <1> QED
    BY <1>1, <1>2, <1>3, PipeMoves DEF ToolsOK

(* A pipeline that is over. *)
LEMMA PipeOver ==
    /\ Release!Ended \in PipeType /\ Release!Ended.at = "ended"
    /\ PipeFits(Release!Ended)
  <1>1. /\ Release!NoRows \in Release!Rows /\ Release!NoCatalog \in Catalogs
    BY DEF Release!NoRows, Release!Rows, Release!NoCatalog, Catalogs
  <1>2. Release!Ended \in PipeType /\ Release!Ended.at = "ended"
    BY <1>1 DEF Release!Ended, Release!Waiting, PipeType
  <1> QED
    BY <1>2 DEF PipeFits

(* The steps of a pipeline that write nothing. *)
LEMMA PipeLooks ==
    ASSUME ToolsInv, NEW p \in Pipelines,
           \/ Release!BeginPipeline(p) \/ Release!StatTool(p) \/ Release!BeginPublish(p)
           \/ Release!HashTool(p) \/ Release!LoadCatalog(p) \/ Release!PipelineFails(p)
    PROVE  ToolsInv'
  <1>t. /\ pipe \in [Pipelines -> PipeType] /\ PipeFits(pipe[p]) /\ catalog \in Catalogs
        /\ CatalogFits(catalog)
    BY DEF ToolsInv, ToolsOK
  <1>0. UNCHANGED <<tool, sig, manifest, catalog, host, replaced>>
    BY DEF Release!BeginPipeline, Release!StatTool, Release!BeginPublish, Release!HashTool,
           Release!LoadCatalog, Release!PipelineFails
  <1>1. CASE pipe' = [pipe EXCEPT ![p] = Release!Ended]
    BY <1>0, <1>1, PipeOver, PipeTurns
  <1>2. CASE Release!BeginPipeline(p)
    <2>1. PICK v \in Versions, build \in Release!Rows :
             pipe' = [pipe EXCEPT ![p] =
                 [Release!Waiting EXCEPT !.at = "upload", !.version = v, !.build = build,
                                         !.todo = Release!Built(build)]]
      BY <1>2 DEF Release!BeginPipeline
    <2>2. PICK q : q = [Release!Waiting EXCEPT !.at = "upload", !.version = v, !.build = build,
                                               !.todo = Release!Built(build)]
      OBVIOUS
    <2>3. /\ Release!NoRows \in Release!Rows /\ Release!NoCatalog \in Catalogs
          /\ \A t \in Tools : Release!NoRows[t] = None
      BY DEF Release!NoRows, Release!Rows, Release!NoCatalog, Catalogs
    <2>4. /\ q \in PipeType /\ q.at = "upload" /\ q.version = v /\ q.build = build
          /\ q.todo = Release!Built(build) /\ q.rows = Release!NoRows
      BY <2>2, <2>3 DEF Release!Waiting, PipeType, Release!Built
    <2>5. PipeFits(q)
      BY <2>3, <2>4 DEF PipeFits, Release!Built
    <2> QED
      BY <1>0, <2>1, <2>2, <2>4, <2>5, PipeTurns
  <1>3. CASE Release!StatTool(p) /\ pipe' # [pipe EXCEPT ![p] = Release!Ended]
    <2>1. PICK t \in pipe[p].todo :
             \/ pipe' = [pipe EXCEPT ![p] = [pipe[p] EXCEPT !.at = "receive", !.name = t]]
             \/ pipe' = [pipe EXCEPT ![p] = [pipe[p] EXCEPT !.todo = @ \ {t}]]
      BY <1>3 DEF Release!StatTool
    <2>2. pipe[p].at = "upload"
      BY <1>3 DEF Release!StatTool
    <2>3. CASE pipe' = [pipe EXCEPT ![p] = [pipe[p] EXCEPT !.at = "receive", !.name = t]]
      <3>1. PICK q : q = [pipe[p] EXCEPT !.at = "receive", !.name = t]
        OBVIOUS
      <3>2. /\ q \in PipeType /\ q.at = "receive" /\ q.name = t /\ q.version = pipe[p].version
            /\ q.build = pipe[p].build /\ q.todo = pipe[p].todo /\ q.rows = pipe[p].rows
        BY <1>t, <2>1, <3>1 DEF PipeType
      <3>3. PipeFits(q)
        BY <1>t, <2>1, <2>2, <3>2 DEF PipeFits
      <3> QED
        BY <1>0, <2>3, <3>1, <3>2, <3>3, PipeTurns
    <2>4. CASE pipe' = [pipe EXCEPT ![p] = [pipe[p] EXCEPT !.todo = @ \ {t}]]
      <3>1. PICK q : q = [pipe[p] EXCEPT !.todo = @ \ {t}]
        OBVIOUS
      <3>2. /\ q \in PipeType /\ q.at = "upload" /\ q.version = pipe[p].version
            /\ q.build = pipe[p].build /\ q.todo = pipe[p].todo \ {t} /\ q.rows = pipe[p].rows
        BY <1>t, <2>2, <3>1 DEF PipeType
      <3>3. PipeFits(q)
        BY <1>t, <2>2, <3>2 DEF PipeFits
      <3> QED
        BY <1>0, <2>4, <3>1, <3>2, <3>3, PipeTurns
    <2> QED
      BY <2>1, <2>3, <2>4
  <1>4. CASE Release!BeginPublish(p)
    <2>1. PICK q : q = [pipe[p] EXCEPT !.at = "hash", !.todo = Release!Built(pipe[p].build)]
      OBVIOUS
    <2>2. pipe[p].at = "upload" /\ pipe' = [pipe EXCEPT ![p] = q]
      BY <1>4, <1>t, <2>1 DEF Release!BeginPublish, PipeType
    <2>3. /\ q \in PipeType /\ q.at = "hash" /\ q.version = pipe[p].version
          /\ q.build = pipe[p].build /\ q.todo = Release!Built(q.build)
          /\ q.rows = pipe[p].rows
      BY <1>t, <2>1 DEF PipeType, Release!Built
    <2>4. PipeFits(q)
      BY <1>t, <2>2, <2>3 DEF PipeFits, Release!Built
    <2> QED
      BY <1>0, <2>2, <2>3, <2>4, PipeTurns
  <1>5. CASE Release!HashTool(p) /\ pipe' # [pipe EXCEPT ![p] = Release!Ended]
    <2>1. PICK t \in pipe[p].todo :
             /\ tool[pipe[p].version][t] = pipe[p].build[t]
             /\ pipe' = [pipe EXCEPT ![p] = [pipe[p] EXCEPT !.at = "sign", !.name = t]]
      BY <1>5 DEF Release!HashTool
    <2>2. pipe[p].at = "hash"
      BY <1>5 DEF Release!HashTool
    <2>3. PICK q : q = [pipe[p] EXCEPT !.at = "sign", !.name = t]
      OBVIOUS
    <2>4. /\ q \in PipeType /\ q.at = "sign" /\ q.name = t /\ q.version = pipe[p].version
          /\ q.build = pipe[p].build /\ q.todo = pipe[p].todo /\ q.rows = pipe[p].rows
      BY <1>t, <2>1, <2>3 DEF PipeType
    <2>5. PipeFits(q)
      BY <1>t, <2>1, <2>2, <2>4 DEF PipeFits
    <2> QED
      BY <1>0, <2>1, <2>3, <2>4, <2>5, PipeTurns
  <1>6. CASE Release!LoadCatalog(p)
    <2>1. PICK q : q = [pipe[p] EXCEPT !.at = "merge", !.read = catalog]
      OBVIOUS
    <2>2. pipe[p].at = "catalog" /\ pipe' = [pipe EXCEPT ![p] = q]
      BY <1>6, <1>t, <2>1 DEF Release!LoadCatalog, PipeType
    <2>3. /\ q \in PipeType /\ q.at = "merge" /\ q.version = pipe[p].version
          /\ q.build = pipe[p].build /\ q.todo = pipe[p].todo /\ q.rows = pipe[p].rows
          /\ q.read = catalog
      BY <1>t, <2>1 DEF PipeType
    <2>4. PipeFits(q)
      BY <1>t, <2>2, <2>3 DEF PipeFits
    <2> QED
      BY <1>0, <2>2, <2>3, <2>4, PipeTurns
  <1>7. CASE Release!PipelineFails(p)
    BY <1>1, <1>7 DEF Release!PipelineFails
  <1> QED
    BY <1>1, <1>2, <1>3, <1>4, <1>5, <1>6, <1>7

(* A file is renamed into place. *)
LEMMA ToolPut ==
    ASSUME ToolsInv, NEW p \in Pipelines, Release!PutTool(p)
    PROVE  ToolsInv'
  <1>t. /\ pipe \in [Pipelines -> PipeType] /\ PipeFits(pipe[p]) /\ SignedFits
        /\ tool \in [Versions -> Release!Rows]
    BY DEF ToolsInv, ToolsOK
  <1>1. PICK v \in Versions, t \in Tools, b \in Bodies :
           /\ v = pipe[p].version /\ t = pipe[p].name /\ b = pipe[p].build[t]
           /\ t \in pipe[p].todo
    <2>1. pipe[p].at = "receive"
      BY DEF Release!PutTool
    <2> QED
      BY <1>t, <2>1 DEF PipeFits, PipeType, Release!Rows
  <1>b. b # None
    BY RecordsAssumption
  <1>2. /\ tool' = [tool EXCEPT ![v][t] = b] /\ UNCHANGED <<sig, manifest, catalog, host>>
        /\ replaced' = IF tool[v][t] \in {None, b} THEN replaced
                       ELSE replaced \cup {<<v, t>>}
    BY <1>1 DEF Release!PutTool
  <1>3. /\ tool' \in [Versions -> Release!Rows]
        /\ tool'[v][t] = b
        /\ \A w \in Versions, u \in Tools : <<w, u>> # <<v, t>> => tool'[w][u] = tool[w][u]
    BY <1>t, <1>2 DEF Release!Rows
  <1>4. /\ replaced \subseteq replaced'
        /\ replaced' = {} => replaced = {} /\ tool[v][t] \in {None, b}
    BY <1>2
  <1>5. Grows
    BY <1>b, <1>2, <1>3, <1>4 DEF Grows
  <1>6. SignedFits'
    BY <1>t, <1>2, <1>3, <1>4, <1>5 DEF SignedFits, Grows
  <1>7. PICK q : q = [pipe[p] EXCEPT !.at = "upload", !.todo = @ \ {t}]
    OBVIOUS
  <1>8. pipe' = [pipe EXCEPT ![p] = q]
    BY <1>t, <1>1, <1>7 DEF Release!PutTool, PipeType
  <1>9. /\ q \in PipeType /\ q.at = "upload" /\ q.version = pipe[p].version
        /\ q.build = pipe[p].build /\ q.todo = pipe[p].todo \ {t} /\ q.rows = pipe[p].rows
    BY <1>t, <1>7 DEF PipeType
  <1>10. PipeFits(q)
    <2>1. pipe[p].at = "receive"
      BY DEF Release!PutTool
    <2> QED
      BY <1>t, <1>9, <2>1 DEF PipeFits
  <1>11. PipeFits(q)' /\ CatalogFits(catalog)' /\ ToolsOK
    BY <1>2, <1>5, <1>9, <1>10, PipeStays DEF ToolsInv, CatalogFits
  <1> QED
    BY <1>2, <1>3, <1>5, <1>6, <1>8, <1>9, <1>11, PipeMoves DEF ToolsOK

(* A file is read once more and signed. *)
LEMMA ToolSigned ==
    ASSUME ToolsInv, NEW p \in Pipelines, Release!SignTool(p)
    PROVE  ToolsInv'
  <1>t. /\ pipe \in [Pipelines -> PipeType] /\ PipeFits(pipe[p]) /\ SignedFits
        /\ tool \in [Versions -> Release!Rows] /\ pipe[p].at = "sign"
        /\ sig \in [Versions -> [Tools -> Bodies \cup {None, Torn}]]
    BY DEF ToolsInv, ToolsOK, Release!SignTool
  <1>1. PICK v \in Versions, t \in Tools :
           v = pipe[p].version /\ t = pipe[p].name /\ t \in pipe[p].todo
    BY <1>t DEF PipeFits, PipeType
  <1>2. /\ sig' = [sig EXCEPT ![v][t] = Torn]
        /\ UNCHANGED <<tool, manifest, catalog, host, replaced>>
    BY <1>1 DEF Release!SignTool
  <1>3. /\ sig' \in [Versions -> [Tools -> Bodies \cup {None, Torn}]]
        /\ sig'[v][t] = Torn
        /\ \A w \in Versions, u \in Tools : <<w, u>> # <<v, t>> => sig'[w][u] = sig[w][u]
    BY <1>t, <1>2
  <1>5. Grows
    BY <1>2, <1>3, KeysAssumption DEF Grows
  <1>6. SignedFits'
    BY <1>t, <1>2, <1>3, KeysAssumption DEF SignedFits
  <1>r. PICK rows : rows = [pipe[p].rows EXCEPT ![t] = tool[v][t]]
    OBVIOUS
  <1>10. /\ rows \in Release!Rows /\ rows[t] = tool[v][t]
         /\ \A u \in Tools \ {t} : rows[u] = pipe[p].rows[u]
    <2>1. pipe[p].rows \in Release!Rows
      BY <1>t DEF PipeType
    <2>2. tool[v][t] \in Bodies \cup {None}
      BY <1>t DEF Release!Rows
    <2> QED
      BY <1>r, <2>1, <2>2 DEF Release!Rows
  <1>7. PICK q : q = [pipe[p] EXCEPT !.at = "signed", !.rows = rows]
    OBVIOUS
  <1>8. pipe' = [pipe EXCEPT ![p] = q]
    BY <1>t, <1>r, <1>1, <1>7 DEF Release!SignTool, PipeType
  <1>9. /\ q \in PipeType /\ q.at = "signed" /\ q.version = v /\ q.name = t
        /\ q.build = pipe[p].build /\ q.todo = pipe[p].todo /\ q.rows = rows
    BY <1>t, <1>1, <1>7, <1>10 DEF PipeType
  <1>11. PipeFits(q)'
    BY <1>t, <1>1, <1>2, <1>3, <1>5, <1>9, <1>10, KeysAssumption DEF PipeFits, Grows
  <1>12. CatalogFits(catalog)' /\ ToolsOK
    BY <1>2 DEF ToolsInv, CatalogFits
  <1> QED
    BY <1>2, <1>3, <1>5, <1>6, <1>8, <1>9, <1>11, <1>12, PipeMoves DEF ToolsOK

(* The signature is complete. *)
LEMMA SignatureWritten ==
    ASSUME ToolsInv, NEW p \in Pipelines, Release!WriteSignature(p)
    PROVE  ToolsInv'
  <1>t. /\ pipe \in [Pipelines -> PipeType] /\ PipeFits(pipe[p]) /\ SignedFits
        /\ pipe[p].at = "signed"
        /\ sig \in [Versions -> [Tools -> Bodies \cup {None, Torn}]]
    BY DEF ToolsInv, ToolsOK, Release!WriteSignature
  <1>1. PICK v \in Versions, t \in Tools, b \in Bodies :
           /\ v = pipe[p].version /\ t = pipe[p].name /\ t \in pipe[p].todo
           /\ b = pipe[p].rows[t] /\ (replaced = {} => b = tool[v][t])
    BY <1>t DEF PipeFits, PipeType, Release!Rows
  <1>2. /\ sig' = [sig EXCEPT ![v][t] = b]
        /\ UNCHANGED <<tool, manifest, catalog, host, replaced>>
    BY <1>1 DEF Release!WriteSignature
  <1>3. /\ sig' \in [Versions -> [Tools -> Bodies \cup {None, Torn}]]
        /\ sig'[v][t] = b /\ b # None
        /\ \A w \in Versions, u \in Tools : <<w, u>> # <<v, t>> => sig'[w][u] = sig[w][u]
    BY <1>t, <1>2, RecordsAssumption
  <1>5. Grows
    BY <1>2, <1>3 DEF Grows
  <1>6. SignedFits'
    BY <1>t, <1>1, <1>2, <1>3 DEF SignedFits
  <1>7. PICK q : q = [pipe[p] EXCEPT !.at = "hash", !.todo = @ \ {t}]
    OBVIOUS
  <1>8. pipe' = [pipe EXCEPT ![p] = q]
    BY <1>t, <1>1, <1>7 DEF Release!WriteSignature, PipeType
  <1>9. /\ q \in PipeType /\ q.at = "hash" /\ q.version = v
        /\ q.build = pipe[p].build /\ q.todo = pipe[p].todo \ {t} /\ q.rows = pipe[p].rows
    BY <1>t, <1>1, <1>7 DEF PipeType
  <1>10. PipeFits(q)
    BY <1>t, <1>1, <1>9 DEF PipeFits
  <1>11. PipeFits(q)' /\ CatalogFits(catalog)' /\ ToolsOK
    BY <1>2, <1>5, <1>9, <1>10, PipeStays DEF ToolsInv, CatalogFits
  <1> QED
    BY <1>2, <1>3, <1>5, <1>6, <1>8, <1>9, <1>11, PipeMoves DEF ToolsOK

(* The manifest is overwritten, in two steps. *)
LEMMA ManifestWritten ==
    ASSUME ToolsInv, NEW p \in Pipelines,
           Release!SignManifest(p) \/ Release!WriteManifest(p)
    PROVE  ToolsInv'
  <1>t. /\ pipe \in [Pipelines -> PipeType] /\ PipeFits(pipe[p]) /\ SignedFits
        /\ manifest \in [Versions -> Release!Rows \cup {None, Torn}] /\ CatalogFits(catalog)
        /\ pipe[p].at \in {"hash", "manifest"}
    BY DEF ToolsInv, ToolsOK, Release!SignManifest, Release!WriteManifest
  <1>1. PICK v \in Versions, rows \in Release!Rows :
           v = pipe[p].version /\ rows = pipe[p].rows
    BY <1>t DEF PipeFits, PipeType
  <1>2. PICK at \in {"manifest", "catalog"}, m \in {Torn, rows} :
           /\ manifest' = [manifest EXCEPT ![v] = m]
           /\ pipe' = [pipe EXCEPT ![p] = [pipe[p] EXCEPT !.at = at]]
    BY <1>t, <1>1 DEF Release!SignManifest, Release!WriteManifest, PipeType
  <1>3. UNCHANGED <<tool, sig, catalog, host, replaced>>
    BY DEF Release!SignManifest, Release!WriteManifest
  <1>4. m # None /\ m \in Release!Rows \cup {Torn}
    BY <1>1, RecordsAssumption, KeysAssumption
  <1>5. /\ manifest' \in [Versions -> Release!Rows \cup {None, Torn}]
        /\ manifest'[v] = m /\ \A w \in Versions \ {v} : manifest'[w] = manifest[w]
    BY <1>t, <1>2, <1>4
  <1>6. Grows
    BY <1>3, <1>4, <1>5 DEF Grows
  <1>7. SignedFits'
    <2>1. m # Torn => \A t \in Tools : m[t] # None =>
              sig[v][t] # None /\ (replaced = {} => m[t] = tool[v][t])
      BY <1>t, <1>1, <1>2 DEF PipeFits
    <2> QED
      BY <1>t, <1>3, <1>5, <2>1 DEF SignedFits
  <1>8. PICK q : q = [pipe[p] EXCEPT !.at = at]
    OBVIOUS
  <1>9. /\ q \in PipeType /\ q.at = at /\ q.version = v
        /\ q.build = pipe[p].build /\ q.todo = pipe[p].todo /\ q.rows = pipe[p].rows
    BY <1>t, <1>1, <1>8 DEF PipeType
  <1>10. PipeFits(q)'
    BY <1>t, <1>1, <1>3, <1>4, <1>5, <1>9 DEF PipeFits
  <1>11. CatalogFits(catalog)' /\ ToolsOK
    BY <1>t, <1>3, <1>6 DEF ToolsInv, CatalogFits, Grows
  <1> QED
    BY <1>2, <1>3, <1>5, <1>6, <1>7, <1>8, <1>9, <1>10, <1>11, PipeMoves DEF ToolsOK

(* The catalog is replaced. *)
LEMMA CatalogWritten ==
    ASSUME ToolsInv, NEW p \in Pipelines, Release!WriteCatalog(p)
    PROVE  ToolsInv'
  <1>t. /\ pipe \in [Pipelines -> PipeType] /\ PipeFits(pipe[p]) /\ pipe[p].at = "merge"
    BY DEF ToolsInv, ToolsOK, Release!WriteCatalog
  <1>1. PICK v \in Versions, rows \in Release!Rows, read \in Catalogs :
           v = pipe[p].version /\ rows = pipe[p].rows /\ read = pipe[p].read
    BY <1>t DEF PipeFits, PipeType
  <1>2. CatalogFits(read) /\ manifest[v] # None
    BY <1>t, <1>1 DEF PipeFits
  <1>3. PICK c : c = [current |-> v, releases |-> [read.releases EXCEPT ![v] = rows]]
    OBVIOUS
  <1>4. /\ c \in Catalogs /\ c.current = v /\ c.releases[v] = rows
        /\ \A w \in Versions \ {v} : c.releases[w] = read.releases[w]
    BY <1>1, <1>3 DEF Catalogs
  <1>5. CatalogFits(c)
    BY <1>2, <1>4 DEF CatalogFits
  <1>6. /\ catalog' = c /\ pipe' = [pipe EXCEPT ![p] = Release!Ended]
        /\ UNCHANGED <<tool, sig, manifest, host, replaced>>
    BY <1>1, <1>3 DEF Release!WriteCatalog
  <1>7. CatalogFits(catalog)' /\ SignedFits' /\ ToolsOK
    BY <1>5, <1>6 DEF ToolsInv, CatalogFits, SignedFits
  <1>8. Grows
    BY <1>6 DEF Grows
  <1>9. PICK q \in PipeType : q = Release!Ended /\ q.at = "ended"
    BY PipeOver
  <1>10. PipeFits(q)'
    BY <1>9 DEF PipeFits
  <1> QED
    BY <1>4, <1>6, <1>7, <1>8, <1>9, <1>10, PipeMoves DEF ToolsOK

(* A host goes on: the files stay. *)
LEMMA HostMoves ==
    ASSUME ToolsInv, host' \in HostType, HostFits',
           UNCHANGED <<tool, sig, manifest, catalog, pipe, replaced>>
    PROVE  ToolsInv'
  <1>1. ToolsOK'
    BY DEF ToolsInv, ToolsOK
  <1>2. SignedFits' /\ CatalogFits(catalog)'
    BY DEF ToolsInv, SignedFits, CatalogFits
  <1>3. \A p \in Pipelines : PipeFits(pipe[p])'
    BY DEF ToolsInv, PipeFits, CatalogFits
  <1> QED
    BY <1>1, <1>2, <1>3 DEF ToolsInv

(* A host asks which version is the current one. *)
LEMMA HostResolves ==
    ASSUME ToolsInv, Release!Resolve
    PROVE  ToolsInv'
  <1>t. /\ host \in HostType /\ HostFits /\ CatalogFits(catalog) /\ catalog \in Catalogs
        /\ host.at \in {"resolve", "again"}
        /\ UNCHANGED <<tool, sig, manifest, catalog, pipe, replaced>>
    BY DEF ToolsInv, ToolsOK, Release!Resolve
  <1>1. CASE host' = Release!Away
    <2>1. Release!Away \in HostType /\ Release!Away.at = "away"
      BY DEF Release!Away, HostType
    <2>2. host' \in HostType /\ HostFits'
      BY <1>1, <2>1 DEF HostFits, Release!HostGetsTool
    <2> QED
      BY <1>t, <2>2, HostMoves
  <1>2. CASE host' # Release!Away
    <2>1. PICK v \in Versions :
             /\ v = IF host.pinned = None THEN catalog.current ELSE host.pinned
             /\ host' = [host EXCEPT !.at = IF host.at = "resolve" THEN "get" ELSE "verify",
                                     !.version = v,
                                     !.moved = host.body # None /\ host.version # v]
      BY <1>t, <1>2 DEF Release!Resolve, Release!Resolved, HostType, Catalogs
    <2>2. manifest[v] # None
      BY <1>t, <2>1 DEF HostFits, CatalogFits
    <2>3. PICK to : to = [host EXCEPT !.at = IF host.at = "resolve" THEN "get" ELSE "verify",
                                      !.version = v,
                                      !.moved = host.body # None /\ host.version # v]
      OBVIOUS
    <2>4. /\ to \in HostType /\ to.version = v /\ to.tool = host.tool /\ to.body = host.body
          /\ to.pinned = host.pinned
          /\ to.at = IF host.at = "resolve" THEN "get" ELSE "verify"
      BY <1>t, <2>3 DEF HostType
    <2>5. to.moved <=> (host.body # None /\ host.version # v)
      BY <1>t, <2>3 DEF HostType
    <2>6. HostFits'
      BY <1>t, <2>1, <2>2, <2>3, <2>4, <2>5 DEF HostFits, Release!HostGetsTool
    <2> QED
      BY <1>t, <2>1, <2>3, <2>4, <2>6, HostMoves
  <1> QED
    BY <1>1, <1>2

(* A host fetches the file, then its signature, which it verifies. *)
LEMMA HostReads ==
    ASSUME ToolsInv, Release!Serve \/ Release!VerifyTool
    PROVE  ToolsInv'
  <1>t. /\ host \in HostType /\ HostFits /\ SignedFits /\ host.at \in {"get", "verify"}
        /\ tool \in [Versions -> Release!Rows]
        /\ manifest \in [Versions -> Release!Rows \cup {None, Torn}]
        /\ sig \in [Versions -> [Tools -> Bodies \cup {None, Torn}]]
        /\ UNCHANGED <<tool, sig, manifest, catalog, pipe, replaced>>
    BY DEF ToolsInv, ToolsOK, Release!Serve, Release!VerifyTool
  <1>1. PICK v \in Versions, t \in Tools :
           v = host.version /\ t = host.tool /\ manifest[v] # None
    BY <1>t DEF HostFits
  <1>f. /\ Release!Failed \in HostType /\ Release!Failed.at = "failed"
        /\ Release!Failed.moved = host.moved
        /\ [Release!Failed EXCEPT !.torn = TRUE] \in HostType
        /\ [Release!Failed EXCEPT !.torn = TRUE].at = "failed"
        /\ [Release!Failed EXCEPT !.torn = TRUE].torn
    BY <1>t DEF Release!Failed, HostType
  <1>a. Release!Away \in HostType /\ Release!Away.at = "away"
    BY DEF Release!Away, HostType
  <1>2. CASE host' = Release!Away \/ host' = [Release!Failed EXCEPT !.torn = TRUE]
    <2>1. host' \in HostType /\ HostFits'
      BY <1>a, <1>f, <1>2 DEF HostFits, Release!HostGetsTool
    <2> QED
      BY <1>t, <2>1, HostMoves
  <1>3. ASSUME host' = Release!Failed, host.moved \/ replaced # {}
        PROVE  ToolsInv'
    <2>1. host' \in HostType /\ HostFits'
      BY <1>t, <1>f, <1>3 DEF HostFits, Release!HostGetsTool
    <2> QED
      BY <1>t, <2>1, HostMoves
  <1>4. ASSUME manifest[v] # Torn, manifest[v][t] # None
        PROVE  /\ sig[v][t] # None
               /\ replaced = {} => manifest[v][t] = tool[v][t]
                                   /\ sig[v][t] \in {Torn, tool[v][t]}
    BY <1>t, <1>1, <1>4 DEF SignedFits
  <1>5. CASE Release!Serve
    <2>1. host.at = "get"
      BY <1>5 DEF Release!Serve
    <2>2. \/ host' = Release!Away \/ host' = [Release!Failed EXCEPT !.torn = TRUE]
          \/ /\ manifest[v] # Torn /\ manifest[v][t] # None
             /\ \/ tool[v][t] # manifest[v][t] /\ host' = Release!Failed
                \/ /\ tool[v][t] = manifest[v][t]
                   /\ host' = [host EXCEPT !.at = "again", !.body = tool[v][t]]
      BY <1>1, <1>5 DEF Release!Serve, Release!Asked
    <2>3. ASSUME manifest[v] # Torn, manifest[v][t] # None, tool[v][t] = manifest[v][t],
                 host' = [host EXCEPT !.at = "again", !.body = tool[v][t]]
          PROVE  ToolsInv'
      <3>1. PICK to : to = [host EXCEPT !.at = "again", !.body = tool[v][t]]
        OBVIOUS
      <3>2. tool[v][t] \in Bodies \cup {None}
        BY <1>t DEF Release!Rows
      <3>3. /\ to \in HostType /\ to.at = "again" /\ to.body = tool[v][t] /\ to.version = v
            /\ to.tool = t /\ to.pinned = host.pinned
        BY <1>t, <1>1, <3>1, <3>2 DEF HostType
      <3>4. HostFits'
        BY <1>t, <1>1, <1>4, <2>1, <2>3, <3>1, <3>3 DEF HostFits, Release!HostGetsTool
      <3> QED
        BY <1>t, <2>3, <3>1, <3>3, <3>4, HostMoves
    <2> QED
      BY <1>2, <1>3, <1>4, <2>2, <2>3
  <1>6. CASE Release!VerifyTool
    <2>1. host.at = "verify"
      BY <1>6 DEF Release!VerifyTool
    <2>2. \/ host' = Release!Away \/ host' = [Release!Failed EXCEPT !.torn = TRUE]
          \/ /\ sig[v][t] # Torn
             /\ \/ sig[v][t] # host.body /\ host' = Release!Failed
                \/ host' = [host EXCEPT !.at = "run"]
          \/ manifest[v] = None
      BY <1>1, <1>6 DEF Release!VerifyTool, Release!Asked
    <2>3. ASSUME sig[v][t] # Torn, sig[v][t] # host.body
          PROVE  host.moved \/ replaced # {}
      BY <1>t, <1>1, <2>1, <2>3 DEF HostFits, SignedFits
    <2>4. CASE host' = [host EXCEPT !.at = "run"]
      <3>1. host' \in HostType /\ host'.at = "run"
        BY <1>t, <2>4 DEF HostType
      <3>2. HostFits'
        BY <3>1 DEF HostFits, Release!HostGetsTool
      <3> QED
        BY <1>t, <3>1, <3>2, HostMoves
    <2> QED
      BY <1>1, <1>2, <1>3, <2>2, <2>3, <2>4
  <1> QED
    BY <1>5, <1>6

(* A host begins to fetch a tool, or is done. *)
LEMMA HostTurns ==
    ASSUME ToolsInv, Release!BeginFetch \/ Release!FetchEnds
    PROVE  ToolsInv'
  <1>t. /\ CatalogFits(catalog)
        /\ UNCHANGED <<tool, sig, manifest, catalog, pipe, replaced>>
    BY DEF ToolsInv, Release!BeginFetch, Release!FetchEnds
  <1>a. /\ Release!Away \in HostType /\ Release!Away.at = "away"
        /\ Release!Away.body = None
    BY DEF Release!Away, HostType
  <1>1. CASE Release!FetchEnds
    <2>1. host' \in HostType /\ HostFits'
      BY <1>1, <1>a DEF HostFits, Release!HostGetsTool, Release!FetchEnds
    <2> QED
      BY <1>t, <2>1, HostMoves
  <1>2. CASE Release!BeginFetch
    <2>1. PICK t \in Tools, v \in Versions \cup {None} :
             /\ v # None => v \in Versions /\ catalog.releases[v][t] # None
             /\ host' = [Release!Away EXCEPT !.at = "resolve", !.tool = t, !.pinned = v]
      BY <1>2, RecordsAssumption DEF Release!BeginFetch
    <2>2. /\ host' \in HostType /\ host'.at = "resolve" /\ host'.tool = t /\ host'.pinned = v
          /\ host'.body = None
      BY <2>1 DEF Release!Away, HostType
    <2>3. v # None => manifest[v] # None
      BY <1>t, <2>1 DEF CatalogFits
    <2>4. HostFits'
      BY <1>t, <2>1, <2>2, <2>3 DEF HostFits, Release!HostGetsTool
    <2> QED
      BY <1>t, <2>2, <2>4, HostMoves
  <1> QED
    BY <1>1, <1>2

(* Every step of the tools keeps their invariant. *)
LEMMA ToolsStep == ASSUME ToolsInv, Release!ToolsNext PROVE ToolsInv'
  <1>1. ASSUME NEW p \in Pipelines,
               \/ Release!BeginPipeline(p) \/ Release!StatTool(p) \/ Release!PutTool(p)
               \/ Release!BeginPublish(p) \/ Release!HashTool(p) \/ Release!SignTool(p)
               \/ Release!WriteSignature(p) \/ Release!SignManifest(p)
               \/ Release!WriteManifest(p) \/ Release!LoadCatalog(p)
               \/ Release!WriteCatalog(p) \/ Release!PipelineFails(p)
        PROVE  ToolsInv'
    BY <1>1, PipeLooks, ToolPut, ToolSigned, SignatureWritten, ManifestWritten, CatalogWritten
  <1>2. CASE \/ Release!BeginFetch \/ Release!Resolve \/ Release!Serve
             \/ Release!VerifyTool \/ Release!FetchEnds
    BY <1>2, HostTurns, HostResolves, HostReads
  <1> QED
    BY <1>1, <1>2 DEF Release!ToolsNext

-----------------------------------------------------------------------------
(* What the store reported opens. *)

(* A configuration is not taken for one that is missing. *)
LEMMA ConfigIsThere ==
    ASSUME NEW c, c \in [DOMAIN c -> EntryType], DOMAIN c \subseteq 1..MaxIssued
    PROVE  c # None
  <1> DEFINE S == DOMAIN c
  <1>1. S \in SUBSET (1..MaxIssued) /\ c \in [S -> EntryType]
    OBVIOUS
  <1> HIDE DEF S
  <1> QED
    BY <1>1, RecordsAssumption DEF EntryType

(* A new store opens what it was told of. *)
LEMMA OpenInit == ASSUME Store!StoreInit PROVE OpenFits
  BY DEF Store!StoreInit, OpenFits, Store!Loads, CommandOpen

(* A command that begins changes nothing. *)
LEMMA OpenBegins ==
    ASSUME StoreInv, OpenFits, NEW op, NEW step, NEW p, NEW f, Store!Begin(op, step, p, f),
           op = "add" => step = "token" /\ f = p,
           op = "remove" /\ f # None => \E i \in DOMAIN config : config[i].file = f /\ config[i].products = {p},
           op = "share" /\ step = "config" => f \notin StoreProducts,
           step # "file"
    PROVE  OpenFits'
  <1> DEFINE new == [op |-> op, step |-> step, product |-> p, file |-> f]
  <1>1. storeCommand = None /\ storeCommand' = new /\ UNCHANGED <<config, token, granted, strayed>>
    BY DEF Store!Begin
  <1>2. new.op = op /\ new.step = step /\ new.product = p /\ new.file = f
    OBVIOUS
  <1> HIDE DEF new
  <1>3. ~Renamed /\ ~Renamed'
    BY <1>1, <1>2 DEF Renamed
  <1>4. \A i : FileOf(i) = config[i].file /\ FileOf(i)' = config'[i].file
    BY <1>3 DEF FileOf
  <1>5. Store!Loads /\ ~strayed => EntriesOpen'
    BY <1>1, <1>4 DEF EntriesOpen, OpenFits
  <1>6. CommandOpen'
    BY <1>1, <1>2 DEF CommandOpen
  <1> QED
    BY <1>1, <1>5, <1>6 DEF OpenFits, Store!Loads

(* The file that goes with a product is that of an entry. *)
LEMMA OrphanThere ==
    ASSUME StoreInv, Store!Loads, NEW p, Store!Orphan(p) # None
    PROVE  \E i \in DOMAIN config : config[i].file = Store!Orphan(p) /\ config[i].products = {p}
  <1> DEFINE own == {i \in DOMAIN config : config[i].products = {p}}
             last == CHOOSE i \in own : \A j \in own : j <= i
  <1>1. own # {} /\ Store!Orphan(p) = config[last].file
    BY DEF Store!Orphan
  <1>2. own \in SUBSET (0..issued) /\ issued \in Nat
    BY EntryParts, StoreParts
  <1>3. Product!Max(own) \in own /\ \A x \in own : x <= Product!Max(own)
    BY <1>1, <1>2, MaxIsHighest
  <1>4. last \in own
    BY <1>3
  <1> QED
    BY <1>1, <1>4

(* writeTokenFile and the commands look at the store before they write. *)
LEMMA OpenChecks ==
    ASSUME StoreInv, OpenFits,
           \/ \E force \in BOOLEAN : Store!runInit(force)
           \/ Store!InstallServe \/ Store!RotateOperator
           \/ \E p \in StoreProducts :
                  \/ \E force \in BOOLEAN : Store!runInitProduct(p, force)
                  \/ Store!RotateProduct(p) \/ Store!runInitRemoveProduct(p)
                  \/ \E with \in StoreProducts : Store!runInitShareProduct(p, with)
    PROVE  OpenFits'
  <1>1. CASE (\E force \in BOOLEAN : Store!runInit(force)) \/ Store!InstallServe
    <2>1. Store!Begin("init", "token", Operator, Operator)
      BY <1>1 DEF Store!runInit, Store!InstallServe
    <2> QED
      BY <2>1, OpenBegins
  <1>2. CASE Store!RotateOperator
    <2>1. Store!Begin("rotate", "token", Operator, Operator)
      BY <1>2 DEF Store!RotateOperator
    <2> QED
      BY <2>1, OpenBegins
  <1>3. ASSUME NEW p \in StoreProducts, NEW force \in BOOLEAN, Store!runInitProduct(p, force) PROVE OpenFits'
    <2>1. Store!Begin("add", "token", p, p)
      BY <1>3 DEF Store!runInitProduct
    <2> QED
      BY <2>1, OpenBegins
  <1>4. ASSUME NEW p \in StoreProducts, Store!RotateProduct(p) PROVE OpenFits'
    <2> DEFINE f == Store!productTokenFile(p)
    <2>1. Store!Begin("rotate", "token", p, f)
      BY <1>4 DEF Store!RotateProduct
    <2> HIDE DEF f
    <2> QED
      BY <2>1, OpenBegins
  <1>5. ASSUME NEW p \in StoreProducts, Store!runInitRemoveProduct(p) PROVE OpenFits'
    <2> DEFINE f == Store!Orphan(p)
    <2>1. Store!Begin("remove", "config", p, f) /\ Store!Loads
      BY <1>5 DEF Store!runInitRemoveProduct
    <2>2. f # None => \E i \in DOMAIN config : config[i].file = f /\ config[i].products = {p}
      BY <2>1, OrphanThere
    <2> HIDE DEF f
    <2> QED
      BY <2>1, <2>2, OpenBegins
  <1>6. ASSUME NEW p \in StoreProducts, NEW with \in StoreProducts, Store!runInitShareProduct(p, with) PROVE OpenFits'
    <2> DEFINE f == Store!productTokenFile(with)
               step == IF f \in StoreProducts THEN "rename" ELSE "config"
    <2>1. Store!Begin("share", step, p, f)
      BY <1>6 DEF Store!runInitShareProduct
    <2>2. step # "file" /\ (step = "config" => f \notin StoreProducts)
      OBVIOUS
    <2> HIDE DEF f, step
    <2> QED
      BY <2>1, <2>2, OpenBegins
  <1> QED
    BY <1>1, <1>2, <1>3, <1>4, <1>5, <1>6

Replaced(f, t) == \A k \in Store!TokenFiles : token'[k] = IF k = f THEN t ELSE token[k]

Retold(f, t) ==
    \A g \in granted' : \/ g \in granted /\ g[1] # token[f]
                        \/ \E h \in granted : h[1] = token[f] /\ g = <<t, h[2]>>

(* A token file is replaced: what was reported of the old token is taken back, or
   is reported of the new one. *)
LEMMA OpenMoves ==
    ASSUME StoreInv, Store!Loads, EntriesOpen, ~Renamed, ~Renamed', UNCHANGED config,
           NEW f \in Store!TokenFiles, NEW t, t # None, Replaced(f, t), Retold(f, t)
    PROVE  EntriesOpen'
  <1>1. \A i : FileOf(i) = config[i].file /\ FileOf(i)' = config[i].file
    BY DEF FileOf
  <1>2. \A i \in DOMAIN config : config[i].file \in Store!TokenFiles
    BY EntryParts
  <1>3. \A k \in Store!TokenFiles : token'[k] = IF k = f THEN t ELSE token[k]
    BY DEF Replaced
  <1>4. Operator \in Store!TokenFiles
    BY StoreParts
  <1>5. ASSUME NEW g \in granted'
        PROVE  \/ g = <<token'[Operator], Operator>>
               \/ \E i \in DOMAIN config : g[1] = token'[config[i].file] /\ g[2] \in config[i].products
    <2>1. CASE g \in granted /\ g[1] # token[f]
      <3>1. CASE g = <<token[Operator], Operator>>
        BY <1>3, <1>4, <2>1, <3>1
      <3>2. CASE \E i \in DOMAIN config : g[1] = token[config[i].file] /\ g[2] \in config[i].products
        BY <1>2, <1>3, <2>1, <3>2
      <3> QED
        BY <1>1, <2>1, <3>1, <3>2 DEF EntriesOpen
    <2>2. CASE \E h \in granted : h[1] = token[f] /\ g = <<t, h[2]>>
      <3>1. PICK h \in granted : h[1] = token[f] /\ g = <<t, h[2]>>
        BY <2>2
      <3>2. token[f] \notin {None, Torn}
        <4>1. h[1] \in 1..issued
          BY StoreParts
        <4> QED
          BY <3>1, <4>1, StoreParts
      <3>3. \A k \in Store!TokenFiles : token[k] = token[f] => k = f
        BY <3>2 DEF StoreInv, TokensDiffer
      <3>4. CASE h = <<token[Operator], Operator>>
        <4>1. Operator = f
          BY <1>4, <3>1, <3>3, <3>4
        <4> QED
          BY <1>3, <1>4, <3>1, <3>4, <4>1
      <3>5. CASE \E i \in DOMAIN config : h[1] = token[config[i].file] /\ h[2] \in config[i].products
        <4>1. PICK i \in DOMAIN config : h[1] = token[config[i].file] /\ h[2] \in config[i].products
          BY <3>5
        <4>2. config[i].file = f
          BY <1>2, <3>1, <3>3, <4>1
        <4> QED
          BY <1>2, <1>3, <3>1, <4>1, <4>2
      <3> QED
        BY <1>1, <3>4, <3>5 DEF EntriesOpen
    <2> QED
      BY <2>1, <2>2 DEF Retold
  <1>6. \A i \in DOMAIN config : token'[config[i].file] # None
    BY <1>1, <1>2, <1>3 DEF EntriesOpen
  <1> QED
    BY <1>1, <1>5, <1>6 DEF EntriesOpen

(* A token file is written by the command on its product. *)
LEMMA OpenToken == ASSUME StoreInv, OpenFits, Store!writeTokenFile PROVE OpenFits'
  <1> DEFINE c == storeCommand
             f == storeCommand.file
             t == issued + 1
             gone == Store!PairsOf(f)
             new == {<<t, g[2]>> : g \in Store!PairsOf(f)}
  <1>1. /\ c # None /\ c.step = "token" /\ issued' = t /\ UNCHANGED <<config, strayed>>
        /\ token' = [token EXCEPT ![f] = t]
    BY DEF Store!writeTokenFile, Store!At
  <1>2. /\ c \in StoreCommand /\ c.op \in {"init", "rotate", "add"} /\ f \in Store!TokenFiles
        /\ c.op = "add" => c.product \in StoreProducts
    BY <1>1 DEF StoreInv, StoreOK, CommandFits
  <1>3. \/ /\ c.op = "rotate" /\ storeCommand' = None /\ granted' = (granted \ gone) \cup new
        \/ /\ c.op # "rotate" /\ storeCommand' = [c EXCEPT !.step = "config"]
           /\ granted' = (granted \ gone) \cup {}
    BY <1>1 DEF Store!writeTokenFile, Store!Report
  <1>4. Retold(f, t)
    BY <1>3 DEF Store!PairsOf, Retold
  <1> HIDE DEF gone, new
  <1>5. t \notin {None, Torn}
    BY StoreParts, StoreAssumption
  <1>6. ~Renamed /\ ~Renamed'
    <2>1. ~Renamed
      BY <1>1 DEF Renamed
    <2>2. CASE storeCommand' = None
      BY <2>1, <2>2 DEF Renamed
    <2>3. CASE c.op # "rotate" /\ storeCommand' = [c EXCEPT !.step = "config"]
      BY <1>2, <2>3 DEF Renamed, StoreCommand
    <2> QED
      BY <1>3, <2>1, <2>2, <2>3
  <1>7. Store!Loads /\ EntriesOpen => EntriesOpen'
    <2> SUFFICES ASSUME Store!Loads, EntriesOpen PROVE EntriesOpen'
      OBVIOUS
    <2>1. f \in Store!TokenFiles /\ t # None /\ token' = [token EXCEPT ![f] = t] /\ UNCHANGED config
      BY <1>1, <1>2, <1>5
    <2>2. Replaced(f, t)
      BY <2>1, StoreParts DEF Replaced
    <2> HIDE DEF f, t, c
    <2> QED
      BY <1>4, <1>6, <2>1, <2>2, OpenMoves
  <1>8. granted = {} => granted' = {}
    BY <1>4 DEF Retold
  <1>9. CommandOpen => CommandOpen'
    <2> SUFFICES ASSUME CommandOpen PROVE CommandOpen'
      OBVIOUS
    <2>1. CASE storeCommand' = None
      BY <2>1 DEF CommandOpen
    <2>2. CASE c.op # "rotate" /\ storeCommand' = [c EXCEPT !.step = "config"]
      <3>1. PICK d : d = [c EXCEPT !.step = "config"]
        OBVIOUS
      <3>2. d.op = c.op /\ d.step = "config" /\ d.file = c.file /\ d.product = c.product /\ d.op # "remove"
        BY <1>2, <3>1 DEF StoreCommand
      <3>3. c.op = "add" => c.product = f
        BY <1>1 DEF CommandOpen
      <3>4. token'[f] = t
        BY <1>1, <1>2, StoreParts
      <3> QED
        BY <1>5, <2>2, <3>1, <3>2, <3>3, <3>4 DEF CommandOpen
    <2> QED
      BY <1>3, <2>1, <2>2
  <1> QED
    BY <1>1, <1>7, <1>8, <1>9 DEF OpenFits, Store!Loads

(* The skeleton of the configuration is written. *)
LEMMA OpenSkeleton == ASSUME StoreInv, OpenFits, Store!WriteSkeleton PROVE OpenFits'
  <1> DEFINE told == Store!Told(Operator, Operator)
  <1>1. /\ config' = Store!Skeleton /\ storeCommand' = None /\ UNCHANGED <<token, strayed>>
        /\ granted' = (granted \ granted) \cup told
    BY DEF Store!WriteSkeleton, Store!Report
  <1>2. told \subseteq {<<token[Operator], Operator>>}
    BY DEF Store!Told
  <1>3. DOMAIN config' = {} /\ config' \in [DOMAIN config' -> EntryType]
    BY <1>1 DEF Store!Skeleton
  <1>4. config' # None
    BY <1>3, ConfigIsThere
  <1>5. EntriesOpen' /\ CommandOpen'
    BY <1>1, <1>2, <1>3 DEF EntriesOpen, CommandOpen
  <1> QED
    BY <1>4, <1>5 DEF OpenFits

(* A shared file is renamed to that of a family. *)
LEMMA OpenRenamed == ASSUME StoreInv, OpenFits, Store!PromoteFile PROVE OpenFits'
  <1> DEFINE c == storeCommand
             f == storeCommand.file
             n == Store!NextFamilyRel
  <1>1. /\ c # None /\ c.step = "rename"
        /\ UNCHANGED <<config, issued, granted, strayed>>
    BY DEF Store!PromoteFile, Store!At
  <1>2. /\ c \in StoreCommand /\ f \in StoreProducts /\ c.op = "share" /\ Store!Loads
        /\ c.product \in StoreProducts /\ Store!FreeFamilies # {}
    BY <1>1 DEF StoreInv, StoreOK, CommandFits, ShareFits
  <1>3. \A i : FileOf(i) = config[i].file
    BY <1>1 DEF FileOf, Renamed
  <1>4. CASE token[f] = None
    <2>1. storeCommand' = None /\ UNCHANGED token
      BY <1>4 DEF Store!PromoteFile
    <2>2. \A i : FileOf(i)' = config[i].file
      BY <1>1, <2>1 DEF FileOf, Renamed
    <2>3. EntriesOpen => EntriesOpen'
      BY <1>1, <1>3, <2>1, <2>2 DEF EntriesOpen
    <2> QED
      BY <1>1, <2>1, <2>3 DEF OpenFits, CommandOpen, Store!Loads
  <1>5. CASE token[f] # None
    <2>1. PICK d : d = [c EXCEPT !.step = "config"]
      OBVIOUS
    <2>2. storeCommand' = d /\ token' = [token EXCEPT ![f] = None, ![n] = token[f]]
      BY <1>5, <2>1 DEF Store!PromoteFile
    <2>3. d \in StoreCommand /\ d.op = "share" /\ d.step = "config" /\ d.file = f
      BY <1>2, <2>1 DEF StoreCommand
    <2>4. /\ n \in Store!TokenFiles /\ n \notin StoreProducts /\ n # Operator /\ f \in Store!TokenFiles /\ f # n
          /\ f # Operator /\ Operator \in Store!TokenFiles
          /\ \A i \in DOMAIN config : config[i].file # n
      BY <1>2, FamilyIsFree, StoreParts
    <2>5. Store!NextFamilyRel' = n
      BY <1>1 DEF Store!NextFamilyRel, Store!FreeFamilies
    <2> HIDE DEF n
    <2>6. /\ token'[n] = token[f]
          /\ \A g \in Store!TokenFiles \ {f, n} : token'[g] = token[g]
      BY <2>2, <2>4, StoreParts
    <2>7. d # None
      <3>1. d.product \in StoreProducts /\ d = [op |-> "share", step |-> "config", product |-> d.product, file |-> f]
        BY <1>2, <2>1 DEF StoreCommand
      <3> QED
        BY <1>2, <3>1, RecordsAssumption
    <2>8. \A i : FileOf(i)' = IF config[i].file = f THEN n ELSE config[i].file
      BY <1>1, <1>2, <2>2, <2>3, <2>5, <2>7 DEF FileOf, Renamed
    <2>9. \A i \in DOMAIN config : token'[FileOf(i)'] = token[FileOf(i)]
      BY <1>2, <1>3, <2>4, <2>6, <2>8, EntryParts
    <2>10. token'[Operator] = token[Operator]
      BY <2>4, <2>6
    <2>11. EntriesOpen => EntriesOpen'
      BY <1>1, <2>9, <2>10 DEF EntriesOpen
    <2>12. CommandOpen'
      BY <2>2, <2>3 DEF CommandOpen
    <2> QED
      BY <1>1, <2>11, <2>12 DEF OpenFits, Store!Loads
  <1> QED
    BY <1>4, <1>5

(* An entry that is added is the product's own, whose token is there. *)
LEMMA OpenAdded == ASSUME StoreInv, StoreInv', OpenFits, Store!WriteAdded PROVE OpenFits'
  <1> DEFINE p == storeCommand.product
             entries == IF config = None THEN Store!Skeleton ELSE config
             told == Store!Told(p, p)
             changed == {i \in DOMAIN entries : entries[i] # config'[i]}
             gone == granted \cap {<<token[entries[i].file], p>> : i \in changed}
  <1>1. /\ storeCommand # None /\ storeCommand.step = "config" /\ storeCommand.op = "add"
        /\ storeCommand' = None /\ UNCHANGED <<token, issued>>
    BY DEF Store!WriteAdded, Store!At
  <1>2. ~Renamed /\ ~Renamed' /\ CommandOpen'
    BY <1>1 DEF Renamed, CommandOpen
  <1>3. \A i : FileOf(i) = config[i].file /\ FileOf(i)' = config'[i].file
    BY <1>2 DEF FileOf
  <1>4. CASE config = Torn
    <2>1. UNCHANGED <<config, granted, strayed>>
      BY <1>4 DEF Store!WriteAdded, Store!SameGrants
    <2>2. ~Store!Loads' /\ config' # None
      BY <1>4, <2>1, KeysAssumption DEF Store!Loads
    <2> QED
      BY <1>2, <2>2 DEF OpenFits
  <1>5. CASE config # Torn
    <2> SUFFICES ASSUME ~strayed' PROVE config' # None /\ EntriesOpen'
      BY <1>2 DEF OpenFits
    <2>1. /\ granted' = (granted \ gone) \cup told
          /\ strayed' = (strayed \/ \E i, j \in DOMAIN config' : i # j /\ config'[i].file = config'[j].file)
      BY <1>5 DEF Store!WriteAdded, Store!Report
    <2>2. /\ ~strayed /\ CommandOpen /\ token[p] # None /\ (config # None => EntriesOpen)
          /\ config = None => granted = {}
      BY <1>1, <1>5, <2>1 DEF OpenFits, CommandOpen, Store!Loads
    <2>3. \A i, j \in DOMAIN config' : config'[i].file = config'[j].file => i = j
      BY <2>1
    <2>4. DOMAIN entries \subseteq 1..issued /\ config' \in [DOMAIN config' -> EntryType]
      BY <1>5, EntryAdded
    <2>5. PICK k \in 1..issued :
                    /\ DOMAIN config' = DOMAIN entries \cup {k}
                    /\ config'[k] = Store!Entry(p, {p})
                    /\ \A i \in DOMAIN entries \ {k} : config'[i] = entries[i]
                    /\ k \in DOMAIN entries => entries[k].products = {p}
      BY <1>5, EntryAdded
    <2>6. config'[k].file = p /\ config'[k].products = {p}
      BY <2>5 DEF Store!Entry
    <2>7. config' # None
      <3>1. 1..issued \subseteq 1..MaxIssued
        BY StoreParts
      <3> QED
        BY <2>4, <2>5, <3>1, ConfigIsThere
    <2>8. \A g \in told : g = <<token[p], p>>
      BY DEF Store!Told
    <2>9. config = None => DOMAIN entries = {}
      BY DEF Store!Skeleton
    <2>10. ASSUME NEW g \in granted'
           PROVE  \/ g = <<token[Operator], Operator>>
                  \/ \E i \in DOMAIN config' : g[1] = token[config'[i].file] /\ g[2] \in config'[i].products
      <3>1. CASE g \in told
        <4>1. g[1] = token[p] /\ g[2] = p
          BY <2>8, <3>1
        <4>2. k \in DOMAIN config'
          BY <2>5
        <4> HIDE DEF p
        <4> QED
          BY <2>6, <4>1, <4>2
      <3>2. CASE g \in granted /\ g \notin gone
        <4>1. config # None /\ EntriesOpen /\ entries = config
          BY <2>2, <3>2
        <4>2. CASE \E i \in DOMAIN config : g[1] = token[config[i].file] /\ g[2] \in config[i].products
          <5>1. PICK i \in DOMAIN config : g[1] = token[config[i].file] /\ g[2] \in config[i].products
            BY <4>2
          <5>2. CASE i # k
            BY <2>5, <4>1, <5>1, <5>2
          <5>3. CASE i = k
            <6>1. g[2] = p /\ g = <<token[config[k].file], p>>
              BY <2>5, <3>2, <4>1, <5>1, <5>3, StoreParts
            <6>2. config'[k] = config[k]
              BY <3>2, <4>1, <5>3, <6>1
            <6> QED
              BY <2>5, <5>1, <5>3, <6>2
          <5> QED
            BY <5>2, <5>3
        <4> QED
          BY <1>3, <3>2, <4>1, <4>2 DEF EntriesOpen
      <3> QED
        BY <2>1, <3>1, <3>2
    <2>11. ASSUME NEW i \in DOMAIN config' PROVE token[config'[i].file] # None
      <3>1. CASE i = k
        BY <2>2, <2>6, <3>1
      <3>2. CASE i # k
        <4>1. i \in DOMAIN entries /\ config'[i] = entries[i] /\ entries = config /\ EntriesOpen
          BY <2>2, <2>5, <2>9, <3>2
        <4> QED
          BY <1>3, <4>1 DEF EntriesOpen
      <3> QED
        BY <3>1, <3>2
    <2> QED
      BY <1>1, <1>3, <2>3, <2>7, <2>10, <2>11 DEF EntriesOpen
  <1> QED
    BY <1>4, <1>5

(* What the entry that is shared opened it opens still, by the name its file got. *)
LEMMA OpenShared == ASSUME StoreInv, OpenFits, Store!WriteShared PROVE OpenFits'
  <1> DEFINE p == storeCommand.product
             from == storeCommand.file
             file0 == IF from \in StoreProducts THEN Store!NextFamilyRel ELSE from
             told == Store!Told(p, file0)
             twice == \E i \in DOMAIN config : config[i].file = from /\ p \in config[i].products
  <1> SUFFICES ASSUME ~strayed' PROVE OpenFits'
    BY DEF OpenFits
  <1>1. /\ storeCommand # None /\ storeCommand.step = "config" /\ storeCommand.op = "share"
        /\ storeCommand' = None /\ UNCHANGED token
        /\ config' = IF twice THEN Torn ELSE Store!shareProductToken(p, from, file0)
        /\ strayed' = (strayed \/ twice)
        /\ granted' = (granted \ {}) \cup told
    BY DEF Store!WriteShared, Store!At, Store!Report
  <1>2. ShareFits(storeCommand)
    BY <1>1 DEF StoreInv, CommandFits
  <1>3. Store!Loads /\ p \in StoreProducts /\ Store!FreeFamilies # {} /\ ~strayed /\ EntriesOpen
    BY <1>1, <1>2 DEF ShareFits, OpenFits
  <1>4. PICK i \in DOMAIN config : \A j \in DOMAIN config : config[j].file = from <=> j = i
    BY <1>2 DEF ShareFits
  <1>5. \A j \in DOMAIN config \ {i} : config[j].file # file0
    BY <1>3, <1>4, FamilyIsFree
  <1>6. /\ FileOf(i) = file0 /\ \A j \in DOMAIN config \ {i} : FileOf(j) = config[j].file
    BY <1>1, <1>4 DEF FileOf, Renamed
  <1>7. config' = [j \in DOMAIN config |-> IF config[j].file = from
                                          THEN Store!Entry(file0, config[j].products \cup {p}) ELSE config[j]]
    BY <1>1 DEF Store!shareProductToken
  <1>8. \A g \in told : g = <<token[file0], p>>
    BY DEF Store!Told
  <1> HIDE DEF file0, told, twice
  <1>9. /\ DOMAIN config' = DOMAIN config /\ config'[i].file = file0 /\ config'[i].products = config[i].products \cup {p}
        /\ \A j \in DOMAIN config \ {i} : config'[j] = config[j]
    BY <1>4, <1>7 DEF Store!Entry
  <1>10. ~Renamed' /\ CommandOpen'
    BY <1>1 DEF Renamed, CommandOpen
  <1>11. \A j : FileOf(j)' = config'[j].file
    BY <1>10 DEF FileOf
  <1>12. config' # None
    <2>1. file0 \in StoreProducts \cup Store!Families
      BY <1>3, <1>4, EntryParts, FamilyIsFree DEF file0
    <2>2. ASSUME NEW j \in DOMAIN config PROVE config'[j] \in EntryType
      <3>1. config[j] \in EntryType /\ config[j].products \in SUBSET StoreProducts
        BY <1>3, EntryParts
      <3> QED
        BY <1>3, <1>7, <2>1, <3>1 DEF EntryType, Store!Entry
    <2>3. config' \in [DOMAIN config' -> EntryType]
      BY <1>7, <2>2
    <2>4. DOMAIN config' \subseteq 1..MaxIssued
      BY <1>3, <1>9, EntryParts, StoreParts
    <2> QED
      BY <2>3, <2>4, ConfigIsThere
  <1>13. \A j \in DOMAIN config : config'[j].file = FileOf(j) /\ config[j].products \subseteq config'[j].products
    BY <1>6, <1>9
  <1>14. EntriesOpen'
    <2>1. \A j, k \in DOMAIN config' : config'[j].file = config'[k].file => j = k
      BY <1>3, <1>5, <1>9 DEF EntriesOpen
    <2>2. \A j \in DOMAIN config' : token[config'[j].file] # None
      BY <1>3, <1>9, <1>13 DEF EntriesOpen
    <2>3. ASSUME NEW g \in granted'
          PROVE  \/ g = <<token[Operator], Operator>>
                 \/ \E j \in DOMAIN config' : g[1] = token[config'[j].file] /\ g[2] \in config'[j].products
      <3>1. CASE g \in told
        BY <1>8, <1>9, <3>1
      <3>2. CASE g \in granted
        BY <1>3, <1>9, <1>13, <3>2 DEF EntriesOpen
      <3> QED
        BY <1>1, <3>1, <3>2
    <2> QED
      BY <1>1, <1>11, <2>1, <2>2, <2>3 DEF EntriesOpen
  <1> QED
    BY <1>10, <1>12, <1>14 DEF OpenFits

(* The other products keep their entries, and the file of the one that left is
   nobody's. *)
LEMMA OpenRemoved == ASSUME StoreInv, OpenFits, Store!WriteRemoved PROVE OpenFits'
  <1> DEFINE c == storeCommand
             p == storeCommand.product
             gone == {g \in granted : g[2] = p}
  <1> SUFFICES ASSUME ~strayed' PROVE OpenFits'
    BY DEF OpenFits
  <1>1. /\ c # None /\ c.step = "config" /\ c.op = "remove" /\ UNCHANGED <<token, issued, strayed>>
        /\ config' = Store!removeProductToken(p)
        /\ granted' = (granted \ gone) \cup {}
        /\ storeCommand' = IF c.file = None THEN None ELSE [c EXCEPT !.step = "file"]
    BY DEF Store!WriteRemoved, Store!At, Store!Report
  <1>2. Store!Loads /\ p \in StoreProducts /\ c \in StoreCommand /\ EntriesOpen /\ CommandOpen
    BY <1>1 DEF StoreInv, StoreOK, CommandFits, OpenFits
  <1>3. config' = [i \in {i \in DOMAIN config : config[i].products \ {p} # {}} |->
                      Store!Entry(config[i].file, config[i].products \ {p})]
    BY <1>1 DEF Store!removeProductToken
  <1>4. /\ DOMAIN config' = {i \in DOMAIN config : config[i].products \ {p} # {}}
        /\ \A i \in DOMAIN config' : /\ config'[i].file = config[i].file
                                     /\ config'[i].products = config[i].products \ {p}
    BY <1>3 DEF Store!Entry
  <1>5. ~Renamed /\ ~Renamed'
    BY <1>1, <1>2 DEF Renamed, StoreCommand
  <1>6. \A i : FileOf(i) = config[i].file /\ FileOf(i)' = config'[i].file
    BY <1>5 DEF FileOf
  <1>7. config' # None
    <2>1. \A i \in DOMAIN config' : config'[i] \in EntryType
      <3> SUFFICES ASSUME NEW i \in DOMAIN config' PROVE config'[i] \in EntryType
        OBVIOUS
      <3>1. config[i] \in EntryType /\ config'[i] = Store!Entry(config[i].file, config[i].products \ {p})
        BY <1>2, <1>3, <1>4, EntryParts
      <3> QED
        BY <3>1 DEF EntryType, Store!Entry
    <2>2. config' \in [DOMAIN config' -> EntryType]
      BY <1>3, <2>1
    <2>3. DOMAIN config' \subseteq 1..MaxIssued
      BY <1>2, <1>4, EntryParts, StoreParts
    <2> QED
      BY <2>2, <2>3, ConfigIsThere
  <1>8. EntriesOpen'
    <2>1. ASSUME NEW g \in granted'
          PROVE  \/ g = <<token[Operator], Operator>>
                 \/ \E i \in DOMAIN config' : g[1] = token[config'[i].file] /\ g[2] \in config'[i].products
      <3>1. g \in granted /\ g[2] # p
        BY <1>1
      <3>2. CASE \E i \in DOMAIN config : g[1] = token[config[i].file] /\ g[2] \in config[i].products
        BY <1>4, <3>1, <3>2
      <3> QED
        BY <1>2, <1>6, <3>1, <3>2 DEF EntriesOpen
    <2>2. \A i, j \in DOMAIN config' : config'[i].file = config'[j].file => i = j
      BY <1>2, <1>4 DEF EntriesOpen
    <2>3. \A i \in DOMAIN config' : token[config'[i].file] # None
      BY <1>2, <1>4, <1>6 DEF EntriesOpen
    <2> QED
      BY <1>1, <1>6, <2>1, <2>2, <2>3 DEF EntriesOpen
  <1>9. CommandOpen'
    <2>1. CASE c.file = None
      BY <1>1, <2>1 DEF CommandOpen
    <2>2. CASE c.file # None
      <3>1. PICK d : d = [c EXCEPT !.step = "file"]
        OBVIOUS
      <3>2. storeCommand' = d /\ d.op = "remove" /\ d.step = "file" /\ d.file = c.file
        BY <1>1, <1>2, <2>2, <3>1 DEF StoreCommand
      <3>3. PICK i \in DOMAIN config : config[i].file = c.file /\ config[i].products = {p}
        BY <1>1, <1>2, <2>2 DEF CommandOpen
      <3>4. i \notin DOMAIN config'
        BY <1>4, <3>3
      <3>5. \A j \in DOMAIN config' : config'[j].file # c.file
        BY <1>2, <1>4, <3>3, <3>4 DEF EntriesOpen
      <3>6. c.file # Operator
        BY <1>2, <3>3, EntryParts, StoreParts
      <3> QED
        BY <3>2, <3>5, <3>6 DEF CommandOpen
    <2> QED
      BY <2>1, <2>2
  <1> QED
    BY <1>7, <1>8, <1>9 DEF OpenFits

(* The file that no entry names any more is removed. *)
LEMMA OpenFileRemoved == ASSUME StoreInv, OpenFits, Store!RemoveFile PROVE OpenFits'
  <1> DEFINE f == storeCommand.file
  <1> SUFFICES ASSUME ~strayed' PROVE OpenFits'
    BY DEF OpenFits
  <1>1. /\ storeCommand # None /\ storeCommand.step = "file" /\ storeCommand' = None
        /\ token' = [token EXCEPT ![f] = None]
        /\ UNCHANGED <<config, granted, strayed>>
    BY DEF Store!RemoveFile, Store!At
  <1>2. ~Renamed /\ ~Renamed' /\ CommandOpen'
    BY <1>1 DEF Renamed, CommandOpen
  <1>3. \A i : FileOf(i) = config[i].file /\ FileOf(i)' = config[i].file
    BY <1>1, <1>2 DEF FileOf
  <1>4. f # Operator /\ (Store!Loads => \A i \in DOMAIN config : config[i].file # f)
    BY <1>1 DEF OpenFits, CommandOpen
  <1>5. \A g \in Store!TokenFiles \ {f} : token'[g] = token[g]
    BY <1>1, StoreParts
  <1>6. Store!Loads => EntriesOpen'
    <2> SUFFICES ASSUME Store!Loads PROVE EntriesOpen'
      OBVIOUS
    <2>1. \A i \in DOMAIN config : token'[config[i].file] = token[config[i].file]
      BY <1>4, <1>5, EntryParts
    <2>2. token'[Operator] = token[Operator]
      BY <1>4, <1>5, StoreParts
    <2>3. EntriesOpen
      BY <1>1 DEF OpenFits
    <2> QED
      BY <1>1, <1>3, <2>1, <2>2, <2>3 DEF EntriesOpen
  <1> QED
    BY <1>1, <1>2, <1>6 DEF OpenFits, Store!Loads

(* A command that is cut short leaves what it did not write. *)
LEMMA OpenIsCut == ASSUME StoreInv, OpenFits, Store!CutShort PROVE OpenFits'
  <1> DEFINE c == storeCommand
             f == storeCommand.file
             gone == IF token' # token THEN Store!PairsOf(storeCommand.file) ELSE {}
  <1> SUFFICES ASSUME ~strayed' PROVE OpenFits'
    BY DEF OpenFits
  <1>1. /\ c # None /\ storeCommand' = None
        /\ strayed' = (strayed \/ (Store!At("config") /\ c.op = "share" /\ f \in StoreProducts))
        /\ granted' = (granted \ gone) \cup {}
    BY DEF Store!CutShort, Store!Report
  <1>2. ~Renamed /\ ~Renamed' /\ CommandOpen' /\ ~strayed
    BY <1>1 DEF Renamed, Store!At, CommandOpen
  <1>3. \A i : FileOf(i) = config[i].file /\ FileOf(i)' = config'[i].file
    BY <1>2 DEF FileOf
  <1>4. \/ UNCHANGED <<config, token>>
        \/ c.step = "token" /\ token' = [token EXCEPT ![f] = Torn] /\ UNCHANGED config
        \/ config' = Torn
        \/ config = None /\ config' = Store!Skeleton /\ UNCHANGED token
    BY DEF Store!CutShort, Store!At
  <1>5. granted' \subseteq granted
    BY <1>1
  <1>6. CASE config' = Torn
    <2>1. config' # None /\ ~Store!Loads'
      BY <1>6, KeysAssumption DEF Store!Loads
    <2> QED
      BY <1>2, <2>1 DEF OpenFits
  <1>7. CASE config = None /\ config' = Store!Skeleton /\ UNCHANGED token
    <2>1. granted' = {}
      BY <1>2, <1>5, <1>7 DEF OpenFits
    <2>2. DOMAIN config' = {}
      BY <1>7 DEF Store!Skeleton
    <2> QED
      BY <1>2, <2>1, <2>2 DEF OpenFits, EntriesOpen
  <1>8. CASE UNCHANGED <<config, token>>
    <2>1. EntriesOpen => EntriesOpen'
      BY <1>3, <1>5, <1>8 DEF EntriesOpen
    <2> QED
      BY <1>2, <1>5, <1>8, <2>1 DEF OpenFits, Store!Loads
  <1>9. CASE c.step = "token" /\ token' = [token EXCEPT ![f] = Torn] /\ UNCHANGED config /\ token' # token
    <2>1. f \in Store!TokenFiles
      BY <1>1, <1>9 DEF StoreInv, CommandFits
    <2>2. Replaced(f, Torn)
      BY <1>9, <2>1, StoreParts DEF Replaced
    <2>3. Retold(f, Torn)
      BY <1>1, <1>9 DEF Retold, Store!PairsOf
    <2>4. Torn # None
      BY KeysAssumption
    <2> HIDE DEF f, c, gone
    <2>5. Store!Loads /\ EntriesOpen => EntriesOpen'
      BY <1>2, <1>9, <2>1, <2>2, <2>3, <2>4, OpenMoves
    <2> QED
      BY <1>2, <1>5, <1>9, <2>5 DEF OpenFits, Store!Loads
  <1> QED
    BY <1>4, <1>6, <1>7, <1>8, <1>9

(* Every step of the store keeps it. *)
LEMMA OpenStep == ASSUME StoreInv, StoreInv', OpenFits, Store!StoreNext PROVE OpenFits'
  <1>1. CASE Store!writeTokenFile \/ Store!CutShort
    BY <1>1, OpenToken, OpenIsCut
  <1>2. CASE Store!WriteSkeleton \/ Store!WriteAdded \/ Store!WriteShared \/ Store!WriteRemoved
    BY <1>2, OpenSkeleton, OpenAdded, OpenShared, OpenRemoved
  <1>3. CASE Store!PromoteFile \/ Store!RemoveFile
    BY <1>3, OpenRenamed, OpenFileRemoved
  <1>4. CASE \/ \E force \in BOOLEAN : Store!runInit(force)
             \/ Store!InstallServe \/ Store!RotateOperator
             \/ \E p \in StoreProducts :
                    \/ \E force \in BOOLEAN : Store!runInitProduct(p, force)
                    \/ Store!RotateProduct(p) \/ Store!runInitRemoveProduct(p)
                    \/ \E with \in StoreProducts : Store!runInitShareProduct(p, with)
    BY <1>4, OpenChecks
  <1> QED
    BY <1>1, <1>2, <1>3, <1>4 DEF Store!StoreNext

(* Between two commands every token that was reported opens its product. *)
LEMMA StoreOpens == ASSUME StoreInv, OpenFits PROVE Store!TokensOpen
  <1> SUFFICES ASSUME storeCommand = None, ~strayed, Store!Loads, token[Operator] # None,
                      \A f \in Store!Named : token[f] # Torn
               PROVE  Store!Starts /\ granted \subseteq Store!CredentialsFromFileConfig
    BY DEF Store!TokensOpen, Store!Loads
  <1>1. \A i : FileOf(i) = config[i].file
    BY DEF FileOf, Renamed
  <1>2. EntriesOpen
    BY DEF OpenFits
  <1>3. \A i \in DOMAIN config : token[config[i].file] \notin {None, Torn} /\ config[i].file \in Store!TokenFiles
    BY <1>1, <1>2, EntryParts DEF EntriesOpen, Store!Named
  <1>4. token[Operator] \notin {None, Torn} /\ Operator \in Store!TokenFiles
    BY StoreParts DEF Store!Named
  <1>5. \A f \in Store!Named : Store!hashedTokenFromFile(f)
    BY <1>3, <1>4 DEF Store!Named, Store!hashedTokenFromFile
  <1>6. \A i, j \in DOMAIN config : i # j => token[config[i].file] # token[config[j].file]
    BY <1>2, <1>3 DEF EntriesOpen, StoreInv, TokensDiffer
  <1>7. \A i \in DOMAIN config : token[config[i].file] # token[Operator]
    <2> SUFFICES ASSUME NEW i \in DOMAIN config, token[config[i].file] = token[Operator] PROVE FALSE
      OBVIOUS
    <2>1. config[i].file = Operator
      BY <1>3, <1>4 DEF StoreInv, TokensDiffer
    <2> QED
      BY <2>1, EntryParts, StoreParts
  <1>8. ASSUME NEW g \in granted PROVE g \in Store!CredentialsFromFileConfig
    <2>1. g = <<g[1], g[2]>>
      BY StoreParts
    <2>2. CASE \E i \in DOMAIN config : g[1] = token[config[i].file] /\ g[2] \in config[i].products
      <3>1. PICK i \in DOMAIN config : g[1] = token[config[i].file] /\ g[2] \in config[i].products
        BY <2>2
      <3>2. g \in {token[config[i].file]} \X config[i].products
        BY <2>1, <3>1
      <3> QED
        BY <3>2 DEF Store!CredentialsFromFileConfig
    <2> QED
      BY <1>1, <1>2, <2>2 DEF EntriesOpen, Store!CredentialsFromFileConfig
  <1> QED
    BY <1>5, <1>6, <1>7, <1>8 DEF Store!Starts

-----------------------------------------------------------------------------
(* The migration. *)

(* A migration begins, is cut or ends, a file is copied, or the box reboots: the
   units serve whenever nobody is between them. *)
LEMMA MigrationStep == ASSUME MigrationInv, Migration!MigrationNext PROVE MigrationInv'
  <1> DEFINE files == {"config", Operator} \cup StoreProducts
  <1>1. CASE Migration!BeginMigration \/ Migration!WriteUnit
    BY StoreAssumption, <1>1 DEF Migration!BeginMigration, Migration!WriteUnit, Migration!Goto, MigrationInv, UnitsServe, UnitType,
                Migration!Startable
  <1>2. CASE Migration!WriteConfig
    BY StoreAssumption, <1>2 DEF Migration!WriteConfig, Migration!Goto, MigrationInv, UnitsServe, UnitType, Migration!Startable
  <1>3. CASE Migration!CopyOperator
    BY StoreAssumption, <1>3 DEF Migration!CopyOperator, Migration!Goto, MigrationInv, UnitsServe, UnitType, Migration!Startable
  <1>4. CASE Migration!CopyTokens
    BY StoreAssumption, <1>4 DEF Migration!CopyTokens, Migration!Goto, MigrationInv, UnitsServe, UnitType, Migration!Startable
  <1>5. CASE Migration!SwapUnits
    <2>1. UNCHANGED <<moved, tokensDest, swapCut>>
      BY <1>5 DEF Migration!SwapUnits
    <2>2. CASE migration = "stop"
      BY StoreAssumption, <1>5, <2>1, <2>2
      DEF Migration!SwapUnits, Migration!Goto, MigrationInv, UnitType, Migration!Startable
    <2>3. CASE migration = "disable"
      BY StoreAssumption, <1>5, <2>1, <2>3
      DEF Migration!SwapUnits, Migration!Goto, MigrationInv, UnitType, Migration!Startable
    <2>4. CASE migration = "enable"
      BY StoreAssumption, <1>5, <2>1, <2>4
      DEF Migration!SwapUnits, Migration!Goto, MigrationInv, UnitType, Migration!Startable
    <2> QED
      BY <1>5, <2>2, <2>3, <2>4 DEF Migration!SwapUnits
  <1>6. CASE Migration!StartStore
    BY StoreAssumption, <1>6 DEF Migration!StartStore, Migration!Goto, MigrationInv, UnitsServe, UnitType, Migration!Startable
  <1>7. CASE Migration!CutMigration
    <2>1. /\ migration # None /\ migration' = None /\ UNCHANGED <<serveUnit, storeUnit>>
          /\ swapCut' = (swapCut \/ migration \in {"disable", "enable", "start"})
      BY <1>7 DEF Migration!CutMigration, Migration!Goto
    <2>2. \/ moved' = moved
          \/ \E f \in files : moved[f] = None /\ moved' = [moved EXCEPT ![f] = Torn]
      BY <1>7 DEF Migration!CutMigration
    <2>3. moved' \in [files -> {None, Torn, "whole"}] /\ (storeUnit'.up => Migration!Startable')
      BY StoreAssumption, <2>1, <2>2 DEF MigrationInv, Migration!Startable
    <2> QED
      BY StoreAssumption, <2>1, <2>3 DEF MigrationInv, UnitsServe, UnitType
  <1>8. CASE Migration!Reboot
    BY StoreAssumption, <1>8 DEF Migration!Reboot, Migration!Goto, MigrationInv, UnitsServe, UnitType, Migration!Startable
  <1>9. CASE Migration!ClearConfig
    BY StoreAssumption, <1>9 DEF Migration!ClearConfig, Migration!Goto, MigrationInv, UnitsServe, UnitType, Migration!Startable
  <1> QED
    BY StoreAssumption, <1>1, <1>2, <1>3, <1>4, <1>5, <1>6, <1>7, <1>8, <1>9 DEF Migration!MigrationNext

(* A box serves at first. *)
LEMMA InitMigration == ASSUME Migration!MigrationInit PROVE MigrationInv
  BY StoreAssumption DEF Migration!MigrationInit, MigrationInv, UnitsServe, UnitType

(* Which is more than that somebody serves. *)
LEMMA MigrationServes == ASSUME MigrationInv PROVE Migration!SomebodyServes
  BY StoreAssumption DEF MigrationInv, UnitsServe, Migration!SomebodyServes

-----------------------------------------------------------------------------
(* The upgrade of the box. *)

(* What is left of a list is the list without its first element. *)
LEMMA TailHas ==
    ASSUME NEW S, NEW s \in Seq(S), s # <<>>
    PROVE  /\ Tail(s) \in Seq(S)
           /\ \A x : Has(s, x) <=> x = Head(s) \/ Has(Tail(s), x)
  <1>1. Tail(s) \in Seq(S) /\ Len(Tail(s)) = Len(s) - 1 /\ Len(s) \in Nat /\ Len(s) > 0 /\ Head(s) = s[1]
    OBVIOUS
  <1>2. \A i \in 1..Len(s) - 1 : Tail(s)[i] = s[i + 1]
    OBVIOUS
  <1>3. ASSUME NEW x, Has(s, x) PROVE x = Head(s) \/ Has(Tail(s), x)
    <2>1. PICK i \in 1..Len(s) : s[i] = x
      BY <1>3 DEF Has
    <2>2. CASE i # 1
      <3>1. i - 1 \in 1..Len(s) - 1 /\ Tail(s)[i - 1] = s[i]
        BY <1>1, <1>2, <2>2
      <3> QED
        BY <1>1, <2>1, <3>1 DEF Has
    <2> QED
      BY <1>1, <2>1, <2>2
  <1>4. ASSUME NEW x, Has(Tail(s), x) PROVE Has(s, x)
    <2>1. PICK i \in 1..Len(s) - 1 : s[i + 1] = x
      BY <1>1, <1>2, <1>4 DEF Has
    <2>2. i + 1 \in 1..Len(s)
      BY <1>1
    <2> QED
      BY <2>1, <2>2 DEF Has
  <1>5. Has(s, Head(s))
    <2>1. 1 \in 1..Len(s)
      BY <1>1
    <2> QED
      BY <1>1, <2>1 DEF Has
  <1> QED
    BY <1>1, <1>3, <1>4, <1>5

(* ... in order if the list is, and nothing that is left had to come first. *)
LEMMA TailOrder ==
    ASSUME NEW S, NEW s \in Seq(S), s # <<>>, InOrder(s)
    PROVE  /\ InOrder(Tail(s))
           /\ \A x : Has(Tail(s), x) => ~Wrong(Head(s), x)
  <1>1. Tail(s) \in Seq(S) /\ Len(Tail(s)) = Len(s) - 1 /\ Len(s) \in Nat /\ Len(s) > 0 /\ Head(s) = s[1]
    OBVIOUS
  <1>2. \A i \in 1..Len(s) - 1 : Tail(s)[i] = s[i + 1] /\ i + 1 \in 1..Len(s)
    OBVIOUS
  <1>3. 1 \in 1..Len(s)
    BY <1>1
  <1>4. ASSUME NEW i \in 1..Len(s) - 1, NEW j \in 1..Len(s) - 1, i < j PROVE ~Wrong(Tail(s)[i], Tail(s)[j])
    <2>1. i + 1 < j + 1
      BY <1>4
    <2> QED
      BY <1>2, <2>1 DEF InOrder
  <1>5. ASSUME NEW i \in 1..Len(s) - 1 PROVE ~Wrong(s[1], Tail(s)[i])
    <2>1. 1 < i + 1
      OBVIOUS
    <2> QED
      BY <1>2, <1>3, <2>1 DEF InOrder
  <1> QED
    BY <1>1, <1>4, <1>5 DEF InOrder, Has

(* Two lists in a row hold what either of them does. *)
LEMMA JoinHas ==
    ASSUME NEW S, NEW s \in Seq(S), NEW t \in Seq(S)
    PROVE  s \o t \in Seq(S) /\ \A x : Has(s \o t, x) <=> Has(s, x) \/ Has(t, x)
  <1>1. /\ s \o t \in Seq(S) /\ Len(s \o t) = Len(s) + Len(t) /\ Len(s) \in Nat /\ Len(t) \in Nat
    OBVIOUS
  <1>2. \A i \in 1..Len(s) + Len(t) : (s \o t)[i] = IF i <= Len(s) THEN s[i] ELSE t[i - Len(s)]
    OBVIOUS
  <1>3. ASSUME NEW x, Has(s \o t, x) PROVE Has(s, x) \/ Has(t, x)
    <2>1. PICK i \in 1..Len(s) + Len(t) : (s \o t)[i] = x
      BY <1>1, <1>3 DEF Has
    <2>2. CASE i <= Len(s)
      BY <1>1, <1>2, <2>1, <2>2 DEF Has
    <2>3. CASE ~(i <= Len(s))
      <3>1. i - Len(s) \in 1..Len(t) /\ t[i - Len(s)] = x
        BY <1>1, <1>2, <2>1, <2>3
      <3> QED
        BY <3>1 DEF Has
    <2> QED
      BY <2>2, <2>3
  <1>4. ASSUME NEW x, Has(s, x) PROVE Has(s \o t, x)
    <2>1. PICK i \in 1..Len(s) : s[i] = x
      BY <1>4 DEF Has
    <2>2. i \in 1..Len(s \o t) /\ (s \o t)[i] = x
      BY <1>1, <1>2, <2>1
    <2> QED
      BY <2>2 DEF Has
  <1>5. ASSUME NEW x, Has(t, x) PROVE Has(s \o t, x)
    <2>1. PICK i \in 1..Len(t) : t[i] = x
      BY <1>5 DEF Has
    <2>2. /\ i + Len(s) \in 1..Len(s \o t) /\ ~(i + Len(s) <= Len(s)) /\ (i + Len(s)) - Len(s) = i
          /\ i + Len(s) \in 1..Len(s) + Len(t)
      BY <1>1, <2>1
    <2>3. (s \o t)[i + Len(s)] = x
      BY <1>2, <2>1, <2>2
    <2> QED
      BY <2>2, <2>3 DEF Has
  <1> QED
    BY <1>1, <1>3, <1>4, <1>5

(* ... and are in order if nothing of the second had to come first. *)
LEMMA JoinOrder ==
    ASSUME NEW S, NEW s \in Seq(S), NEW t \in Seq(S), InOrder(s), InOrder(t),
           \A x, y : Has(s, x) /\ Has(t, y) => ~Wrong(x, y)
    PROVE  InOrder(s \o t)
  <1>1. /\ s \o t \in Seq(S) /\ Len(s \o t) = Len(s) + Len(t) /\ Len(s) \in Nat /\ Len(t) \in Nat
    OBVIOUS
  <1>2. \A i \in 1..Len(s) + Len(t) : (s \o t)[i] = IF i <= Len(s) THEN s[i] ELSE t[i - Len(s)]
    OBVIOUS
  <1>3. ASSUME NEW i \in 1..Len(s) + Len(t), NEW j \in 1..Len(s) + Len(t), i < j
        PROVE  ~Wrong((s \o t)[i], (s \o t)[j])
    <2>1. CASE j <= Len(s)
      <3>1. i \in 1..Len(s) /\ j \in 1..Len(s) /\ i <= Len(s)
        BY <1>1, <1>3, <2>1
      <3> QED
        BY <1>2, <1>3, <2>1, <3>1 DEF InOrder
    <2>2. CASE ~(i <= Len(s))
      <3>1. i - Len(s) \in 1..Len(t) /\ j - Len(s) \in 1..Len(t) /\ i - Len(s) < j - Len(s) /\ ~(j <= Len(s))
        BY <1>1, <1>3, <2>2
      <3> QED
        BY <1>2, <2>2, <3>1 DEF InOrder
    <2>3. CASE i <= Len(s) /\ ~(j <= Len(s))
      <3>1. i \in 1..Len(s) /\ j - Len(s) \in 1..Len(t)
        BY <1>1, <2>3
      <3> QED
        BY <1>2, <2>3, <3>1 DEF Has
    <2> QED
      BY <1>1, <1>3, <2>1, <2>2, <2>3
  <1> QED
    BY <1>1, <1>3 DEF InOrder

(* Short lists hold what they list. *)
LEMMA FourSteps ==
    ASSUME NEW S, NEW a \in S, NEW b \in S, NEW c \in S, NEW d \in S
    PROVE  /\ <<a, b, c, d>> \in Seq(S)
           /\ \A x : Has(<<a, b, c, d>>, x) <=> x \in {a, b, c, d}
  BY DEF Has

(* ... and are in order if each two of their elements are. *)
LEMMA FourInOrder ==
    ASSUME NEW a, NEW b, NEW c, NEW d,
           ~Wrong(a, b), ~Wrong(a, c), ~Wrong(b, c), ~Wrong(a, d), ~Wrong(b, d), ~Wrong(c, d)
    PROVE  InOrder(<<a, b, c, d>>)
  BY DEF InOrder

(* An empty list holds nothing. *)
LEMMA NoSteps ==
    /\ \A S : <<>> \in Seq(S)
    /\ \A x : ~Has(<<>>, x)
    /\ InOrder(<<>>)
  BY DEF Has, InOrder

(* A list of six. *)
LEMMA SixSteps ==
    ASSUME NEW a, NEW b, NEW c, NEW d, NEW e, NEW f, NEW S, {a, b, c, d, e, f} \subseteq S
    PROVE  /\ <<a, b, c, d, e, f>> \in Seq(S)
           /\ \A x : Has(<<a, b, c, d, e, f>>, x) <=> x \in {a, b, c, d, e, f}
           /\ ~Wrong(a, b) /\ ~Wrong(a, c) /\ ~Wrong(a, d) /\ ~Wrong(a, e) /\ ~Wrong(a, f)
              /\ ~Wrong(b, c) /\ ~Wrong(b, d) /\ ~Wrong(b, e) /\ ~Wrong(b, f)
              /\ ~Wrong(c, d) /\ ~Wrong(c, e) /\ ~Wrong(c, f)
              /\ ~Wrong(d, e) /\ ~Wrong(d, f) /\ ~Wrong(e, f) => InOrder(<<a, b, c, d, e, f>>)
  BY DEF Has, InOrder

(* The parts of the box. *)
LEMMA PartFacts ==
    /\ \A u \in Box!Units : /\ {Box!Cfg(u), Box!Bin(u), Box!Unit(u)} \subseteq Box!Parts
                            /\ Box!Cfg(u)[1] = u /\ Box!Bin(u)[1] = u /\ Box!Unit(u)[1] = u
                            /\ Box!Cfg(u) # Box!Bin(u) /\ Box!Cfg(u) # Box!Unit(u) /\ Box!Bin(u) # Box!Unit(u)
    /\ {Box!Legacy, Box!Token, Box!ProductFiles, Box!Env, Box!Catalog, Box!Panel} \subseteq Box!Parts
    /\ Restorable = {Box!Cfg("store"), Box!Bin("store"), Box!Unit("store"), Box!Legacy,
                     Box!Cfg("agent"), Box!Bin("agent"), Box!Unit("agent"), Box!ProductFiles,
                     Box!Cfg("console"), Box!Bin("console"), Box!Unit("console")}
    /\ Restorable \subseteq Box!Parts
  <1>1. \A u \in Box!Units : /\ {Box!Cfg(u), Box!Bin(u), Box!Unit(u)} \subseteq Box!Parts
                            /\ Box!Cfg(u)[1] = u /\ Box!Bin(u)[1] = u /\ Box!Unit(u)[1] = u
                            /\ Box!Cfg(u) # Box!Bin(u) /\ Box!Cfg(u) # Box!Unit(u) /\ Box!Bin(u) # Box!Unit(u)
    BY DEF Box!Parts, Box!Cfg, Box!Bin, Box!Unit
  <1>2. {Box!Legacy, Box!Token, Box!ProductFiles, Box!Env, Box!Catalog, Box!Panel} \subseteq Box!Parts
    BY DEF Box!Parts
  <1>3. Restorable = {Box!Cfg("store"), Box!Bin("store"), Box!Unit("store"), Box!Legacy,
                     Box!Cfg("agent"), Box!Bin("agent"), Box!Unit("agent"), Box!ProductFiles,
                     Box!Cfg("console"), Box!Bin("console"), Box!Unit("console")}
    <2> DEFINE R == Box!Restored
    <2>1. /\ DOMAIN R = 1..11
          /\ R[1] = Box!Bin("store") /\ R[2] = Box!Cfg("store") /\ R[3] = Box!Unit("store") /\ R[4] = Box!Legacy
          /\ R[5] = Box!Bin("agent") /\ R[6] = Box!Cfg("agent") /\ R[7] = Box!ProductFiles /\ R[8] = Box!Unit("agent")
          /\ R[9] = Box!Bin("console") /\ R[10] = Box!Cfg("console") /\ R[11] = Box!Unit("console")
      BY DEF Box!Restored
    <2>2. 1..11 = {1, 2, 3, 4, 5, 6, 7, 8, 9, 10, 11}
      OBVIOUS
    <2>3. Restorable = {R[i] : i \in {1, 2, 3, 4, 5, 6, 7, 8, 9, 10, 11}}
      BY <2>1, <2>2 DEF Restorable
    <2> HIDE DEF R
    <2> QED
      BY <2>1, <2>3
  <1> QED
    BY <1>1, <1>2, <1>3 DEF Box!Units

(* What rollback restores of a unit, backup_files was given. *)
LEMMA RestorableFacts ==
    \A u \in Box!Units, p \in Restorable :
        /\ p[1] = u => p \in Box!BackedUp(u)
        /\ p \in Box!BackedUp(u) => p[1] = u
        /\ p[1] \in Box!Units
        /\ Box!BackedUp(u) \subseteq Box!Parts
  BY PartFacts DEF Box!BackedUp, Box!Cfg, Box!Bin, Box!Unit, Box!Legacy, Box!ProductFiles, Box!Env, Box!Panel, Box!Units

(* The steps that end the upgrade of a unit. *)
LEMMA EndsFit ==
    ASSUME NEW units, NEW u \in Box!Units, u \in units, NEW restart \in BOOLEAN
    PROVE  /\ Segment(Box!Ends(u, restart), units)
           /\ \A x : Has(Box!Ends(u, restart), x) =>
                 /\ x.unit = u /\ x.op \notin {"backup", "merge", "retire"}
                 /\ x.op = "load" => x.part # Box!Cfg(u)
           /\ \A x \in Writes(u) : Has(Box!Ends(u, restart), x)
           /\ restart => Has(Box!Ends(u, restart), Restarts(u)) /\ Has(Box!Ends(u, restart), Listener(u))
  <1> DEFINE a == Box!Step("write", u, Box!Cfg(u))
             b == Box!Step("install", u, Box!Bin(u))
             c == Box!Step("load", u, Box!Unit(u))
             d == Box!Step("write", u, Box!Unit(u))
             e == Box!Step("restart", u, None)
             f == Box!Step("running", u, None)
             g == Box!Step("listener", u, None)
             h == Box!Step("probe", u, None)
             files == <<a, b, c, d>>
             starts == <<e, f, g, h>>
  <1>1. /\ {a, b, c, d, e, f, g, h} \subseteq StepType
        /\ \A x \in {a, b, c, d, e, f, g, h} : StepFits(x, units)
    BY PartFacts, RestorableFacts DEF StepFits, StepType, Box!Step, AgentCfg, Box!BackedUp, Box!Cfg, Box!Bin, Box!Unit, Box!Legacy
  <1>2. /\ ~Wrong(a, b) /\ ~Wrong(a, c) /\ ~Wrong(b, c) /\ ~Wrong(a, d) /\ ~Wrong(b, d) /\ ~Wrong(c, d)
        /\ ~Wrong(e, f) /\ ~Wrong(e, g) /\ ~Wrong(f, g) /\ ~Wrong(e, h) /\ ~Wrong(f, h) /\ ~Wrong(g, h)
    BY PartFacts DEF Wrong, Box!Step, Writes
  <1>3. \A x \in {a, b, c, d}, y \in {e, f, g, h} : ~Wrong(x, y)
    BY PartFacts DEF Wrong, Box!Step, Writes
  <1>4. /\ \A x \in {a, b, c, d, e, f, g, h} : /\ x.unit = u /\ x.op \notin {"backup", "merge", "retire"}
                                               /\ x.op = "load" => x.part # Box!Cfg(u)
        /\ Writes(u) \subseteq {a, b, c, d} /\ Restarts(u) = e /\ Listener(u) = g
    BY PartFacts DEF Box!Step, Writes, Restarts, Listener
  <1>5. Box!Ends(u, restart) = files \o (IF restart THEN starts ELSE <<>>)
    BY DEF Box!Ends
  <1> HIDE DEF a, b, c, d, e, f, g, h
  <1>6. /\ files \in Seq(StepType) /\ starts \in Seq(StepType) /\ <<>> \in Seq(StepType)
        /\ \A x : /\ ~Has(<<>>, x)
                  /\ Has(files, x) <=> x \in {a, b, c, d}
                  /\ Has(starts, x) <=> x \in {e, f, g, h}
        /\ InOrder(<<>>) /\ InOrder(files) /\ InOrder(starts)
    <2>1. a \in StepType /\ b \in StepType /\ c \in StepType /\ d \in StepType
      BY <1>1
    <2>2. e \in StepType /\ f \in StepType /\ g \in StepType /\ h \in StepType
      BY <1>1
    <2>3. files \in Seq(StepType) /\ \A x : Has(files, x) <=> x \in {a, b, c, d}
      BY <2>1, FourSteps
    <2>4. starts \in Seq(StepType) /\ \A x : Has(starts, x) <=> x \in {e, f, g, h}
      BY <2>2, FourSteps
    <2>5. InOrder(files)
      BY <1>2, FourInOrder
    <2>6. InOrder(starts)
      BY <1>2, FourInOrder
    <2> QED
      BY <2>3, <2>4, <2>5, <2>6, NoSteps
  <1> HIDE DEF files, starts
  <1>7. CASE restart
    <2>1. Box!Ends(u, restart) = files \o starts
      BY <1>5, <1>7
    <2>2. /\ files \o starts \in Seq(StepType)
          /\ \A x : Has(files \o starts, x) <=> Has(files, x) \/ Has(starts, x)
      BY <1>6, JoinHas
    <2>3. InOrder(files \o starts)
      BY <1>3, <1>6, JoinOrder
    <2>4. \A x : Has(Box!Ends(u, restart), x) => x \in {a, b, c, d, e, f, g, h}
      BY <1>6, <2>1, <2>2
    <2>5. \A x \in {a, b, c, d, e, f, g, h} : Has(Box!Ends(u, restart), x)
      BY <1>6, <2>1, <2>2
    <2>6. Segment(Box!Ends(u, restart), units)
      BY <1>1, <2>1, <2>2, <2>3, <2>4 DEF Segment
    <2>7. ASSUME NEW x, Has(Box!Ends(u, restart), x)
          PROVE  /\ x.unit = u /\ x.op \notin {"backup", "merge", "retire"}
                 /\ x.op = "load" => x.part # Box!Cfg(u)
      <3>1. x \in {a, b, c, d, e, f, g, h}
        BY <2>4, <2>7
      <3> QED
        BY <1>4, <3>1
    <2>8. \A x \in Writes(u) : Has(Box!Ends(u, restart), x)
      BY <1>4, <2>5
    <2>9. Has(Box!Ends(u, restart), Restarts(u)) /\ Has(Box!Ends(u, restart), Listener(u))
      BY <1>4, <2>5
    <2> QED
      BY <2>6, <2>7, <2>8, <2>9
  <1>8. CASE ~restart
    <2>1. Box!Ends(u, restart) = files
      BY <1>5, <1>6, <1>8
    <2>4. \A x : Has(Box!Ends(u, restart), x) <=> x \in {a, b, c, d}
      BY <1>6, <2>1
    <2>5. Segment(Box!Ends(u, restart), units)
      BY <1>1, <1>6, <2>1, <2>4 DEF Segment
    <2>7. ASSUME NEW x, Has(Box!Ends(u, restart), x)
          PROVE  /\ x.unit = u /\ x.op \notin {"backup", "merge", "retire"}
                 /\ x.op = "load" => x.part # Box!Cfg(u)
      <3>1. x \in {a, b, c, d, e, f, g, h}
        BY <2>4, <2>7
      <3> QED
        BY <1>4, <3>1
    <2>8. \A x \in Writes(u) : Has(Box!Ends(u, restart), x)
      BY <1>4, <2>4
    <2> QED
      BY <1>8, <2>5, <2>7, <2>8
  <1> QED
    BY <1>7, <1>8

(* Segments in a row are a segment, if nothing of the second had to come first. *)
LEMMA JoinSegments ==
    ASSUME NEW units, NEW s, NEW t, Segment(s, units), Segment(t, units),
           \A x, y : Has(s, x) /\ Has(t, y) => ~Wrong(x, y)
    PROVE  /\ Segment(s \o t, units)
           /\ \A x : Has(s \o t, x) <=> Has(s, x) \/ Has(t, x)
  <1>1. /\ s \in Seq(StepType) /\ t \in Seq(StepType) /\ InOrder(s) /\ InOrder(t)
        /\ \A x : Has(s, x) => StepFits(x, units)
        /\ \A x : Has(t, x) => StepFits(x, units)
    BY DEF Segment
  <1>2. s \o t \in Seq(StepType) /\ \A x : Has(s \o t, x) <=> Has(s, x) \/ Has(t, x)
    BY <1>1, JoinHas
  <1>3. InOrder(s \o t)
    BY <1>1, JoinOrder
  <1> QED
    BY <1>1, <1>2, <1>3 DEF Segment

(* An empty list is a segment. *)
LEMMA NoSegment == \A units : Segment(<<>>, units)
  BY NoSteps DEF Segment

(* A list of three. *)
LEMMA ThreeSteps ==
    ASSUME NEW S, NEW a \in S, NEW b \in S, NEW c \in S
    PROVE  /\ <<a, b, c>> \in Seq(S)
           /\ \A x : Has(<<a, b, c>>, x) <=> x \in {a, b, c}
           /\ ~Wrong(a, b) /\ ~Wrong(a, c) /\ ~Wrong(b, c) => InOrder(<<a, b, c>>)
  BY DEF Has, InOrder

(* What begins the upgrade of a unit. *)
BeginOps == {"backup", "retire", "load", "write", "merge"}

Begun(t, u, units) ==
    /\ Segment(t, units)
    /\ \A x : Has(t, x) => x.unit = u /\ x.op \in BeginOps
    /\ Has(t, Saves(u))
    /\ u = "agent" => Has(t, Loads) /\ Has(t, Merges)

(* How the upgrade of the store begins (apply_serve_upgrade). *)
LEMMA StoreBegun ==
    ASSUME NEW units, "store" \in units PROVE Begun(Box!Begins("store"), "store", units)
  <1> DEFINE a == Box!Step("backup", "store", None)
             b == Box!Step("retire", "store", None)
             c == Box!Step("load", "store", Box!Cfg("store"))
  <1>1. /\ a \in StepType /\ b \in StepType /\ c \in StepType
        /\ StepFits(a, units) /\ StepFits(b, units) /\ StepFits(c, units)
    BY PartFacts DEF StepFits, StepType, Box!Step, Box!Units
  <1>2. ~Wrong(a, b) /\ ~Wrong(a, c) /\ ~Wrong(b, c)
    BY DEF Wrong, Box!Step
  <1>3. \A x \in {a, b, c} : x.unit = "store" /\ x.op \in BeginOps
    BY DEF Box!Step, BeginOps
  <1>4. Saves("store") = a /\ Box!Begins("store") = <<a, b, c>>
    BY DEF Saves, Box!Begins
  <1> HIDE DEF a, b, c
  <1>5. /\ <<a, b, c>> \in Seq(StepType) /\ InOrder(<<a, b, c>>)
        /\ \A x : Has(<<a, b, c>>, x) <=> x \in {a, b, c}
    BY <1>1, <1>2, ThreeSteps
  <1>6. Segment(<<a, b, c>>, units)
    BY <1>1, <1>5 DEF Segment
  <1> QED
    BY <1>3, <1>4, <1>5, <1>6 DEF Begun

(* ... of the console (apply_console_upgrade). *)
LEMMA ConsoleBegun ==
    ASSUME NEW units, "console" \in units PROVE Begun(Box!Begins("console"), "console", units)
  <1> DEFINE a == Box!Step("load", "console", Box!Cfg("console"))
             b == Box!Step("backup", "console", None)
             c == Box!Step("write", "console", Box!Panel)
  <1>0. Box!Panel[1] = "console" /\ Box!Panel \notin Restorable
    BY PartFacts DEF Box!Panel, Box!Cfg, Box!Bin, Box!Unit, Box!Legacy, Box!ProductFiles
  <1>1. /\ a \in StepType /\ b \in StepType /\ c \in StepType
        /\ StepFits(a, units) /\ StepFits(b, units) /\ StepFits(c, units)
    BY <1>0, PartFacts DEF StepFits, StepType, Box!Step, Box!Units
  <1>2. ~Wrong(a, b) /\ ~Wrong(a, c) /\ ~Wrong(b, c)
    BY DEF Wrong, Box!Step
  <1>3. \A x \in {a, b, c} : x.unit = "console" /\ x.op \in BeginOps
    BY DEF Box!Step, BeginOps
  <1>4. Saves("console") = b /\ Box!Begins("console") = <<a, b, c>>
    BY DEF Saves, Box!Begins
  <1> HIDE DEF a, b, c
  <1>5. /\ <<a, b, c>> \in Seq(StepType) /\ InOrder(<<a, b, c>>)
        /\ \A x : Has(<<a, b, c>>, x) <=> x \in {a, b, c}
    BY <1>1, <1>2, ThreeSteps
  <1>6. Segment(<<a, b, c>>, units)
    BY <1>1, <1>5 DEF Segment
  <1> QED
    BY <1>3, <1>4, <1>5, <1>6 DEF Begun

(* ... and of the agent (apply_agent_upgrade). *)
LEMMA AgentBegun ==
    ASSUME NEW units, "agent" \in units PROVE Begun(Box!Begins("agent"), "agent", units)
  <1> DEFINE a == Box!Step("load", "agent", Box!Cfg("agent"))
             b == Box!Step("backup", "agent", None)
             c == Box!Step("write", "agent", Box!Token)
             d == Box!Step("merge", "agent", None)
             e == Box!Step("write", "agent", Box!ProductFiles)
             f == Box!Step("write", "agent", Box!Env)
  <1>0. /\ \A p \in {Box!Token, Box!ProductFiles, Box!Env} : p[1] = "agent" /\ p # Box!Cfg("agent")
        /\ Box!Token \notin Restorable /\ Box!Env \notin Restorable
        /\ Box!ProductFiles \in Box!BackedUp("agent") /\ Box!ProductFiles # Box!Legacy
    BY PartFacts DEF Box!Token, Box!Env, Box!Cfg, Box!Bin, Box!Unit, Box!Legacy, Box!ProductFiles, Box!BackedUp
  <1>1. {a, b, c, d, e, f} \subseteq StepType
    BY <1>0, PartFacts DEF StepType, Box!Step, Box!Units
  <1>1a. StepFits(a, units) /\ StepFits(b, units) /\ StepFits(d, units)
    BY <1>0, <1>1, PartFacts DEF StepFits, Box!Step, Box!Units
  <1>1b. StepFits(c, units) /\ StepFits(e, units) /\ StepFits(f, units)
    BY <1>0, <1>1, PartFacts DEF StepFits, Box!Step, Box!Units
  <1>2. /\ ~Wrong(a, b) /\ ~Wrong(a, c) /\ ~Wrong(a, d) /\ ~Wrong(a, e) /\ ~Wrong(a, f)
        /\ ~Wrong(b, c) /\ ~Wrong(b, d) /\ ~Wrong(b, e) /\ ~Wrong(b, f)
        /\ ~Wrong(c, d) /\ ~Wrong(c, e) /\ ~Wrong(c, f)
        /\ ~Wrong(d, e) /\ ~Wrong(d, f) /\ ~Wrong(e, f)
    BY <1>0 DEF Wrong, Box!Step
  <1>3. \A x \in {a, b, c, d, e, f} : x.unit = "agent" /\ x.op \in BeginOps
    BY DEF Box!Step, BeginOps
  <1>4. /\ Saves("agent") = b /\ Loads = a /\ Merges = d
        /\ Box!Begins("agent") = <<a, b, c, d, e, f>>
    BY DEF Saves, Loads, Merges, AgentCfg, Box!Begins
  <1> HIDE DEF a, b, c, d, e, f
  <1>5. /\ <<a, b, c, d, e, f>> \in Seq(StepType)
        /\ \A x : Has(<<a, b, c, d, e, f>>, x) <=> x \in {a, b, c, d, e, f}
        /\ InOrder(<<a, b, c, d, e, f>>)
    BY <1>1, <1>2, SixSteps
  <1>6. Segment(<<a, b, c, d, e, f>>, units)
    BY <1>1, <1>1a, <1>1b, <1>5 DEF Segment
  <1> QED
    BY <1>3, <1>4, <1>5, <1>6 DEF Begun

(* What the upgrade of a unit must do. *)
Needed(u, restart) ==
    {Saves(u)} \cup Writes(u)
    \cup (IF restart THEN {Restarts(u), Listener(u)} ELSE {})
    \cup (IF u = "agent" THEN {Loads, Merges} ELSE {})

(* The upgrade of a unit does all that it must, in order. *)
LEMMA UnitFits ==
    ASSUME NEW units, NEW u \in Box!Units, u \in units, NEW restart \in BOOLEAN
    PROVE  LET t == Box!Begins(u) \o Box!Ends(u, restart)
           IN  /\ Segment(t, units)
               /\ \A x : Has(t, x) => x.unit = u
               /\ \A x \in Needed(u, restart) : Has(t, x)
  <1> DEFINE s == Box!Begins(u)
             t == Box!Ends(u, restart)
  <1>1. Begun(s, u, units)
    BY StoreBegun, AgentBegun, ConsoleBegun DEF Box!Units
  <1>2. /\ Segment(t, units)
        /\ \A x : Has(t, x) =>
                 /\ x.unit = u /\ x.op \notin {"backup", "merge", "retire"}
                 /\ x.op = "load" => x.part # Box!Cfg(u)
        /\ \A x \in Writes(u) : Has(t, x)
        /\ restart => Has(t, Restarts(u)) /\ Has(t, Listener(u))
    BY EndsFit
  <1> HIDE DEF s, t
  <1>3. ASSUME NEW x, NEW y, Has(s, x), Has(t, y) PROVE ~Wrong(x, y)
    <2>1. x.op \in BeginOps /\ x.unit = u
      BY <1>1, <1>3 DEF Begun
    <2>2. y.op \notin {"backup", "merge", "retire"} /\ (y.op = "load" => y.part # Box!Cfg(u)) /\ y.unit = u
      BY <1>2, <1>3
    <2> QED
      BY <2>1, <2>2 DEF Wrong, BeginOps
  <1>4. Segment(s, units) /\ \A x : Has(s, x) => x.unit = u
    BY <1>1 DEF Begun
  <1>5. /\ Segment(s \o t, units)
        /\ \A x : Has(s \o t, x) <=> Has(s, x) \/ Has(t, x)
    BY <1>2, <1>3, <1>4, JoinSegments
  <1>6. \A x : Has(s \o t, x) => x.unit = u
    BY <1>2, <1>4, <1>5
  <1>7. \A x \in Needed(u, restart) : Has(s \o t, x)
    BY <1>1, <1>2, <1>5 DEF Needed, Begun
  <1> QED
    BY <1>5, <1>6, <1>7 DEF s, t

(* The tools are published last, in the name of the agent. *)
LEMMA ToolsFit ==
    ASSUME NEW units, "agent" \in units, NEW restart \in BOOLEAN
    PROVE  /\ Segment(Box!ToolSteps(restart), units)
           /\ \A x : Has(Box!ToolSteps(restart), x) =>
                 /\ x.unit = "agent" /\ x.op \in {"install", "restart", "running"}
                 /\ x \notin Writes("agent")
  <1> DEFINE a == Box!Step("install", "agent", Box!Catalog)
             b == Box!Step("restart", "agent", None)
             c == Box!Step("running", "agent", None)
  <1>0. Box!Catalog[1] = "agent" /\ Box!Catalog \notin Restorable /\ Box!Catalog # Box!Bin("agent")
    BY PartFacts DEF Box!Catalog, Box!Cfg, Box!Bin, Box!Unit, Box!Legacy, Box!ProductFiles
  <1>1. /\ a \in StepType /\ b \in StepType /\ c \in StepType
        /\ StepFits(a, units) /\ StepFits(b, units) /\ StepFits(c, units)
    BY <1>0, PartFacts DEF StepFits, StepType, Box!Step, Box!Units, AgentCfg
  <1>2. ~Wrong(a, b) /\ ~Wrong(a, c) /\ ~Wrong(b, c)
    BY DEF Wrong, Box!Step, Writes
  <1>3. \A x \in {a, b, c} : /\ x.unit = "agent" /\ x.op \in {"install", "restart", "running"}
                             /\ x \notin Writes("agent")
    BY <1>0 DEF Box!Step, Writes
  <1>4. Box!ToolSteps(restart) = <<a>> \o (IF restart THEN <<b, c>> ELSE <<>>)
    BY DEF Box!ToolSteps
  <1> HIDE DEF a, b, c
  <1>5. <<a>> \in Seq(StepType) /\ <<b, c>> \in Seq(StepType) /\ <<>> \in Seq(StepType)
    BY <1>1
  <1>6. /\ \A x : Has(<<a>>, x) <=> x = a
        /\ \A x : Has(<<b, c>>, x) <=> x \in {b, c}
    BY DEF Has
  <1>7. InOrder(<<a>>) /\ InOrder(<<b, c>>)
    BY <1>2 DEF InOrder
  <1>8. Segment(<<a>>, units) /\ Segment(<<b, c>>, units)
    BY <1>1, <1>5, <1>6, <1>7 DEF Segment
  <1> DEFINE rest == IF restart THEN <<b, c>> ELSE <<>>
  <1>9. Segment(rest, units) /\ \A x : Has(rest, x) => x \in {b, c}
    <2>1. CASE restart
      BY <1>6, <1>8, <2>1
    <2>2. CASE ~restart
      BY <2>2, NoSegment, NoSteps
    <2> QED
      BY <2>1, <2>2
  <1>10. Box!ToolSteps(restart) = <<a>> \o rest
    BY <1>4
  <1> HIDE DEF rest
  <1>11. \A x, y : Has(<<a>>, x) /\ Has(rest, y) => ~Wrong(x, y)
    BY <1>2, <1>6, <1>9
  <1>12. /\ Segment(<<a>> \o rest, units)
         /\ \A x : Has(<<a>> \o rest, x) <=> Has(<<a>>, x) \/ Has(rest, x)
    BY <1>8, <1>9, <1>11, JoinSegments
  <1>13. ASSUME NEW x, Has(Box!ToolSteps(restart), x)
         PROVE  /\ x.unit = "agent" /\ x.op \in {"install", "restart", "running"}
                /\ x \notin Writes("agent")
    <2>1. x \in {a, b, c}
      BY <1>6, <1>9, <1>10, <1>12, <1>13
    <2> QED
      BY <1>3, <2>1
  <1> QED
    BY <1>10, <1>12, <1>13

(* The whole program. *)
LEMMA ProgramFits ==
    ASSUME NEW units \in SUBSET Box!Units, NEW restart \in BOOLEAN
    PROVE  /\ Segment(Box!Program(units, restart), units)
           /\ \A u \in units : \A x \in Needed(u, restart) : Has(Box!Program(units, restart), x)
  <1> DEFINE of(u) == IF u \in units THEN Box!Begins(u) \o Box!Ends(u, restart) ELSE <<>>
             tools == IF "agent" \in units THEN Box!ToolSteps(restart) ELSE <<>>
             s == of("store")
             a == of("agent")
             c == of("console")
  <1>1. \A u \in Box!Units : /\ Segment(of(u), units)
                             /\ \A x : Has(of(u), x) => x.unit = u
                             /\ u \in units => \A x \in Needed(u, restart) : Has(of(u), x)
    <2> SUFFICES ASSUME NEW u \in Box!Units
                 PROVE  /\ Segment(of(u), units)
                        /\ \A x : Has(of(u), x) => x.unit = u
                        /\ u \in units => \A x \in Needed(u, restart) : Has(of(u), x)
      OBVIOUS
    <2>1. CASE u \in units
      <3>1. of(u) = Box!Begins(u) \o Box!Ends(u, restart)
        BY <2>1
      <3> DEFINE t == Box!Begins(u) \o Box!Ends(u, restart)
      <3>2. /\ Segment(t, units) /\ \A x : Has(t, x) => x.unit = u
            /\ \A x \in Needed(u, restart) : Has(t, x)
        BY <2>1, UnitFits
      <3> QED
        BY <3>1, <3>2
    <2>2. CASE u \notin units
      <3>1. of(u) = <<>>
        BY <2>2
      <3> QED
        BY <2>2, <3>1, NoSegment, NoSteps
    <2> QED
      BY <2>1, <2>2
  <1>2. /\ Segment(s, units) /\ \A x : Has(s, x) => x.unit = "store"
        /\ "store" \in units => \A x \in Needed("store", restart) : Has(s, x)
        /\ Segment(a, units) /\ \A x : Has(a, x) => x.unit = "agent"
        /\ "agent" \in units => \A x \in Needed("agent", restart) : Has(a, x)
        /\ Segment(c, units) /\ \A x : Has(c, x) => x.unit = "console"
        /\ "console" \in units => \A x \in Needed("console", restart) : Has(c, x)
    BY <1>1 DEF Box!Units
  <1>3. /\ Segment(tools, units)
        /\ \A x : Has(tools, x) => /\ x.unit = "agent" /\ x.op \in {"install", "restart", "running"}
                                   /\ x \notin Writes("agent")
    <2>1. CASE "agent" \in units
      <3>1. tools = Box!ToolSteps(restart)
        BY <2>1
      <3> QED
        BY <2>1, <3>1, ToolsFit
    <2>2. CASE "agent" \notin units
      <3>1. tools = <<>>
        BY <2>2
      <3> QED
        BY <3>1, NoSegment, NoSteps
    <2> QED
      BY <2>1, <2>2
  <1>4. Box!Program(units, restart) = s \o a \o c \o tools
    BY DEF Box!Program
  <1> HIDE DEF s, a, c, tools, of
  <1>5. \A x, y : Has(s, x) /\ Has(a, y) => ~Wrong(x, y)
    BY <1>2 DEF Wrong
  <1>6. Segment(s \o a, units) /\ \A x : Has(s \o a, x) <=> Has(s, x) \/ Has(a, x)
    BY <1>2, <1>5, JoinSegments
  <1> DEFINE sa == s \o a
  <1>6a. Segment(sa, units) /\ \A x : Has(sa, x) <=> Has(s, x) \/ Has(a, x)
    BY <1>6
  <1>4a. Box!Program(units, restart) = sa \o c \o tools
    BY <1>4
  <1> HIDE DEF sa
  <1>7. \A x, y : Has(sa, x) /\ Has(c, y) => ~Wrong(x, y)
    BY <1>2, <1>6a DEF Wrong
  <1>8. Segment(sa \o c, units) /\ \A x : Has(sa \o c, x) <=> Has(sa, x) \/ Has(c, x)
    BY <1>2, <1>6a, <1>7, JoinSegments
  <1> DEFINE sac == sa \o c
  <1>8a. Segment(sac, units) /\ \A x : Has(sac, x) <=> Has(sa, x) \/ Has(c, x)
    BY <1>8
  <1>4b. Box!Program(units, restart) = sac \o tools
    BY <1>4a
  <1> HIDE DEF sac
  <1>9. ASSUME NEW x, NEW y, Has(sac, x), Has(tools, y) PROVE ~Wrong(x, y)
    <2>1. y.unit = "agent" /\ y.op \in {"install", "restart", "running"} /\ y \notin Writes("agent")
      BY <1>3, <1>9
    <2>2. x.unit = "store" => y.unit # x.unit
      BY <2>1
    <2> QED
      BY <2>1, <2>2 DEF Wrong
  <1>10. Segment(sac \o tools, units) /\ \A x : Has(sac \o tools, x) <=> Has(sac, x) \/ Has(tools, x)
    BY <1>3, <1>8a, <1>9, JoinSegments
  <1>11. ASSUME NEW u \in units, NEW x \in Needed(u, restart) PROVE Has(sac \o tools, x)
    <2>1. u \in {"store", "agent", "console"}
      BY DEF Box!Units
    <2> QED
      BY <1>2, <1>6a, <1>8a, <1>10, <2>1, <1>11
  <1> QED
    BY <1>4b, <1>10, <1>11

BoxConstants ==
    /\ None # Torn /\ \A n \in Nat : n # None /\ n # Torn
    /\ None \notin Snapshot
    /\ \A S \in SUBSET (Publishers \cup Issued) : S # None /\ S # Torn
    /\ Upgrades \subseteq SUBSET Box!Units
    /\ Keep \in Nat \ {0} /\ MaxApplies \in Nat

(* What is assumed of the constants. *)
LEMMA ConstantsOfTheBox == BoxConstants
  BY DeployAssumption, KeysAssumption, StoreAssumption, RecordsAssumption
     DEF BoxConstants, Snapshot, Content, AdminDocument, Box!Units

(* The configuration of the agent is a part that rollback restores. *)
LEMMA CfgFacts == /\ AgentCfg \in Restorable /\ AgentCfg # Box!Legacy /\ AgentCfg \in Box!Parts
                  /\ AgentCfg[1] = "agent" /\ AgentCfg \in Box!BackedUp("agent")
  BY PartFacts DEF AgentCfg, Box!Legacy, Box!Cfg, Box!Units, Box!BackedUp

(* The next step of an apply is done: what is left of it. *)
Moved(b) == /\ apply'.at = "steps" /\ apply'.n = apply.n /\ apply'.units = apply.units
            /\ apply'.restart = apply.restart /\ apply'.before = apply.before
            /\ apply'.whole = apply.whole /\ apply'.blind = b /\ apply'.todo = Tail(apply.todo)
            /\ apply' \in ApplyType /\ Running'

Left(s) == /\ Segment(apply'.todo, apply.units)
           /\ \A x : Has(apply.todo, x) <=> x = s \/ Has(apply'.todo, x)
           /\ \A x : Has(apply'.todo, x) => ~Wrong(s, x) /\ StepFits(x, apply.units)
           /\ StepFits(s, apply.units)

(* The step at hand leaves the list, and nothing that is left had to come before it. *)
LEMMA Moves ==
    ASSUME ApplyOK, StepsFit, apply.at = "steps", apply.todo # <<>>, NEW b \in BOOLEAN,
           apply' = [apply EXCEPT !.todo = Tail(@), !.blind = b]
    PROVE  Moved(b) /\ Left(Head(apply.todo)) /\ Running
  <1>1. Running
    BY DEF Running, Box!NoApply
  <1>2. apply \in ApplyType /\ Segment(apply.todo, apply.units)
    BY <1>1 DEF ApplyOK, StepsFit
  <1>3. apply.todo \in Seq(StepType) /\ InOrder(apply.todo) /\ \A x : Has(apply.todo, x) => StepFits(x, apply.units)
    BY <1>2 DEF Segment
  <1>4. Tail(apply.todo) \in Seq(StepType)
    BY <1>3
  <1>5. /\ apply'.at = "steps" /\ apply'.n = apply.n /\ apply'.units = apply.units
        /\ apply'.restart = apply.restart /\ apply'.before = apply.before
        /\ apply'.whole = apply.whole /\ apply'.blind = b /\ apply'.todo = Tail(apply.todo)
        /\ apply' \in ApplyType
    BY <1>2, <1>4 DEF ApplyType
  <1>6. Running'
    BY <1>5 DEF Running, Box!NoApply
  <1> DEFINE s == Head(apply.todo)
  <1>7. \A x : Has(apply.todo, x) <=> x = s \/ Has(Tail(apply.todo), x)
    BY <1>3, TailHas
  <1>8. InOrder(Tail(apply.todo)) /\ \A x : Has(Tail(apply.todo), x) => ~Wrong(s, x)
    BY <1>3, TailOrder
  <1>9. Left(s)
    BY <1>3, <1>4, <1>5, <1>7, <1>8 DEF Left, Segment
  <1> QED
    BY <1>1, <1>5, <1>6, <1>9 DEF Moved

(* Done is such a move, without a word about the listener. *)
LEMMA DoneMoves ==
    ASSUME ApplyOK, apply.at = "steps", Box!Done
    PROVE  apply.blind \in BOOLEAN /\ apply' = [apply EXCEPT !.todo = Tail(@), !.blind = apply.blind]
  <1>1. apply \in ApplyType
    BY DEF ApplyOK, Running, Box!NoApply
  <1> QED
    BY <1>1 DEF Box!Done, ApplyType

(* The step at hand is done. *)
LEMMA NowDone ==
    ASSUME ApplyOK, StepsFit, NEW op, Box!Doing(op), Box!Done
    PROVE  /\ Moved(apply.blind) /\ Left(Box!Now) /\ Running
           /\ Box!Now.op = op /\ apply.at = "steps" /\ apply.todo # <<>>
  <1>1. apply.at = "steps" /\ apply.todo # <<>> /\ Box!Now.op = op
    BY DEF Box!Doing
  <1>2. apply.blind \in BOOLEAN /\ apply' = [apply EXCEPT !.todo = Tail(@), !.blind = apply.blind]
    BY <1>1, DoneMoves
  <1>3. Moved(apply.blind) /\ Left(Head(apply.todo)) /\ Running
    BY <1>1, <1>2, Moves
  <1> QED
    BY <1>1, <1>3 DEF Box!Now

(* A move keeps the apply what it is. *)
LEMMA MovedOK ==
    ASSUME ApplyOK, Running, NEW b \in BOOLEAN, Moved(b), applies' = applies, snapshots'[applies] \in Snapshot
    PROVE  ApplyOK' /\ RollbackRuns'
  BY DEF ApplyOK, Moved, RollbackRuns

(* What a step leaves as it is that writes nothing of what the invariant is about. *)
LEMMA QuietStep ==
    ASSUME BoxInv, NEW op \in {"load", "running", "probe"}, Box!Doing(op), Box!Done,
           op = "load" => file[Box!Now.part] # Torn,
           UNCHANGED <<file, admin, running, legacyUp, holder, snapshots, applies, waived>>
    PROVE  BoxInv'
  <1> DEFINE s == Box!Now
  <1>1. Moved(apply.blind) /\ Left(s) /\ Running /\ s.op = op /\ apply.at = "steps"
    BY NowDone DEF BoxInv
  <1>2. BoxType'
    BY DEF BoxInv, BoxType
  <1>3. apply \in ApplyType /\ snapshots[applies] \in Snapshot
    BY <1>1 DEF BoxInv, ApplyOK
  <1>4. ApplyOK' /\ RollbackRuns'
    BY <1>1, <1>3, MovedOK DEF BoxInv, ApplyType
  <1>5. s.op = "load" /\ s = Loads => file[AgentCfg] # Torn
    BY <1>1 DEF Loads, Box!Step
  <1> HIDE DEF s
  <1>6. \A x : Has(apply.todo, x) => x = s \/ Has(apply'.todo, x)
    BY <1>1 DEF Left
  <1>7. \A x : Has(apply'.todo, x) => Has(apply.todo, x)
    BY <1>1 DEF Left
  <1>8. \A u : /\ s # Saves(u) /\ s # Merges /\ s # Restarts(u) /\ s # Listener(u)
               /\ s \notin Writes(u)
    BY <1>1 DEF Saves, Merges, Restarts, Listener, Writes, Box!Step
  <1>8a. s = Loads => file[AgentCfg] # Torn
    BY <1>1, <1>5 DEF Loads, Box!Step
  <1>9. StepsFit'
    BY <1>1, <1>6, <1>7, <1>8, <1>8a DEF BoxInv, StepsFit, Moved, Left, Saved, Held
  <1>10. UnitsFit'
    BY <1>1, <1>6, <1>7, <1>8 DEF BoxInv, UnitsFit, Moved, Box!Listens
  <1>11. RollbackFits'
    BY <1>1 DEF BoxInv, RollbackFits, Moved, Saved
  <1>12. TokensHeld'
    BY <1>1 DEF BoxInv, TokensHeld, ConfigHeld, Moved, Held
  <1> QED
    BY <1>2, <1>4, <1>9, <1>10, <1>11, <1>12 DEF BoxInv

(* backup_files: no file of the unit was written yet. *)
LEMMA BoxBacksUp == ASSUME BoxInv, BoxConstants, Box!Backup PROVE BoxInv'
  <1> DEFINE s == Box!Now
             n == apply.n
  <1>0. /\ Box!Doing("backup") /\ Box!Done
        /\ snapshots' = [snapshots EXCEPT ![n] =
             [files |-> [p \in Box!Parts |-> IF p \in Box!BackedUp(s.unit) THEN file[p]
                                             ELSE @.files[p]],
              admin |-> IF s.unit = "agent" THEN admin ELSE @.admin]]
        /\ UNCHANGED <<file, admin, running, legacyUp, holder, applies, waived>>
    BY DEF Box!Backup, Box!box
  <1>1. Moved(apply.blind) /\ Left(s) /\ Running /\ s.op = "backup" /\ apply.at = "steps"
    BY <1>0, NowDone DEF BoxInv
  <1>2. /\ apply \in ApplyType /\ snapshots[applies] \in Snapshot /\ n = applies /\ applies \in 1..MaxApplies
        /\ snapshots \in [1..MaxApplies -> Snapshot \cup {None}]
        /\ file \in [Box!Parts -> Content] /\ admin \in AdminDocument
    BY <1>1 DEF BoxInv, ApplyOK, BoxType
  <1>3. /\ s.unit \in apply.units /\ s.unit \in Box!Units /\ s = Saves(s.unit)
    BY <1>1, <1>2 DEF Left, StepFits, Saves, ApplyType
  <1> HIDE DEF s, n
  <1> DEFINE new == [files |-> [p \in Box!Parts |-> IF p \in Box!BackedUp(s.unit) THEN file[p]
                                             ELSE Saved[p]],
                     admin |-> IF s.unit = "agent" THEN admin ELSE snapshots[applies].admin]
  <1>4. snapshots' = [snapshots EXCEPT ![applies] = new]
    BY <1>0, <1>2 DEF Saved
  <1>5. new \in Snapshot
    BY <1>2 DEF Snapshot, Saved
  <1>5a. \A p \in Box!Parts : new.files[p] = IF p \in Box!BackedUp(s.unit) THEN file[p] ELSE Saved[p]
    OBVIOUS
  <1> HIDE DEF new
  <1>6. /\ snapshots' \in [1..MaxApplies -> Snapshot \cup {None}] /\ snapshots'[applies] = new
        /\ \A m \in 1..MaxApplies : m # applies => snapshots'[m] = snapshots[m]
    BY <1>2, <1>4, <1>5
  <1>7. Saved' = new.files /\ \A p \in Restorable : p \in Box!Parts
    BY <1>0, <1>6, PartFacts DEF Saved
  <1>8. \A p \in Restorable : Saved'[p] = IF p[1] = s.unit THEN file[p] ELSE Saved[p]
    BY <1>3, <1>5a, <1>7, RestorableFacts
  <1>9. BoxType'
    BY <1>0, <1>2, <1>6 DEF BoxInv, BoxType
  <1>10. ApplyOK' /\ RollbackRuns'
    BY <1>0, <1>1, <1>2, <1>5, <1>6, MovedOK DEF BoxInv, ApplyType
  <1>11. \A p \in Restorable : p[1] = s.unit => file[p] = apply.before[p]
    BY <1>1, <1>3 DEF BoxInv, StepsFit, Left
  <1>12. StepsFit'
    <2>1. \A u : Has(apply.todo, Saves(u)) => u = s.unit \/ Has(apply'.todo, Saves(u))
      BY <1>1, <1>3 DEF Left, Saves, Box!Step
    <2>2. Has(apply.todo, Loads) => Has(apply'.todo, Loads)
      BY <1>1 DEF Left, Loads, Box!Step
    <2>3. Has(apply.todo, Merges) => Has(apply'.todo, Merges)
      BY <1>1 DEF Left, Merges, Box!Step
    <2>4. \A x : Has(apply'.todo, x) => Has(apply.todo, x)
      BY <1>1 DEF Left
    <2>5. Segment(apply'.todo, apply.units)
      BY <1>1 DEF Left
    <2>6. \A u \in apply.units : \A p \in Restorable : p[1] = u =>
              /\ Has(apply'.todo, Saves(u)) => file[p] = apply.before[p]
              /\ Has(apply'.todo, Saves(u)) \/ Saved'[p] = apply.before[p]
      BY <1>1, <1>8, <1>11, <2>1, <2>4 DEF BoxInv, StepsFit
    <2>7. "agent" \in apply.units =>
              /\ Has(apply'.todo, Loads) \/ file[AgentCfg] # Torn
              /\ Has(apply'.todo, Merges) \/ file[AgentCfg] # 0 \/ Publishers \subseteq Held
      BY <1>1, <2>2, <2>3 DEF BoxInv, StepsFit
    <2> QED
      BY <1>0, <1>1, <2>5, <2>6, <2>7 DEF BoxInv, StepsFit, Moved, Held
  <1>13. UnitsFit'
    <2>1. \A u : s # Restarts(u) /\ s # Listener(u) /\ s \notin Writes(u)
      BY <1>1 DEF Restarts, Listener, Writes, Box!Step
    <2>2. \A x : Has(apply.todo, x) => x = s \/ Has(apply'.todo, x)
      BY <1>1 DEF Left
    <2>3. \A x : Has(apply'.todo, x) => Has(apply.todo, x)
      BY <1>1 DEF Left
    <2> QED
      BY <1>0, <1>1, <2>1, <2>2, <2>3 DEF BoxInv, UnitsFit, Moved, Box!Listens
  <1>14. RollbackFits'
    <2>1. ASSUME NEW p \in Restorable
          PROVE  /\ Saved'[p] \in {None, apply.before[p], Torn}
                 /\ apply.whole => Saved'[p] \in {None, apply.before[p]}
                 /\ apply.whole =>
                       file[p] = apply.before[p] \/ (Saved'[p] = apply.before[p] /\ Saved'[p] # None)
      BY <1>1, <1>8, <1>11 DEF BoxInv, RollbackFits
    <2> QED
      BY <1>0, <1>1, <2>1 DEF RollbackFits, Moved
  <1>15. TokensHeld'
    <2>1. CASE file[AgentCfg] # Torn
      BY <1>0, <1>1, <2>1 DEF BoxInv, TokensHeld, ConfigHeld, Moved, Held
    <2>2. ASSUME file[AgentCfg] = Torn, NEW m \in 1..MaxApplies, snapshots[m] # None, snapshots[m].files[AgentCfg] = 0
          PROVE  snapshots'[m] # None /\ snapshots'[m].files[AgentCfg] = 0
      <3>1. CASE m # applies
        BY <1>6, <2>2, <3>1
      <3>2. CASE m = applies
        <4>1. Saved[AgentCfg] = 0
          BY <2>2, <3>2 DEF Saved
        <4>2. apply.before[AgentCfg] = 0
          BY <1>1, <4>1, CfgFacts DEF BoxInv, RollbackFits, BoxConstants
        <4>3. s.unit # "agent"
          BY <1>11, <2>2, <4>2, CfgFacts DEF BoxConstants
        <4>4. Saved'[AgentCfg] = 0
          BY <1>8, <4>1, <4>3, CfgFacts
        <4> QED
          BY <1>5, <1>6, <1>7, <3>2, <4>4 DEF BoxConstants
      <3> QED
        BY <3>1, <3>2
    <2> QED
      BY <1>0, <1>1, <2>1, <2>2 DEF BoxInv, TokensHeld, ConfigHeld, Moved, Held
  <1> QED
    BY <1>9, <1>10, <1>12, <1>13, <1>14, <1>15 DEF BoxInv

(* A step that neither saves nor restarts anything, nor looks for a listener, and
   leaves the snapshots alone. *)
LEMMA FileStep ==
    ASSUME BoxInv, BoxConstants, NEW op \in {"retire", "write", "install"}, Box!Doing(op), Box!Done,
           UNCHANGED <<admin, running, holder, snapshots, applies, waived>>,
           NEW q \in Box!Parts, NEW v \in Content, file' = [file EXCEPT ![q] = v],
           op = "retire" => q = Box!Legacy /\ (v = None \/ v = file[q]),
           op \in {"write", "install"} => q = Box!Now.part /\ v = applies
    PROVE  BoxInv'
  <1> DEFINE s == Box!Now
             u == s.unit
  <1>1. Moved(apply.blind) /\ Left(s) /\ Running /\ s.op = op /\ apply.at = "steps"
    BY NowDone DEF BoxInv
  <1>2. /\ apply \in ApplyType /\ snapshots[applies] \in Snapshot /\ applies \in 1..MaxApplies
        /\ applies # 0 /\ applies # None /\ applies # Torn
        /\ file \in [Box!Parts -> Content] /\ apply.whole
    BY <1>1 DEF BoxInv, ApplyOK, BoxType, StepsFit, BoxConstants
  <1>3. /\ u \in apply.units /\ u \in Box!Units /\ StepFits(s, apply.units)
    BY <1>1, <1>2 DEF Left, StepFits, ApplyType
  <1> HIDE DEF s, u
  <1>4. /\ file' \in [Box!Parts -> Content] /\ file'[q] = v
        /\ \A p \in Box!Parts : p # q => file'[p] = file[p]
    BY <1>2
  <1>5. /\ \A x : Has(apply.todo, x) => x = s \/ Has(apply'.todo, x)
        /\ \A x : Has(apply'.todo, x) => Has(apply.todo, x)
        /\ \A x : Has(apply'.todo, x) => ~Wrong(s, x)
        /\ Segment(apply'.todo, apply.units)
    BY <1>1 DEF Left
  <1>6. /\ s # Loads /\ s # Merges
        /\ \A w : s # Saves(w) /\ s # Restarts(w) /\ s # Listener(w)
    BY <1>1 DEF Saves, Merges, Restarts, Listener, Loads, Box!Step
  <1>7. ~Has(apply'.todo, Saves(u)) /\ ~Has(apply.todo, Saves(u))
    <2>1. Wrong(s, Saves(u))
      BY <1>1 DEF Wrong, Saves, Box!Step, u
    <2> QED
      BY <1>5, <1>6, <2>1
  <1>8. q \in Restorable => /\ q[1] = u
                            /\ op = "retire" \/ q # Box!Legacy
    <2>1. CASE op = "retire"
      BY <1>1, <1>3, <2>1 DEF StepFits, Box!Legacy, u
    <2>2. CASE op # "retire"
      BY <1>1, <1>3, <2>2 DEF StepFits, s, u
    <2> QED
      BY <2>1, <2>2
  <1>9. q \in Restorable => Saved[q] = apply.before[q]
    BY <1>1, <1>3, <1>7, <1>8 DEF BoxInv, StepsFit
  <1>10. q \in Restorable /\ v # file[q] => Saved[q] # None
    <2>1. CASE op = "retire"
      <3>1. q \in Restorable => file[q] = apply.before[q] \/ Saved[q] # None
        BY <1>1, <1>2 DEF BoxInv, RollbackFits
      <3> QED
        BY <1>9, <2>1, <3>1
    <2>2. CASE op # "retire"
      BY <1>1, <1>8, <1>9, <2>2 DEF BoxInv, ApplyOK
    <2> QED
      BY <2>1, <2>2
  <1>11. q = AgentCfg =>
            /\ op = "write" /\ v = applies /\ Publishers \subseteq Held
    <2> SUFFICES ASSUME q = AgentCfg PROVE op = "write" /\ v = applies /\ Publishers \subseteq Held
      OBVIOUS
    <2>1. op = "write"
      BY <1>1, <1>3, CfgFacts DEF StepFits, s
    <2>2. u = "agent"
      BY <1>8, CfgFacts
    <2>3. s.part = Box!Cfg(s.unit)
      BY <2>1, <2>2 DEF AgentCfg, s, u
    <2>4. Wrong(s, Loads) /\ Wrong(s, Merges)
      BY <1>1, <2>1, <2>2, <2>3 DEF Wrong, Loads, Merges, Box!Step, AgentCfg, u
    <2>5. ~Has(apply.todo, Loads) /\ ~Has(apply.todo, Merges)
      BY <1>5, <1>6, <2>4
    <2>6. file[AgentCfg] # Torn /\ (file[AgentCfg] # 0 \/ Publishers \subseteq Held)
      BY <1>1, <1>3, <2>2, <2>5 DEF BoxInv, StepsFit
    <2> QED
      BY <2>1, <2>6 DEF BoxInv, TokensHeld, ConfigHeld
  <1>12. Restorable \subseteq Box!Parts
    BY PartFacts
  <1>13. BoxType'
    <2>1. \A p \in Restorable \ {Box!Legacy} : file'[p] # None
      BY <1>2, <1>4, <1>8, <1>12 DEF BoxInv, BoxType
    <2> QED
      BY <1>4, <2>1 DEF BoxInv, BoxType
  <1>14. ApplyOK' /\ RollbackRuns'
    BY <1>1, <1>2, MovedOK DEF BoxInv, ApplyType
  <1>15. StepsFit'
    <2>1. \A w \in apply.units : \A p \in Restorable : p[1] = w =>
              /\ Has(apply'.todo, Saves(w)) => file'[p] = apply.before[p]
              /\ Has(apply'.todo, Saves(w)) \/ Saved[p] = apply.before[p]
      BY <1>1, <1>4, <1>5, <1>6, <1>7, <1>8, <1>12 DEF BoxInv, StepsFit
    <2>2. "agent" \in apply.units =>
              /\ Has(apply'.todo, Loads) \/ file'[AgentCfg] # Torn
              /\ Has(apply'.todo, Merges) \/ file'[AgentCfg] # 0 \/ Publishers \subseteq Held
      BY <1>1, <1>2, <1>4, <1>5, <1>6, <1>11, CfgFacts DEF BoxInv, StepsFit
    <2> QED
      BY <1>1, <1>2, <1>5, <2>1, <2>2 DEF StepsFit, Moved, Held, Saved
  <1>16. UnitsFit'
    <2>1. ASSUME NEW w \in apply.units, NEW x \in Writes(w)
          PROVE  Has(apply'.todo, x) \/ file'[x.part] = applies
      <3>0. x.part \in Box!Parts /\ w \in Box!Units
        <4>1. w \in Box!Units
          BY <1>2, <2>1 DEF ApplyType
        <4> QED
          BY <2>1, <4>1, PartFacts DEF Writes, Box!Step
      <3>1. CASE x = s
        <4>1. op \in {"write", "install"} /\ q = x.part /\ v = applies
          BY <1>1, <2>1, <3>1 DEF Writes, Box!Step, s
        <4> QED
          BY <1>4, <4>1
      <3>2. CASE x # s
        <4>1. Has(apply'.todo, x) \/ file[x.part] = applies
          BY <1>1, <1>5, <2>1, <3>2 DEF BoxInv, UnitsFit
        <4>2. CASE x.part = q
          <5>1. x.part # Box!Legacy
            BY <2>1, <3>0, PartFacts DEF Writes, Box!Step, Box!Legacy, Box!Cfg, Box!Bin, Box!Unit
          <5> QED
            BY <1>4, <4>2, <5>1
        <4> QED
          BY <1>4, <3>0, <4>1, <4>2
      <3> QED
        BY <3>1, <3>2
    <2>2. ASSUME NEW w \in apply.units, apply.restart
          PROVE  /\ Has(apply'.todo, Restarts(w)) \/ running[w] = applies
                 /\ Has(apply'.todo, Listener(w)) \/ apply.blind \/ Box!Listens(w)
                 /\ w = "store" /\ Has(apply'.todo, Restarts(w)) => Has(apply'.todo, Listener(w))
      BY <1>1, <1>5, <1>6, <2>2 DEF BoxInv, UnitsFit
    <2> QED
      BY <1>1, <2>1, <2>2 DEF UnitsFit, Moved, Box!Listens
  <1>17. RollbackFits'
    <2>1. ASSUME NEW p \in Restorable
          PROVE  file'[p] = apply.before[p] \/ (Saved[p] = apply.before[p] /\ Saved[p] # None)
      <3>1. CASE p = q /\ v # file[q]
        BY <1>9, <1>10, <3>1
      <3>2. CASE ~(p = q /\ v # file[q])
        <4>1. file'[p] = file[p]
          BY <1>4, <1>12, <3>2
        <4> QED
          BY <1>1, <1>2, <4>1 DEF BoxInv, RollbackFits
      <3> QED
        BY <3>1, <3>2
    <2> QED
      BY <1>1, <2>1 DEF BoxInv, RollbackFits, Moved, Saved
  <1>18. TokensHeld'
    <2>1. CASE q = AgentCfg
      BY <1>1, <1>2, <1>4, <1>11, <2>1, CfgFacts DEF BoxInv, TokensHeld, ConfigHeld, Moved, Held
    <2>2. CASE q # AgentCfg
      <3>1. file'[AgentCfg] = file[AgentCfg]
        BY <1>4, <2>2, CfgFacts
      <3> QED
        BY <1>1, <3>1 DEF BoxInv, TokensHeld, ConfigHeld, Moved, Held
    <2> QED
      BY <2>1, <2>2
  <1> QED
    BY <1>13, <1>14, <1>15, <1>16, <1>17, <1>18 DEF BoxInv

(* retire_legacy_serve *)
LEMMA BoxRetires == ASSUME BoxInv, BoxConstants, Box!RetireLegacy PROVE BoxInv'
  <1>0. /\ Box!Doing("retire") /\ Box!Done
        /\ UNCHANGED <<admin, running, holder, snapshots, applies, waived>>
        /\ file \in [Box!Parts -> Content] /\ Box!Legacy \in Box!Parts
    BY PartFacts DEF Box!RetireLegacy, BoxInv, BoxType
  <1>1. CASE file[Box!Legacy] = None
    <2>1. file' = [file EXCEPT ![Box!Legacy] = file[Box!Legacy]]
      BY <1>0, <1>1 DEF Box!RetireLegacy
    <2>2. file[Box!Legacy] \in Content
      BY <1>0
    <2> QED
      BY <1>0, <2>1, <2>2, FileStep
  <1>2. CASE file[Box!Legacy] # None
    <2>1. PICK left \in {None, file[Box!Legacy]} : file' = [file EXCEPT ![Box!Legacy] = left]
      BY <1>2 DEF Box!RetireLegacy
    <2>2. left \in Content
      BY <1>0 DEF Content
    <2> QED
      BY <1>0, <2>1, <2>2, FileStep
  <1> QED
    BY <1>1, <1>2

(* write_text and install_file *)
LEMMA BoxWrites == ASSUME BoxInv, BoxConstants, Box!WriteFile PROVE BoxInv'
  <1>0. /\ Box!Done /\ file' = [file EXCEPT ![Box!Now.part] = apply.n]
        /\ UNCHANGED <<admin, running, holder, snapshots, applies, waived>>
    BY DEF Box!WriteFile
  <1>1. PICK op \in {"write", "install"} : Box!Doing(op)
    BY DEF Box!WriteFile
  <1>2. Left(Box!Now) /\ Running /\ Box!Now.op = op
    BY <1>0, <1>1, NowDone DEF BoxInv
  <1>3. Box!Now.part \in Box!Parts /\ apply.n = applies /\ applies \in Content
    <2>1. StepFits(Box!Now, apply.units)
      BY <1>2 DEF Left
    <2>2. Box!Now.part \in Box!Parts
      BY <1>1, <1>2, <2>1 DEF StepFits
    <2>3. apply.n = applies /\ applies \in Nat
      <3>1. ApplyOK
        BY DEF BoxInv
      <3>2. apply.n = applies /\ applies \in 1..MaxApplies
        BY <1>2, <3>1 DEF ApplyOK
      <3> QED
        BY <3>2 DEF BoxConstants
    <2> QED
      BY <2>2, <2>3 DEF Content
  <1> QED
    BY <1>0, <1>1, <1>3, FileStep

(* admin_merge: the tokens of the configuration are in the document. *)
LEMMA BoxMerges == ASSUME BoxInv, BoxConstants, Box!MergeAdmin PROVE BoxInv'
  <1> DEFINE s == Box!Now
  <1>0. /\ Box!Doing("merge") /\ Box!Done
        /\ UNCHANGED <<file, running, holder, snapshots, applies, waived>>
        /\ admin # Torn
        /\ admin' = IF Box!InConfig(file) = {} THEN admin
                    ELSE (IF admin = None THEN {} ELSE admin) \cup Box!InConfig(file)
    BY DEF Box!MergeAdmin
  <1>1. Moved(apply.blind) /\ Left(s) /\ Running /\ s.op = "merge" /\ apply.at = "steps"
    BY <1>0, NowDone DEF BoxInv
  <1>2. apply \in ApplyType /\ snapshots[applies] \in Snapshot /\ admin \in AdminDocument
    BY <1>1 DEF BoxInv, ApplyOK, BoxType
  <1> HIDE DEF s
  <1>3. Box!InConfig(file) \subseteq Publishers /\ (file[AgentCfg] = 0 => Box!InConfig(file) = Publishers)
    BY DEF Box!InConfig, AgentCfg
  <1>4. admin' \in AdminDocument /\ Held \subseteq Held' /\ (file[AgentCfg] # 0 \/ Publishers \subseteq Held')
    <2>1. CASE Box!InConfig(file) = {}
      BY <1>0, <1>2, <1>3, <2>1 DEF Held
    <2>2. CASE Box!InConfig(file) # {}
      <3>1. admin' = (IF admin = None THEN {} ELSE admin) \cup Box!InConfig(file)
        BY <1>0, <2>2
      <3>2. admin # None => admin \in SUBSET (Publishers \cup Issued)
        BY <1>0, <1>2 DEF AdminDocument
      <3>3. admin' \in SUBSET (Publishers \cup Issued)
        BY <1>3, <3>1, <3>2
      <3>4. Held' = admin' /\ admin' \in AdminDocument
        BY <3>3 DEF Held, AdminDocument, BoxConstants
      <3> QED
        BY <1>0, <1>3, <3>1, <3>4 DEF Held
    <2> QED
      BY <2>1, <2>2
  <1>5. BoxType'
    BY <1>0, <1>4 DEF BoxInv, BoxType
  <1>6. ApplyOK' /\ RollbackRuns'
    BY <1>0, <1>1, <1>2, MovedOK DEF BoxInv, ApplyType
  <1>7. /\ \A x : Has(apply.todo, x) => x = s \/ Has(apply'.todo, x)
        /\ \A x : Has(apply'.todo, x) => Has(apply.todo, x)
        /\ Segment(apply'.todo, apply.units)
    BY <1>1 DEF Left
  <1>8. /\ s # Loads
        /\ \A u : s # Saves(u) /\ s # Restarts(u) /\ s # Listener(u) /\ s \notin Writes(u)
    BY <1>1 DEF Saves, Restarts, Listener, Loads, Writes, Box!Step
  <1>9. StepsFit'
    BY <1>0, <1>1, <1>4, <1>7, <1>8 DEF BoxInv, StepsFit, Moved, Saved
  <1>10. UnitsFit'
    BY <1>0, <1>1, <1>7, <1>8 DEF BoxInv, UnitsFit, Moved, Box!Listens
  <1>11. RollbackFits'
    BY <1>0, <1>1 DEF BoxInv, RollbackFits, Moved, Saved
  <1>12. TokensHeld'
    BY <1>0, <1>1, <1>4 DEF BoxInv, TokensHeld, ConfigHeld, Moved
  <1> QED
    BY <1>5, <1>6, <1>9, <1>10, <1>11, <1>12 DEF BoxInv

(* restart_unit: all files of the unit are written, so that it runs the new binary. *)
LEMMA BoxRestarts == ASSUME BoxInv, BoxConstants, Box!Restart PROVE BoxInv'
  <1> DEFINE s == Box!Now
             u == s.unit
  <1>0. /\ Box!Doing("restart") /\ Box!Done
        /\ UNCHANGED <<file, admin, snapshots, applies, waived>>
        /\ running' = [running EXCEPT ![u] = Box!Started(u)]
        /\ u = "store" \/ holder' = holder
    BY DEF Box!Restart
  <1>1. Moved(apply.blind) /\ Left(s) /\ Running /\ s.op = "restart" /\ apply.at = "steps"
    BY <1>0, NowDone DEF BoxInv
  <1>2. /\ apply \in ApplyType /\ snapshots[applies] \in Snapshot /\ applies \in 1..MaxApplies
        /\ running \in [Box!Units -> Content] /\ file \in [Box!Parts -> Content]
    BY <1>1 DEF BoxInv, ApplyOK, BoxType
  <1>3. u \in apply.units /\ u \in Box!Units /\ s = Restarts(u)
    BY <1>1, <1>2 DEF Left, StepFits, ApplyType, Restarts
  <1> HIDE DEF s, u
  <1>4. /\ \A x : Has(apply.todo, x) => x = s \/ Has(apply'.todo, x)
        /\ \A x : Has(apply'.todo, x) => Has(apply.todo, x)
        /\ \A x : Has(apply'.todo, x) => ~Wrong(s, x)
        /\ Segment(apply'.todo, apply.units)
    BY <1>1 DEF Left
  <1>5. /\ s # Loads /\ s # Merges
        /\ \A w : s # Saves(w) /\ s # Listener(w) /\ s \notin Writes(w)
        /\ \A w : s = Restarts(w) => w = u
    BY <1>1, <1>3 DEF Saves, Restarts, Listener, Loads, Merges, Writes, Box!Step
  <1>6. \A x \in Writes(u) : ~Has(apply.todo, x)
    <2>1. ASSUME NEW x \in Writes(u) PROVE Wrong(s, x)
      <3>1. x.unit = u /\ s.unit = u
        BY <2>1 DEF Writes, Box!Step, u
      <3> QED
        BY <1>1, <2>1, <3>1 DEF Wrong
    <2> QED
      BY <1>4, <1>5, <2>1
  <1>7. \A x \in Writes(u) : file[x.part] = applies
    BY <1>1, <1>3, <1>6 DEF BoxInv, UnitsFit
  <1>8. file[Box!Cfg(u)] = applies /\ file[Box!Bin(u)] = applies /\ file[Box!Unit(u)] = applies
    BY <1>7 DEF Writes, Box!Step
  <1>9. Box!Started(u) = applies
    <2>1. applies \in Nat /\ applies # Torn
      BY <1>2 DEF BoxConstants
    <2> QED
      BY <1>8, <2>1 DEF Box!Started
  <1>10. applies \in Content
    BY <1>2 DEF Content
  <1>11. /\ running' \in [Box!Units -> Content] /\ running'[u] = applies
         /\ \A w \in Box!Units : w # u => running'[w] = running[w]
    BY <1>0, <1>2, <1>3, <1>9, <1>10
  <1>12. BoxType'
    BY <1>0, <1>11 DEF BoxInv, BoxType
  <1>13. ApplyOK' /\ RollbackRuns'
    BY <1>0, <1>1, <1>2, MovedOK DEF BoxInv, ApplyType
  <1>14. StepsFit'
    BY <1>0, <1>1, <1>4, <1>5 DEF BoxInv, StepsFit, Moved, Saved, Held
  <1>15. UnitsFit'
    <2>1. ASSUME NEW w \in apply.units, NEW x \in Writes(w)
          PROVE  Has(apply'.todo, x) \/ file[x.part] = applies
      BY <1>1, <1>4, <1>5, <2>1 DEF BoxInv, UnitsFit
    <2>2. ASSUME NEW w \in apply.units, apply.restart
          PROVE  /\ Has(apply'.todo, Restarts(w)) \/ running'[w] = applies
                 /\ Has(apply'.todo, Listener(w)) \/ apply.blind \/ Box!Listens(w)'
                 /\ w = "store" /\ Has(apply'.todo, Restarts(w)) => Has(apply'.todo, Listener(w))
      <3>0. /\ Has(apply.todo, Restarts(w)) \/ running[w] = applies
            /\ Has(apply.todo, Listener(w)) \/ apply.blind \/ Box!Listens(w)
            /\ w = "store" /\ Has(apply.todo, Restarts(w)) => Has(apply.todo, Listener(w))
        BY <1>1, <2>2 DEF BoxInv, UnitsFit
      <3>1. w \in Box!Units /\ (Has(apply.todo, Listener(w)) => Has(apply'.todo, Listener(w)))
        BY <1>2, <1>4, <1>5 DEF ApplyType
      <3>2. Has(apply'.todo, Restarts(w)) \/ running'[w] = applies
        BY <1>4, <1>5, <1>11, <3>0, <3>1
      <3>3. w = "store" /\ Has(apply'.todo, Restarts(w)) => Has(apply'.todo, Listener(w))
        BY <1>4, <3>0, <3>1
      <3>4. Has(apply'.todo, Listener(w)) \/ apply.blind \/ Box!Listens(w)'
        <4>1. CASE u = "store" /\ w = "store"
          <5>1. Has(apply.todo, Restarts(w))
            BY <1>1, <1>3, <4>1 DEF Left
          <5> QED
            BY <3>0, <3>1, <4>1, <5>1
        <4>2. CASE w # "store"
          BY <4>2 DEF Box!Listens
        <4>3. CASE u # "store"
          BY <1>0, <3>0, <3>1, <4>3 DEF Box!Listens
        <4> QED
          BY <4>1, <4>2, <4>3
      <3> QED
        BY <3>2, <3>3, <3>4
    <2> QED
      BY <1>0, <1>1, <2>1, <2>2 DEF UnitsFit, Moved
  <1>16. RollbackFits'
    BY <1>0, <1>1 DEF BoxInv, RollbackFits, Moved, Saved
  <1>17. TokensHeld'
    BY <1>0, <1>1 DEF BoxInv, TokensHeld, ConfigHeld, Moved, Held
  <1> QED
    BY <1>12, <1>13, <1>14, <1>15, <1>16, <1>17 DEF BoxInv

(* require_listener_belongs_to *)
LEMMA BoxListens == ASSUME BoxInv, BoxConstants, Box!RequireListener PROVE BoxInv'
  <1> DEFINE s == Box!Now
             u == s.unit
  <1>0. /\ apply.at = "steps" /\ apply.todo # <<>> /\ s.op = "listener"
        /\ apply' = [apply EXCEPT !.todo = Tail(@), !.blind = @ \/ ~Box!Listens(u)]
        /\ UNCHANGED <<file, admin, running, holder, snapshots, applies, waived>>
    BY DEF Box!RequireListener, Box!Doing, Box!box
  <1> DEFINE b == apply.blind \/ ~Box!Listens(u)
  <1>1. apply \in ApplyType /\ snapshots[applies] \in Snapshot
    BY <1>0 DEF BoxInv, ApplyOK, Running, Box!NoApply
  <1>2. b \in BOOLEAN /\ apply' = [apply EXCEPT !.todo = Tail(@), !.blind = b]
    BY <1>0, <1>1 DEF ApplyType
  <1>3. Moved(b) /\ Left(s) /\ Running
    <2> HIDE DEF b
    <2> QED
      BY <1>0, <1>2, Moves DEF BoxInv, Box!Now
  <1>4. u \in apply.units /\ s = Listener(u)
    BY <1>0, <1>3 DEF Left, StepFits, Listener
  <1>5. (apply.blind => b) /\ (b \/ Box!Listens(u))
    OBVIOUS
  <1> HIDE DEF s, u, b
  <1>6. /\ \A x : Has(apply.todo, x) => x = s \/ Has(apply'.todo, x)
        /\ \A x : Has(apply'.todo, x) => Has(apply.todo, x)
        /\ \A x : Has(apply'.todo, x) => ~Wrong(s, x)
        /\ Segment(apply'.todo, apply.units)
    BY <1>3 DEF Left
  <1>7. /\ s # Loads /\ s # Merges
        /\ \A w : s # Saves(w) /\ s # Restarts(w) /\ s \notin Writes(w)
        /\ \A w : s = Listener(w) => w = u
    BY <1>0, <1>4 DEF Saves, Restarts, Listener, Loads, Merges, Writes, Box!Step
  <1>8. u = "store" => ~Has(apply'.todo, Restarts(u))
    <2>1. u = "store" => Wrong(s, Restarts(u))
      BY <1>4 DEF Wrong, Restarts, Listener, Box!Step
    <2> QED
      BY <1>6, <2>1
  <1>9. BoxType'
    BY <1>0 DEF BoxInv, BoxType
  <1>10. ApplyOK' /\ RollbackRuns'
    BY <1>0, <1>1, <1>2, <1>3, MovedOK DEF BoxInv
  <1>11. StepsFit'
    BY <1>0, <1>3, <1>6, <1>7 DEF BoxInv, StepsFit, Moved, Saved, Held
  <1>12. UnitsFit'
    <2>1. ASSUME NEW w \in apply.units, NEW x \in Writes(w)
          PROVE  Has(apply'.todo, x) \/ file[x.part] = applies
      BY <1>0, <1>3, <1>6, <1>7, <2>1 DEF BoxInv, UnitsFit
    <2>2. ASSUME NEW w \in apply.units, apply.restart
          PROVE  /\ Has(apply'.todo, Restarts(w)) \/ running[w] = applies
                 /\ Has(apply'.todo, Listener(w)) \/ b \/ Box!Listens(w)
                 /\ w = "store" /\ Has(apply'.todo, Restarts(w)) => Has(apply'.todo, Listener(w))
      BY <1>0, <1>3, <1>5, <1>6, <1>7, <1>8, <2>2 DEF BoxInv, UnitsFit
    <2> QED
      BY <1>0, <1>3, <2>1, <2>2 DEF UnitsFit, Moved, Box!Listens
  <1>13. RollbackFits'
    BY <1>0, <1>3 DEF BoxInv, RollbackFits, Moved, Saved
  <1>14. TokensHeld'
    BY <1>0, <1>3 DEF BoxInv, TokensHeld, ConfigHeld, Moved, Held
  <1> QED
    BY <1>9, <1>10, <1>11, <1>12, <1>13, <1>14 DEF BoxInv

(* What a step that is cut short leaves behind. *)
Cut == /\ snapshots'[applies] \in Snapshot
       /\ \A p \in Restorable : Saved'[p] \in {None, apply.before[p], Torn}
       /\ \A p \in Restorable : file'[p] = apply.before[p] \/ (Saved[p] = apply.before[p] /\ Saved[p] # None)
       /\ file'[AgentCfg] = 0 => apply.before[AgentCfg] = 0
       /\ apply.before[AgentCfg] \in {0, Torn} \/ Publishers \subseteq Held'

(* A write that is cut short. *)
LEMMA CutFile ==
    ASSUME BoxInv, BoxConstants, Box!Doing("write"), file' = [file EXCEPT ![Box!Now.part] = Torn],
           UNCHANGED <<admin, running, snapshots, applies, waived>>
    PROVE  BoxType' /\ ConfigHeld' /\ Cut
  <1> DEFINE s == Box!Now
             u == s.unit
             q == s.part
  <1>1. apply.at = "steps" /\ apply.todo # <<>> /\ s.op = "write" /\ s = Head(apply.todo) /\ Running
    BY DEF Box!Doing, Box!Now, Running, Box!NoApply
  <1>2. /\ apply \in ApplyType /\ snapshots[applies] \in Snapshot /\ applies \in 1..MaxApplies
        /\ file \in [Box!Parts -> Content] /\ apply.whole
        /\ apply.todo \in Seq(StepType) /\ InOrder(apply.todo)
        /\ \A x : Has(apply.todo, x) => StepFits(x, apply.units)
    BY <1>1 DEF BoxInv, ApplyOK, BoxType, StepsFit, Segment
  <1>3. /\ \A x : Has(apply.todo, x) <=> x = s \/ Has(Tail(apply.todo), x)
        /\ \A x : Has(Tail(apply.todo), x) => ~Wrong(s, x)
    BY <1>1, <1>2, TailHas, TailOrder
  <1>4. StepFits(s, apply.units)
    BY <1>2, <1>3
  <1>5. u \in apply.units /\ q \in Box!Parts /\ q[1] = u /\ (q \in Restorable => q # Box!Legacy)
    BY <1>1, <1>4 DEF StepFits
  <1> HIDE DEF s
  <1>6. s # Loads /\ s # Merges /\ s # Saves(u)
    BY <1>1 DEF Saves, Merges, Loads, Box!Step
  <1>7. ~Has(apply.todo, Saves(u))
    <2>1. Wrong(s, Saves(u))
      BY <1>1 DEF Wrong, Saves, Box!Step
    <2> QED
      BY <1>3, <1>6, <2>1
  <1>8. q \in Restorable => Saved[q] = apply.before[q] /\ Saved[q] # None
    BY <1>1, <1>5, <1>7 DEF BoxInv, StepsFit, ApplyOK
  <1>9. /\ file' \in [Box!Parts -> Content] /\ file'[q] = Torn
        /\ \A p \in Box!Parts : p # q => file'[p] = file[p]
    <2>1. Torn \in Content
      BY DEF Content
    <2>2. file' = [file EXCEPT ![q] = Torn]
      BY DEF s
    <2> HIDE DEF q
    <2> QED
      BY <1>2, <1>5, <2>1, <2>2
  <1>10. q = AgentCfg => Publishers \subseteq Held
    <2> SUFFICES ASSUME q = AgentCfg PROVE Publishers \subseteq Held
      OBVIOUS
    <2>2. u = "agent"
      BY <1>5, CfgFacts
    <2>3. s.part = Box!Cfg(s.unit)
      BY <2>2 DEF AgentCfg
    <2>4. Wrong(s, Loads) /\ Wrong(s, Merges)
      BY <1>1, <2>2, <2>3 DEF Wrong, Loads, Merges, Box!Step, AgentCfg
    <2>5. ~Has(apply.todo, Loads) /\ ~Has(apply.todo, Merges)
      BY <1>3, <1>6, <2>4
    <2>6. file[AgentCfg] # Torn /\ (file[AgentCfg] # 0 \/ Publishers \subseteq Held)
      BY <1>1, <1>5, <2>2, <2>5 DEF BoxInv, StepsFit
    <2> QED
      BY <2>6 DEF BoxInv, TokensHeld, ConfigHeld
  <1> HIDE DEF u, q
  <1>11. Restorable \subseteq Box!Parts
    BY PartFacts
  <1>12. BoxType'
    <2>1. \A p \in Restorable \ {Box!Legacy} : file'[p] # None
      BY <1>9, <1>11 DEF BoxInv, BoxType, BoxConstants
    <2> QED
      BY <1>9, <2>1 DEF BoxInv, BoxType
  <1>13. ConfigHeld'
    <2>1. CASE q = AgentCfg
      BY <1>10, <2>1 DEF ConfigHeld, Held
    <2>2. CASE q # AgentCfg
      <3>1. file'[AgentCfg] = file[AgentCfg]
        BY <1>9, <2>2, CfgFacts
      <3> QED
        BY <3>1 DEF BoxInv, TokensHeld, ConfigHeld, Held
    <2> QED
      BY <2>1, <2>2
  <1>14. Cut
    <2>1. \A p \in Restorable : file'[p] = apply.before[p] \/ (Saved[p] = apply.before[p] /\ Saved[p] # None)
      BY <1>1, <1>2, <1>8, <1>9, <1>11 DEF BoxInv, RollbackFits
    <2>2. file'[AgentCfg] = 0 => apply.before[AgentCfg] = 0
      <3>1. CASE q = AgentCfg
        BY <1>9, <3>1 DEF BoxConstants
      <3>2. CASE q # AgentCfg
        BY <1>1, <1>9, <3>2, CfgFacts DEF BoxInv, TokensHeld
      <3> QED
        BY <3>1, <3>2
    <2> QED
      BY <1>1, <1>2, <2>1, <2>2 DEF Cut, BoxInv, RollbackFits, TokensHeld, Held, Saved
  <1> QED
    BY <1>12, <1>13, <1>14

(* A backup that is cut short. *)
LEMMA CutBackup ==
    ASSUME BoxInv, BoxConstants, Box!Doing("backup"), NEW q \in Box!BackedUp(Box!Now.unit),
           snapshots' = [snapshots EXCEPT ![apply.n].files[q] = Torn],
           UNCHANGED <<file, admin, running, applies, waived>>
    PROVE  BoxType' /\ ConfigHeld' /\ Cut
  <1> DEFINE s == Box!Now
             u == s.unit
  <1>1. apply.at = "steps" /\ apply.todo # <<>> /\ s.op = "backup" /\ s = Head(apply.todo) /\ Running
    BY DEF Box!Doing, Box!Now, Running, Box!NoApply
  <1>2. /\ apply \in ApplyType /\ snapshots[applies] \in Snapshot /\ applies \in 1..MaxApplies
        /\ apply.n = applies /\ snapshots \in [1..MaxApplies -> Snapshot \cup {None}]
        /\ apply.todo \in Seq(StepType) /\ apply.whole
        /\ \A x : Has(apply.todo, x) => StepFits(x, apply.units)
    BY <1>1 DEF BoxInv, ApplyOK, BoxType, StepsFit, Segment
  <1>3. Has(apply.todo, s)
    BY <1>1, <1>2, TailHas
  <1>4. s = Saves(u) /\ u \in apply.units /\ u \in Box!Units
    BY <1>1, <1>2, <1>3 DEF StepFits, Saves, ApplyType
  <1>5. \A p \in Restorable : p[1] = u => file[p] = apply.before[p]
    BY <1>1, <1>3, <1>4 DEF BoxInv, StepsFit
  <1>6. q \in Box!Parts
    BY <1>4, RestorableFacts, CfgFacts
  <1> DEFINE new == [snapshots[applies] EXCEPT !.files[q] = Torn]
  <1>7. snapshots' = [snapshots EXCEPT ![applies] = new]
    BY <1>2
  <1>8. /\ new \in Snapshot /\ new.files[q] = Torn
        /\ \A p \in Box!Parts : p # q => new.files[p] = snapshots[applies].files[p]
    BY <1>2, <1>6 DEF Snapshot, Content
  <1> HIDE DEF new, s, u
  <1>9. /\ snapshots' \in [1..MaxApplies -> Snapshot \cup {None}] /\ snapshots'[applies] = new
        /\ \A m \in 1..MaxApplies : m # applies => snapshots'[m] = snapshots[m]
    BY <1>2, <1>7, <1>8
  <1>10. BoxType'
    BY <1>2, <1>9 DEF BoxInv, BoxType
  <1>11. Saved' = new.files /\ Restorable \subseteq Box!Parts
    BY <1>9, PartFacts DEF Saved
  <1>12. \A p \in Restorable : Saved'[p] \in {None, apply.before[p], Torn}
    BY <1>1, <1>8, <1>11 DEF BoxInv, RollbackFits, Saved
  <1>13. Cut
    BY <1>1, <1>2, <1>8, <1>9, <1>12 DEF Cut, BoxInv, RollbackFits, TokensHeld, Held
  <1>14. ConfigHeld'
    <2>1. CASE file[AgentCfg] # Torn
      BY <2>1 DEF BoxInv, TokensHeld, ConfigHeld, Held
    <2>2. ASSUME file[AgentCfg] = Torn, NEW m \in 1..MaxApplies, snapshots[m] # None, snapshots[m].files[AgentCfg] = 0
          PROVE  snapshots'[m] # None /\ snapshots'[m].files[AgentCfg] = 0
      <3>1. CASE m # applies
        BY <1>9, <2>2, <3>1
      <3>2. CASE m = applies
        <4>1. Saved[AgentCfg] = 0
          BY <2>2, <3>2 DEF Saved
        <4>2. apply.before[AgentCfg] = 0
          BY <1>1, <4>1, CfgFacts, SMTT(60) DEF BoxInv, RollbackFits, BoxConstants
        <4>3. u # "agent"
          BY <1>5, <2>2, <4>2, CfgFacts DEF BoxConstants
        <4>4. q # AgentCfg
          BY <1>4, <4>3, RestorableFacts, CfgFacts DEF u, s
        <4> QED
          BY <1>8, <1>9, <2>2, <3>2, <4>4, CfgFacts DEF BoxConstants
      <3> QED
        BY <3>1, <3>2
    <2> QED
      BY <2>1, <2>2 DEF BoxInv, TokensHeld, ConfigHeld, Held
  <1> QED
    BY <1>10, <1>13, <1>14

(* Any other step that is cut short. *)
LEMMA CutRest ==
    ASSUME BoxInv, BoxConstants, Running, apply.at = "steps", UNCHANGED <<file, snapshots, applies, waived>>,
           running' \in [Box!Units -> Content],
           admin' = admin \/ (admin' = Torn /\ file[AgentCfg] = 0)
    PROVE  BoxType' /\ ConfigHeld' /\ Cut
  <1>1. snapshots[applies] \in Snapshot /\ apply.whole
    BY DEF BoxInv, ApplyOK, StepsFit
  <1>2. BoxType'
    BY DEF BoxInv, BoxType, AdminDocument
  <1>3. ConfigHeld'
    BY DEF BoxInv, TokensHeld, ConfigHeld, Held
  <1>4. apply.before[AgentCfg] \in {0, Torn} \/ Publishers \subseteq Held'
    BY DEF BoxInv, TokensHeld, Held
  <1>5. \A p \in Restorable : Saved[p] \in {None, apply.before[p], Torn}
    BY DEF BoxInv, RollbackFits
  <1>6. \A p \in Restorable : file[p] = apply.before[p] \/ (Saved[p] = apply.before[p] /\ Saved[p] # None)
    BY <1>1 DEF BoxInv, RollbackFits
  <1>7. Cut
    BY <1>1, <1>4, <1>5, <1>6 DEF Cut, BoxInv, TokensHeld, Saved
  <1> QED
    BY <1>2, <1>3, <1>7

(* Whatever step it is. *)
LEMMA CutsShort ==
    ASSUME BoxInv, BoxConstants, Box!CutShort
    PROVE  BoxType' /\ ConfigHeld' /\ Cut /\ Running /\ apply.at = "steps"
  <1>1. apply.at = "steps" /\ apply.todo # <<>> /\ applies' = applies /\ waived' = waived /\ Running
    BY DEF Box!CutShort, Running, Box!NoApply
  <1>2. /\ running \in [Box!Units -> Content] /\ None \in Content
    BY DEF BoxInv, BoxType, Content
  <1>3. CASE Box!Doing("write")
    <2>1. Box!Now.op = "write"
      BY <1>3 DEF Box!Doing
    <2>2. ~Box!Doing("merge") /\ ~Box!Doing("restart") /\ ~Box!Doing("backup")
      BY <2>1 DEF Box!Doing
    <2>3. admin' = admin /\ running' = running /\ snapshots' = snapshots
      BY <2>2 DEF Box!CutShort
    <2>4. file' = file \/ file' = [file EXCEPT ![Box!Now.part] = Torn]
      BY <1>3 DEF Box!CutShort
    <2>5. CASE file' = file
      BY <1>1, <1>2, <2>3, <2>5, CutRest
    <2>6. CASE file' = [file EXCEPT ![Box!Now.part] = Torn]
      BY <1>1, <1>3, <2>3, <2>6, CutFile
    <2> QED
      BY <1>1, <2>4, <2>5, <2>6
  <1>4. CASE Box!Doing("backup")
    <2>1. Box!Now.op = "backup"
      BY <1>4 DEF Box!Doing
    <2>2. ~Box!Doing("merge") /\ ~Box!Doing("restart") /\ ~Box!Doing("write")
      BY <2>1 DEF Box!Doing
    <2>3. admin' = admin /\ running' = running /\ file' = file
      BY <2>2 DEF Box!CutShort
    <2>4. snapshots' = snapshots \/ \E q \in Box!BackedUp(Box!Now.unit) :
                                       snapshots' = [snapshots EXCEPT ![apply.n].files[q] = Torn]
      BY <1>4 DEF Box!CutShort
    <2>5. CASE snapshots' = snapshots
      BY <1>1, <1>2, <2>3, <2>5, CutRest
    <2>6. ASSUME NEW q \in Box!BackedUp(Box!Now.unit), snapshots' = [snapshots EXCEPT ![apply.n].files[q] = Torn]
          PROVE  BoxType' /\ ConfigHeld' /\ Cut
      BY <1>1, <1>4, <2>3, <2>6, CutBackup
    <2> QED
      BY <1>1, <2>4, <2>5, <2>6
  <1>5. CASE ~Box!Doing("write") /\ ~Box!Doing("backup")
    <2>1. file' = file /\ snapshots' = snapshots
      BY <1>5 DEF Box!CutShort
    <2>2. admin' = admin \/ (admin' = Torn /\ file[AgentCfg] = 0)
      BY DEF Box!CutShort, Box!InConfig, AgentCfg
    <2>3. running' \in [Box!Units -> Content]
      <3>1. CASE running' = running
        BY <1>2, <3>1
      <3>2. CASE running' # running
        <4>1. running' = [running EXCEPT ![Box!Now.unit] = None]
          BY <3>2 DEF Box!CutShort
        <4> QED
          BY <1>2, <4>1
      <3> QED
        BY <3>1, <3>2
    <2> QED
      BY <1>1, <2>1, <2>2, <2>3, CutRest
  <1> QED
    BY <1>3, <1>4, <1>5

(* rollback goes through every part that it restores. *)
LEMMA RestoredHas == Box!Restored \in Seq(Restorable) /\ \A p \in Restorable : Has(Box!Restored, p)
  <1> DEFINE R == Box!Restored
  <1>1. Len(R) = 11 /\ DOMAIN R = 1..11 /\ R \in Seq({R[i] : i \in DOMAIN R})
    BY DEF Box!Restored
  <1> HIDE DEF R
  <1>2. \A p \in Restorable : \E i \in 1..Len(R) : R[i] = p
    BY <1>1 DEF Restorable, R
  <1> QED
    BY <1>1, <1>2 DEF Has, Restorable, R

(* A step raised, and rollback begins. *)
LEMMA BoxFails == ASSUME BoxInv, BoxConstants, Box!StepFails PROVE BoxInv'
  <1>0. /\ Box!CutShort
        /\ apply' = [apply EXCEPT !.at = "rollback", !.todo = Box!Restored, !.whole = (snapshots' = snapshots)]
    BY DEF Box!StepFails
  <1>1. BoxType' /\ ConfigHeld' /\ Cut /\ Running /\ apply.at = "steps" /\ applies' = applies
    BY <1>0, CutsShort DEF Box!CutShort
  <1>2. apply \in ApplyType /\ applies \in 1..MaxApplies /\ apply.n = applies
    BY <1>1 DEF BoxInv, ApplyOK
  <1>3. /\ apply' \in ApplyType /\ apply'.at = "rollback" /\ apply'.todo = Box!Restored /\ apply'.n = apply.n
        /\ apply'.before = apply.before /\ (apply'.whole => snapshots' = snapshots)
    BY <1>0, <1>2, RestoredHas DEF ApplyType
  <1>4. Running'
    BY <1>3 DEF Running, Box!NoApply
  <1>5. ApplyOK'
    BY <1>1, <1>2, <1>3, <1>4 DEF BoxInv, ApplyOK, Cut
  <1>6. StepsFit' /\ UnitsFit'
    BY <1>3 DEF StepsFit, UnitsFit
  <1>7. RollbackFits'
    <2>1. apply'.whole => Saved' = Saved
      BY <1>1, <1>3 DEF Saved
    <2>2. ASSUME NEW p \in Restorable
          PROVE  /\ Saved'[p] \in {None, apply.before[p], Torn}
                 /\ apply'.whole => Saved'[p] \in {None, apply.before[p]}
                 /\ apply'.whole =>
                      file'[p] = apply.before[p] \/ (Saved'[p] = apply.before[p] /\ Saved'[p] # None)
                 /\ Has(apply'.todo, p)
      <3>1. apply.whole => Saved[p] \in {None, apply.before[p]}
        BY <1>1 DEF BoxInv, RollbackFits
      <3>2. apply.whole
        BY <1>1 DEF BoxInv, StepsFit
      <3> QED
        BY <1>1, <1>3, <2>1, <3>1, <3>2, RestoredHas DEF Cut
    <2> QED
      BY <1>3, <2>2 DEF RollbackFits
  <1>8. RollbackRuns'
    BY <1>3, RestoredHas DEF RollbackRuns
  <1>9. TokensHeld'
    BY <1>1, <1>3 DEF TokensHeld, Cut
  <1> QED
    BY <1>1, <1>5, <1>6, <1>7, <1>8, <1>9 DEF BoxInv

(* Between two applies there is little to keep. *)
LEMMA NothingApplied ==
    ASSUME BoxType', ConfigHeld', apply' = Box!NoApply PROVE BoxInv'
  <1>1. ~Running'
    BY DEF Running
  <1> QED
    BY <1>1 DEF BoxInv, ApplyOK, StepsFit, UnitsFit, RollbackFits, RollbackRuns, TokensHeld

(* The script was killed. *)
LEMMA BoxKilled == ASSUME BoxInv, BoxConstants, Box!Killed PROVE BoxInv'
  <1>1. Box!CutShort /\ apply' = Box!NoApply
    BY DEF Box!Killed
  <1> QED
    BY <1>1, CutsShort, NothingApplied

(* What copying back the next part does: Now is the part. *)
LEMMA CopiesBack ==
    ASSUME BoxInv, BoxConstants, Running, apply.at = "rollback", NEW half \in BOOLEAN, Box!CopyBack(half)
    PROVE  /\ BoxType' /\ ConfigHeld' /\ UNCHANGED <<admin, snapshots, applies>>
           /\ apply.todo = <<>> => file' = file
           /\ apply.todo # <<>> => \A p \in Restorable :
                 /\ p # Box!Now \/ Saved[p] = None => file'[p] = file[p]
                 /\ p = Box!Now /\ Saved[p] # None /\ ~half => file'[p] = Saved[p]
           /\ file'[AgentCfg] = 0 => apply.before[AgentCfg] = 0
  <1> DEFINE p == Box!Now
  <1>0. /\ file' = IF Box!Saved = None \/ (half /\ p[2] = "bin") THEN file
                   ELSE [file EXCEPT ![p] = IF half THEN Torn ELSE Box!Saved]
        /\ waived' = IF Box!Saved = Torn THEN waived \cup (Box!InConfig(file) \ Box!InConfig(file'))
                     ELSE waived
        /\ UNCHANGED <<admin, running, snapshots, applies>>
    BY DEF Box!CopyBack
  <1>1. /\ apply \in ApplyType /\ snapshots[applies] \in Snapshot /\ applies \in 1..MaxApplies
        /\ apply.n = applies /\ file \in [Box!Parts -> Content] /\ apply.todo \in Seq(Restorable)
        /\ Restorable \subseteq Box!Parts
    BY PartFacts DEF BoxInv, ApplyOK, BoxType, RollbackRuns
  <1>2. CASE apply.todo = <<>>
    <2>1. Box!Saved = None
      BY <1>2 DEF Box!Saved
    <2>2. file' = file /\ waived' = waived
      BY <1>0, <2>1 DEF BoxConstants
    <2>3. BoxType' /\ ConfigHeld'
      BY <1>0, <2>2 DEF BoxInv, BoxType, TokensHeld, ConfigHeld, Held
    <2> QED
      BY <1>0, <1>2, <2>2, <2>3 DEF BoxInv, TokensHeld
  <1>3. CASE apply.todo # <<>>
    <2>1. p \in Restorable
      BY <1>1, <1>3 DEF Box!Now
    <2>2. Box!Saved = Saved[p]
      BY <1>1, <1>3 DEF Box!Saved, Saved
    <2> HIDE DEF p
    <2> DEFINE v == IF half THEN Torn ELSE Saved[p]
               same == Saved[p] = None \/ (half /\ p[2] = "bin")
    <2>3. file' = IF same THEN file ELSE [file EXCEPT ![p] = v]
      BY <1>0, <2>2
    <2>4. v \in Content /\ (~same => v # None) /\ (~half => v = Saved[p])
      BY <1>1, <2>1 DEF Content, Snapshot, Saved, BoxConstants
    <2>5. Saved[p] \in {None, apply.before[p], Torn}
      BY <2>1 DEF BoxInv, RollbackFits
    <2>6. p = AgentCfg => (same <=> Saved[p] = None)
      BY DEF AgentCfg, Box!Cfg
    <2>6a. v \in {Torn, Saved[p]} /\ (Saved[p] = None => same) /\ (same /\ ~half => Saved[p] = None)
      OBVIOUS
    <2> HIDE DEF v, same
    <2>7. /\ file' \in [Box!Parts -> Content]
          /\ \A q \in Box!Parts : q # p => file'[q] = file[q]
          /\ same => file' = file
          /\ ~same => file'[p] = v
      BY <1>1, <2>1, <2>3, <2>4
    <2>8. BoxType'
      <3>1. \A q \in Restorable \ {Box!Legacy} : file'[q] # None
        BY <1>1, <2>1, <2>4, <2>7 DEF BoxInv, BoxType
      <3> QED
        BY <1>0, <2>7, <3>1 DEF BoxInv, BoxType
    <2>9. \A q \in Restorable : /\ q # p \/ Saved[q] = None => file'[q] = file[q]
                                /\ q = p /\ Saved[q] # None /\ ~half => file'[q] = Saved[q]
      BY <1>1, <2>1, <2>4, <2>6a, <2>7
    <2>10. waived \subseteq waived' /\ (Saved[p] = Torn => Box!InConfig(file) \subseteq waived' \cup Box!InConfig(file'))
      BY <1>0, <2>2
    <2>11. file'[AgentCfg] = 0 => apply.before[AgentCfg] = 0
      <3>1. CASE file'[AgentCfg] = file[AgentCfg]
        BY <3>1 DEF BoxInv, TokensHeld
      <3>2. CASE file'[AgentCfg] # file[AgentCfg]
        <4>1. p = AgentCfg /\ file'[AgentCfg] = v
          BY <2>7, <3>2, CfgFacts
        <4>2. v = 0 => Saved[AgentCfg] = 0
          BY <2>6a, <4>1 DEF BoxConstants
        <4> QED
          BY <2>5, <4>1, <4>2 DEF BoxConstants
      <3> QED
        BY <3>1, <3>2
    <2>12. ConfigHeld'
      <3>1. CASE file'[AgentCfg] = file[AgentCfg]
        BY <1>0, <2>10, <3>1 DEF BoxInv, TokensHeld, ConfigHeld, Held
      <3>2. CASE file'[AgentCfg] # file[AgentCfg]
        <4>1. p = AgentCfg /\ file'[AgentCfg] = v /\ ~same
          BY <2>7, <3>2, CfgFacts
        <4>2. Saved[AgentCfg] # None
          BY <2>6, <4>1
        <4>3. CASE Saved[AgentCfg] = Torn
          <5>1. v = Torn
            BY <2>6a, <4>1, <4>3
          <5>2. Box!InConfig(file') = {}
            BY <4>1, <5>1 DEF Box!InConfig, AgentCfg, BoxConstants
          <5>3. file[AgentCfg] = 0 => Publishers \subseteq waived'
            <6>1. file[AgentCfg] = 0 => Box!InConfig(file) = Publishers
              BY DEF Box!InConfig, AgentCfg
            <6> QED
              BY <2>10, <4>1, <4>3, <5>2, <6>1
          <5> QED
            BY <1>0, <2>10, <4>1, <5>1, <5>3 DEF BoxInv, TokensHeld, ConfigHeld, Held
        <4>4. CASE Saved[AgentCfg] # Torn
          <5>1. Saved[AgentCfg] = apply.before[AgentCfg]
            BY <2>5, <4>1, <4>2, <4>4
          <5>2. Saved[AgentCfg] = 0 \/ Publishers \subseteq Held
            BY <4>4, <5>1 DEF BoxInv, TokensHeld
          <5>3. CASE Saved[AgentCfg] = 0
            <6>1. v \in {Torn, 0}
              BY <2>6a, <4>1, <5>3
            <6>2. snapshots'[applies] # None /\ snapshots'[applies].files[AgentCfg] = 0
              BY <1>0, <1>1, <5>3 DEF Saved, BoxConstants
            <6> QED
              BY <1>1, <4>1, <6>1, <6>2 DEF ConfigHeld
          <5>4. CASE Publishers \subseteq Held
            BY <1>0, <5>4 DEF ConfigHeld, Held
          <5> QED
            BY <5>2, <5>3, <5>4
        <4> QED
          BY <4>3, <4>4
      <3> QED
        BY <3>1, <3>2
    <2> QED
      BY <1>0, <1>3, <2>8, <2>9, <2>11, <2>12 DEF p
  <1> QED
    BY <1>2, <1>3

(* A part is copied back. *)
LEMMA BoxRollsBack == ASSUME BoxInv, BoxConstants, Box!RollBack PROVE BoxInv'
  <1>0. /\ apply.at = "rollback" /\ apply.todo # <<>> /\ Box!CopyBack(FALSE)
        /\ apply' = [apply EXCEPT !.todo = Tail(@)] /\ Running
    <2>1. apply.at = "rollback" /\ apply.todo # <<>> /\ Box!CopyBack(FALSE) /\ Box!Done
      BY Zenon DEF Box!RollBack
    <2>2. Running
      BY <2>1 DEF Running, Box!NoApply
    <2> QED
      BY <2>1, <2>2 DEF Box!Done
  <1>1. /\ apply \in ApplyType /\ snapshots[applies] \in Snapshot /\ applies \in 1..MaxApplies
        /\ apply.n = applies /\ apply.todo \in Seq(Restorable)
    BY <1>0 DEF BoxInv, ApplyOK, RollbackRuns
  <1>2. /\ BoxType' /\ ConfigHeld' /\ UNCHANGED <<admin, snapshots, applies>>
        /\ \A p \in Restorable :
                 /\ p # Box!Now \/ Saved[p] = None => file'[p] = file[p]
                 /\ p = Box!Now /\ Saved[p] # None => file'[p] = Saved[p]
        /\ file'[AgentCfg] = 0 => apply.before[AgentCfg] = 0
    BY <1>0, CopiesBack
  <1>3. /\ Tail(apply.todo) \in Seq(Restorable)
        /\ \A x : Has(apply.todo, x) <=> x = Box!Now \/ Has(Tail(apply.todo), x)
    BY <1>0, <1>1, TailHas DEF Box!Now
  <1>4. /\ apply' \in ApplyType /\ apply'.at = "rollback" /\ apply'.todo = Tail(apply.todo) /\ apply'.n = apply.n
        /\ apply'.before = apply.before /\ apply'.whole = apply.whole
    BY <1>0, <1>1, <1>3 DEF ApplyType
  <1>5. Running'
    BY <1>4 DEF Running, Box!NoApply
  <1>6. ApplyOK'
    BY <1>0, <1>1, <1>2, <1>4 DEF BoxInv, ApplyOK
  <1>7. StepsFit' /\ UnitsFit'
    BY <1>4 DEF StepsFit, UnitsFit
  <1>8. RollbackFits'
    <2>0. Saved' = Saved
      BY <1>2 DEF Saved
    <2>1. ASSUME NEW p \in Restorable, apply.whole
          PROVE  /\ file'[p] = apply.before[p] \/ (Saved[p] = apply.before[p] /\ Saved[p] # None)
                 /\ Has(Tail(apply.todo), p) \/ file'[p] = apply.before[p]
      <3>1. /\ Saved[p] \in {None, apply.before[p]}
            /\ file[p] = apply.before[p] \/ (Saved[p] = apply.before[p] /\ Saved[p] # None)
            /\ Has(apply.todo, p) \/ file[p] = apply.before[p]
        BY <1>0, <2>1 DEF BoxInv, RollbackFits
      <3>2. CASE p = Box!Now /\ Saved[p] # None
        BY <1>2, <3>1, <3>2
      <3>3. CASE p = Box!Now /\ Saved[p] = None
        BY <1>2, <3>1, <3>3
      <3>4. CASE p # Box!Now
        BY <1>2, <1>3, <3>1, <3>4
      <3> QED
        BY <3>2, <3>3, <3>4
    <2> QED
      BY <1>0, <1>4, <2>0, <2>1 DEF BoxInv, RollbackFits
  <1>9. RollbackRuns'
    BY <1>3, <1>4 DEF RollbackRuns
  <1>10. TokensHeld'
    BY <1>0, <1>2, <1>4 DEF BoxInv, TokensHeld, Held
  <1> QED
    BY <1>2, <1>6, <1>7, <1>8, <1>9, <1>10 DEF BoxInv

(* ... or half of it. *)
LEMMA BoxRollbackFails == ASSUME BoxInv, BoxConstants, Box!RollbackFails PROVE BoxInv'
  <1>0. /\ apply.at = "rollback" /\ apply' = Box!NoApply /\ Running
        /\ Box!CopyBack(TRUE) \/ UNCHANGED <<file, admin, running, snapshots, applies, waived>>
    <2>1. /\ apply.at = "rollback" /\ apply' = Box!NoApply
          /\ Box!CopyBack(TRUE) \/ UNCHANGED <<Box!box, snapshots, applies, waived>>
      BY Zenon DEF Box!RollbackFails
    <2>2. Running
      BY <2>1 DEF Running, Box!NoApply
    <2>3. UNCHANGED <<Box!box, snapshots, applies, waived>> =>
              UNCHANGED <<file, admin, running, snapshots, applies, waived>>
      BY DEF Box!box
    <2> QED
      BY <2>1, <2>2, <2>3
  <1>1. CASE Box!CopyBack(TRUE)
    BY <1>0, <1>1, CopiesBack, NothingApplied
  <1>2. CASE UNCHANGED <<file, admin, running, snapshots, applies, waived>>
    <2>1. BoxType' /\ ConfigHeld'
      BY <1>2 DEF BoxInv, BoxType, TokensHeld, ConfigHeld, Held
    <2> QED
      BY <1>0, <2>1, NothingApplied
  <1> QED
    BY <1>0, <1>1, <1>2

(* The units are restarted on what was restored. *)
LEMMA BoxRolledBack == ASSUME BoxInv, BoxConstants, Box!RolledBack PROVE BoxInv'
  <1>0. /\ apply.at = "rollback" /\ apply.todo = <<>> /\ Running
        /\ running' = [u \in Box!Units |->
              IF u = "console" /\ snapshots[apply.n].files[Box!Bin(u)] = None THEN running[u]
              ELSE Box!Started(u)]
        /\ apply' = [apply EXCEPT !.at = "restored"]
        /\ UNCHANGED <<file, admin, snapshots, applies, waived>>
    BY DEF Box!RolledBack, Running, Box!NoApply
  <1>1. /\ apply \in ApplyType /\ snapshots[applies] \in Snapshot /\ applies \in 1..MaxApplies
        /\ apply.n = applies /\ file \in [Box!Parts -> Content] /\ running \in [Box!Units -> Content]
    BY <1>0 DEF BoxInv, ApplyOK, BoxType
  <1>2. \A u \in Box!Units : Box!Started(u) \in Content
    BY <1>1, PartFacts DEF Box!Started, Content
  <1>3. running' \in [Box!Units -> Content]
    BY <1>0, <1>1, <1>2
  <1>4. running'["agent"] = Box!Started("agent")
    BY <1>0 DEF Box!Units
  <1>5. BoxType'
    BY <1>0, <1>3 DEF BoxInv, BoxType
  <1>6. /\ apply' \in ApplyType /\ apply'.at = "restored" /\ apply'.todo = <<>> /\ apply'.n = apply.n
        /\ apply'.before = apply.before /\ apply'.whole = apply.whole
    BY <1>0, <1>1 DEF ApplyType
  <1>7. Running'
    BY <1>6 DEF Running, Box!NoApply
  <1>8. ApplyOK'
    BY <1>0, <1>1, <1>6 DEF BoxInv, ApplyOK
  <1>9. StepsFit' /\ UnitsFit'
    BY <1>6 DEF StepsFit, UnitsFit
  <1>10. RollbackFits'
    BY <1>0, <1>6 DEF BoxInv, RollbackFits, Saved
  <1>11. RollbackRuns'
    BY <1>0, <1>4, <1>6 DEF RollbackRuns, Box!Started
  <1>12. TokensHeld'
    BY <1>0, <1>6 DEF BoxInv, TokensHeld, ConfigHeld, Held
  <1> QED
    BY <1>5, <1>8, <1>9, <1>10, <1>11, <1>12 DEF BoxInv

(* Nothing is left to do. *)
LEMMA BoxSucceeds == ASSUME BoxInv, BoxConstants, Box!Succeeds PROVE BoxInv'
  <1>0. /\ apply.at = "steps" /\ apply.todo = <<>> /\ Running
        /\ apply' = [apply EXCEPT !.at = "ok"]
        /\ UNCHANGED <<file, admin, running, holder, snapshots, applies, waived>>
    BY DEF Box!Succeeds, Box!box, Running, Box!NoApply
  <1>1. /\ apply \in ApplyType /\ snapshots[applies] \in Snapshot /\ applies \in 1..MaxApplies
        /\ apply.n = applies
    BY <1>0 DEF BoxInv, ApplyOK
  <1>2. BoxType'
    BY <1>0 DEF BoxInv, BoxType
  <1>3. /\ apply' \in ApplyType /\ apply'.at = "ok" /\ apply'.todo = <<>> /\ apply'.n = apply.n
        /\ apply'.before = apply.before /\ apply'.whole = apply.whole /\ apply'.units = apply.units
        /\ apply'.restart = apply.restart /\ apply'.blind = apply.blind
    BY <1>0, <1>1 DEF ApplyType
  <1>4. Running'
    BY <1>3 DEF Running, Box!NoApply
  <1>5. ApplyOK'
    BY <1>0, <1>1, <1>3 DEF BoxInv, ApplyOK
  <1>6. StepsFit' /\ RollbackRuns'
    BY <1>3 DEF StepsFit, RollbackRuns
  <1>7. UnitsFit'
    BY <1>0, <1>3 DEF BoxInv, UnitsFit, Box!Listens
  <1>8. RollbackFits'
    BY <1>0, <1>3 DEF BoxInv, RollbackFits, Saved
  <1>9. TokensHeld'
    BY <1>0, <1>3 DEF BoxInv, TokensHeld, ConfigHeld, Held
  <1> QED
    BY <1>2, <1>5, <1>6, <1>7, <1>8, <1>9 DEF BoxInv

(* What a rotation drops was waived, or the tokens are held elsewhere. *)
LEMMA Rotates ==
    ASSUME BoxInv, BoxConstants, NEW gone \in SUBSET (1..MaxApplies), Box!Drop(gone),
           UNCHANGED <<file, admin, running, applies>>, waived \subseteq waived',
           \/ file[AgentCfg] # Torn
           \/ \A m \in gone : Box!TokensIn(m) \subseteq waived'
    PROVE  BoxType' /\ ConfigHeld'
  <1>1. snapshots \in [1..MaxApplies -> Snapshot \cup {None}]
    BY DEF BoxInv, BoxType
  <1>2. /\ snapshots' \in [1..MaxApplies -> Snapshot \cup {None}]
        /\ \A m \in 1..MaxApplies : snapshots'[m] = IF m \in gone THEN None ELSE snapshots[m]
    BY <1>1 DEF Box!Drop
  <1>3. BoxType'
    BY <1>2 DEF BoxInv, BoxType
  <1>4. ConfigHeld'
    <2>1. CASE file[AgentCfg] = 0 \/ Publishers \subseteq Held \/ (file[AgentCfg] = Torn /\ Publishers \subseteq waived)
      BY <2>1 DEF ConfigHeld, Held
    <2>2. ASSUME file[AgentCfg] = Torn, NEW m \in 1..MaxApplies, snapshots[m] # None, snapshots[m].files[AgentCfg] = 0
          PROVE  ConfigHeld'
      <3>1. CASE m \in gone
        <4>1. Publishers \subseteq Box!TokensIn(m)
          BY <2>2 DEF Box!TokensIn, Box!InConfig, AgentCfg
        <4> QED
          BY <2>2, <3>1, <4>1 DEF ConfigHeld
      <3>2. CASE m \notin gone
        BY <1>2, <2>2, <3>2 DEF ConfigHeld
      <3> QED
        BY <3>1, <3>2
    <2> QED
      BY <2>1, <2>2 DEF BoxInv, TokensHeld, ConfigHeld
  <1> QED
    BY <1>3, <1>4

(* The apply is over, and the snapshots are rotated. *)
LEMMA BoxEnds == ASSUME BoxInv, BoxConstants, Box!EndApply PROVE BoxInv'
  <1>0. /\ apply.at \in {"ok", "restored"} /\ apply' = Box!NoApply /\ Running
        /\ UNCHANGED <<file, admin, running, applies>>
    BY DEF Box!EndApply, Box!box, Running, Box!NoApply
  <1> DEFINE gone == Box!Surplus(Keep, {apply.n})
  <1>1. CASE /\ apply.at = "ok" /\ Box!Drop(gone)
             /\ waived' = IF "agent" \in apply.units THEN waived
                       ELSE waived \cup UNION {Box!TokensIn(n) : n \in gone}
    <2>1. gone \in SUBSET (1..MaxApplies)
      BY DEF Box!Surplus, BoxInv, BoxType
    <2> HIDE DEF gone
    <2>2. waived \subseteq waived'
      BY <1>1
    <2>3. CASE "agent" \in apply.units
      <3>1. ~Has(apply.todo, Box!Step("write", "agent", AgentCfg))
        BY <1>0, NoSteps DEF BoxInv, ApplyOK
      <3>2. file[AgentCfg] = applies
        <4>1. /\ Box!Step("write", "agent", AgentCfg) \in Writes("agent")
              /\ Box!Step("write", "agent", AgentCfg).part = AgentCfg
          BY DEF Writes, AgentCfg, Box!Step
        <4> QED
          BY <1>0, <1>1, <2>3, <3>1, <4>1 DEF BoxInv, UnitsFit
      <3>3. file[AgentCfg] # Torn
        BY <1>0, <3>2 DEF BoxInv, ApplyOK, BoxConstants
      <3> QED
        BY <1>0, <1>1, <2>1, <2>2, <3>3, Rotates, NothingApplied
    <2>4. CASE "agent" \notin apply.units
      <3>1. \A m \in gone : Box!TokensIn(m) \subseteq waived'
        BY <1>1, <2>4
      <3> QED
        BY <1>0, <1>1, <2>1, <2>2, <3>1, Rotates, NothingApplied
    <2> QED
      BY <2>3, <2>4
  <1>2. CASE UNCHANGED <<snapshots, waived>>
    <2>1. BoxType' /\ ConfigHeld'
      BY <1>0, <1>2 DEF BoxInv, BoxType, TokensHeld, ConfigHeld, Held
    <2> QED
      BY <1>0, <2>1, NothingApplied
  <1> QED
    BY <1>1, <1>2 DEF Box!EndApply

(* The rotation by hand spares the snapshot of the apply in progress: it is the newest. *)
LEMMA BoxPrunes == ASSUME BoxInv, BoxConstants, Box!PruneByHand PROVE BoxInv'
  <1> DEFINE gone == Box!Surplus(Keep, {})
  <1>0. /\ Box!Drop(gone) /\ waived' = waived \cup UNION {Box!TokensIn(n) : n \in gone}
        /\ UNCHANGED <<file, admin, running, holder, apply, applies>>
    BY DEF Box!PruneByHand, Box!box
  <1>1. gone \in SUBSET (1..MaxApplies)
    BY DEF Box!Surplus, BoxInv, BoxType
  <1>2. Running => applies \notin gone
    <2> SUFFICES ASSUME Running, applies \in gone PROVE FALSE
      OBVIOUS
    <2> DEFINE candidates == {n \in DOMAIN snapshots : Box!Kept(n)} \ {}
    <2>1. Box!Cardinality({m \in candidates : m > applies}) + Box!Cardinality({}) >= Keep
      BY DEF Box!Surplus
    <2>2. {m \in candidates : m > applies} = {}
      BY DEF Box!Kept, BoxInv, BoxType
    <2>3. Box!Cardinality({}) = 0
      BY FS_EmptySet DEF Box!Cardinality, Cardinality
    <2> HIDE DEF candidates
    <2>4. Box!Cardinality({}) + Box!Cardinality({}) >= Keep
      BY <2>1, <2>2
    <2> QED
      BY <2>3, <2>4 DEF BoxConstants
  <1> HIDE DEF gone
  <1>3. waived \subseteq waived' /\ \A m \in gone : Box!TokensIn(m) \subseteq waived'
    BY <1>0
  <1>4. BoxType' /\ ConfigHeld'
    BY <1>0, <1>1, <1>3, Rotates
  <1>5. Running => snapshots'[applies] = snapshots[applies] /\ Saved' = Saved
    BY <1>0, <1>2 DEF Box!Drop, BoxInv, ApplyOK, BoxType, Saved
  <1>6. Running' = Running /\ Held' = Held
    BY <1>0 DEF Running, Held
  <1>7. ApplyOK'
    BY <1>0, <1>5, <1>6 DEF BoxInv, ApplyOK
  <1>8. StepsFit'
    BY <1>0, <1>5, <1>6 DEF BoxInv, StepsFit
  <1>9. UnitsFit'
    BY <1>0, <1>6 DEF BoxInv, UnitsFit, Box!Listens
  <1>10. RollbackFits'
    BY <1>0, <1>5, <1>6 DEF BoxInv, RollbackFits
  <1>11. RollbackRuns'
    BY <1>0, <1>6 DEF BoxInv, RollbackRuns, Box!Started
  <1>12. TokensHeld'
    BY <1>0, <1>4, <1>6 DEF BoxInv, TokensHeld
  <1> QED
    BY <1>4, <1>7, <1>8, <1>9, <1>10, <1>11, <1>12 DEF BoxInv

(* The agent issues a token. *)
LEMMA BoxIssues == ASSUME BoxInv, BoxConstants, Box!IssueToken PROVE BoxInv'
  <1>0. /\ admin \notin {None, Torn}
        /\ UNCHANGED <<file, running, holder, snapshots, apply, applies, waived>>
    BY DEF Box!IssueToken
  <1>1. PICK t \in Issued : admin' = admin \cup {t}
    BY DEF Box!IssueToken
  <1>2. admin \in SUBSET (Publishers \cup Issued)
    BY <1>0 DEF BoxInv, BoxType, AdminDocument
  <1>3. admin' \in SUBSET (Publishers \cup Issued)
    BY <1>1, <1>2
  <1>4. admin' \in AdminDocument /\ Held \subseteq Held'
    BY <1>0, <1>1, <1>3 DEF AdminDocument, Held, BoxConstants
  <1>5. Running' = Running /\ Saved' = Saved
    BY <1>0 DEF Running, Saved
  <1>6. BoxType' /\ ApplyOK'
    BY <1>0, <1>4, <1>5 DEF BoxInv, BoxType, ApplyOK
  <1>7. StepsFit'
    BY <1>0, <1>4, <1>5 DEF BoxInv, StepsFit
  <1>8. UnitsFit'
    BY <1>0, <1>5 DEF BoxInv, UnitsFit, Box!Listens
  <1>9. RollbackFits'
    BY <1>0, <1>5 DEF BoxInv, RollbackFits
  <1>10. RollbackRuns'
    BY <1>0, <1>5 DEF BoxInv, RollbackRuns, Box!Started
  <1>11. TokensHeld'
    BY <1>0, <1>4, <1>5 DEF BoxInv, TokensHeld, ConfigHeld
  <1> QED
    BY <1>6, <1>7, <1>8, <1>9, <1>10, <1>11 DEF BoxInv

(* An apply begins: the files are what it will want back. *)
LEMMA BoxBegins == ASSUME BoxInv, BoxConstants, Box!BeginApply PROVE BoxInv'
  <1> DEFINE n == applies + 1
  <1>0. /\ ~Running /\ applies < MaxApplies /\ applies' = n
        /\ snapshots' = [snapshots EXCEPT ![n] = Box!Nothing]
        /\ UNCHANGED <<file, admin, running, holder, waived>>
    BY DEF Box!BeginApply, Box!box, Running
  <1>1. PICK units \in Upgrades, restart \in BOOLEAN :
          apply' = [at |-> "steps", n |-> n, units |-> units, restart |-> restart,
                    todo |-> Box!Program(units, restart), before |-> file, whole |-> TRUE,
                    blind |-> FALSE]
    BY <1>0 DEF Box!BeginApply
  <1>2. /\ applies \in Nat /\ n \in 1..MaxApplies /\ n \in Nat
        /\ snapshots \in [1..MaxApplies -> Snapshot \cup {None}] /\ snapshots[n] = None
        /\ \A m \in 1..MaxApplies : m > applies => snapshots[m] = None
        /\ file \in [Box!Parts -> Content]
    BY <1>0 DEF BoxInv, BoxType, BoxConstants
  <1>3. Box!Nothing \in Snapshot /\ Box!Nothing # None /\ \A p \in Restorable : Box!Nothing.files[p] = None
    <2>1. Box!Nothing \in Snapshot
      BY DEF Box!Nothing, Snapshot, Content, AdminDocument
    <2>2. Restorable \subseteq Box!Parts
      BY PartFacts
    <2>3. \A p \in Restorable : Box!Nothing.files[p] = None
      BY <2>2 DEF Box!Nothing
    <2> QED
      BY <2>1, <2>3 DEF BoxConstants
  <1>4. units \in SUBSET Box!Units
    BY DEF BoxConstants
  <1>5. /\ Segment(Box!Program(units, restart), units)
        /\ \A u \in units : \A x \in Needed(u, restart) : Has(Box!Program(units, restart), x)
    BY <1>4, ProgramFits
  <1> HIDE DEF n
  <1>6. /\ snapshots' \in [1..MaxApplies -> Snapshot \cup {None}] /\ snapshots'[n] = Box!Nothing
        /\ \A m \in 1..MaxApplies : m # n => snapshots'[m] = snapshots[m]
    BY <1>0, <1>2, <1>3
  <1>7. /\ apply'.at = "steps" /\ apply'.n = n /\ apply'.units = units /\ apply'.restart = restart
        /\ apply'.todo = Box!Program(units, restart) /\ apply'.before = file /\ apply'.whole = TRUE
        /\ apply'.blind = FALSE
    BY <1>1
  <1>8. apply' \in ApplyType
    <2>1. Box!Program(units, restart) \in Seq(StepType)
      BY <1>5 DEF Segment
    <2> QED
      BY <1>1, <1>2, <1>4, <2>1 DEF ApplyType
  <1>9. Running' /\ Saved' = Box!Nothing.files
    BY <1>0, <1>6, <1>7 DEF Running, Box!NoApply, Saved
  <1>10. BoxType'
    <2>1. \A m \in 1..MaxApplies : m > n => snapshots'[m] = None
      BY <1>2, <1>6 DEF n
    <2>2. n \in 0..MaxApplies
      BY <1>2
    <2> QED
      BY <1>0, <1>6, <2>1, <2>2 DEF BoxInv, BoxType
  <1>11. ApplyOK'
    <2>1. \A p \in Restorable \ {Box!Legacy} : file[p] # None
      BY DEF BoxInv, BoxType
    <2> QED
      BY <1>0, <1>2, <1>3, <1>6, <1>7, <1>8, <2>1 DEF ApplyOK
  <1>12. \A u \in units : /\ Has(apply'.todo, Saves(u)) /\ \A x \in Writes(u) : Has(apply'.todo, x)
                          /\ restart => Has(apply'.todo, Restarts(u)) /\ Has(apply'.todo, Listener(u))
                          /\ u = "agent" => Has(apply'.todo, Loads) /\ Has(apply'.todo, Merges)
    BY <1>5, <1>7 DEF Needed
  <1>13. StepsFit'
    BY <1>0, <1>5, <1>7, <1>12 DEF StepsFit
  <1>14. UnitsFit'
    BY <1>0, <1>7, <1>12 DEF UnitsFit
  <1>15. RollbackFits'
    BY <1>0, <1>3, <1>7, <1>9 DEF RollbackFits
  <1>16. RollbackRuns'
    BY <1>7 DEF RollbackRuns
  <1>17. TokensHeld'
    <2>1. ConfigHeld'
      BY <1>0, <1>2, <1>6 DEF BoxInv, TokensHeld, ConfigHeld, Held
    <2>2. file[AgentCfg] \in {0, Torn} \/ Publishers \subseteq Held
      BY DEF BoxInv, TokensHeld, ConfigHeld
    <2> QED
      BY <1>0, <1>7, <2>1, <2>2 DEF TokensHeld, Held
  <1> QED
    BY <1>10, <1>11, <1>13, <1>14, <1>15, <1>16, <1>17 DEF BoxInv

(* The box before its first upgrade. *)
LEMMA BoxInit == ASSUME BoxConstants, Box!DeployInit PROVE BoxInv
  <1>1. PICK legacy \in {None, 0} :
           file = [p \in Box!Parts |-> IF p = Box!Legacy THEN legacy
                                       ELSE IF p \in {Box!Token, Box!Catalog} THEN None ELSE 0]
    BY DEF Box!DeployInit
  <1>2. /\ admin = None /\ running = [u \in Box!Units |-> 0]
        /\ snapshots = [n \in 1..MaxApplies |-> None] /\ applies = 0 /\ ~Running
    BY DEF Box!DeployInit, Running
  <1>3. file \in [Box!Parts -> Content]
    BY <1>1 DEF Content
  <1>4. /\ Box!Token \notin Restorable /\ Box!Catalog \notin Restorable /\ Restorable \subseteq Box!Parts
    BY PartFacts DEF Box!Token, Box!Catalog, Box!Cfg, Box!Bin, Box!Unit, Box!Legacy, Box!ProductFiles
  <1>5. \A p \in Restorable \ {Box!Legacy} : file[p] = 0
    BY <1>1, <1>4
  <1>6. BoxType
    BY <1>2, <1>3, <1>5 DEF BoxType, BoxConstants, Content, AdminDocument
  <1>7. file[AgentCfg] = 0
    BY <1>5, CfgFacts
  <1> QED
    BY <1>2, <1>6, <1>7
       DEF BoxInv, ApplyOK, StepsFit, UnitsFit, RollbackFits, RollbackRuns, TokensHeld, ConfigHeld

(* Every step of the box keeps the invariant. *)
LEMMA BoxStep == ASSUME BoxInv, Box!DeployNext PROVE BoxInv'
  <1> BoxConstants
    BY ConstantsOfTheBox
  <1>1. CASE Box!Load
    BY <1>1, QuietStep DEF Box!Load, Box!box
  <1>2. CASE Box!RequireRunning
    BY <1>2, QuietStep DEF Box!RequireRunning, Box!box
  <1>3. CASE Box!Probe
    BY <1>3, QuietStep DEF Box!Probe, Box!box
  <1> QED
    BY <1>1, <1>2, <1>3, BoxBegins, BoxBacksUp, BoxRetires, BoxMerges, BoxWrites, BoxRestarts, BoxListens,
       BoxFails, BoxKilled, BoxRollsBack, BoxRollbackFails, BoxRolledBack, BoxSucceeds, BoxEnds,
       BoxPrunes, BoxIssues DEF Box!DeployNext

(* What is reported of an upgrade is true. *)
LEMMA BoxServes == ASSUME BoxInv PROVE Box!SuccessIsServed /\ Box!RollbackRestores
  <1>1. Box!SuccessIsServed
    <2> SUFFICES ASSUME apply.at = "ok", apply.restart, ~apply.blind, NEW u \in apply.units
                 PROVE  running[u] = apply.n /\ Box!Listens(u)
      BY DEF Box!SuccessIsServed
    <2>1. Running
      BY DEF Running, Box!NoApply
    <2>2. apply.todo = <<>> /\ apply.n = applies
      BY <2>1 DEF BoxInv, ApplyOK
    <2>3. ~Has(apply.todo, Restarts(u)) /\ ~Has(apply.todo, Listener(u))
      BY <2>2, NoSteps
    <2> QED
      BY <2>1, <2>2, <2>3 DEF BoxInv, UnitsFit
  <1>2. Box!RollbackRestores
    <2> SUFFICES ASSUME apply.at = "restored", apply.whole, NEW p \in Restorable
                 PROVE  file[p] = apply.before[p]
      BY DEF Box!RollbackRestores, Restorable
    <2>1. Running
      BY DEF Running, Box!NoApply
    <2>2. apply.todo = <<>>
      BY <2>1 DEF BoxInv, ApplyOK
    <2>3. ~Has(apply.todo, p)
      BY <2>2, NoSteps
    <2> QED
      BY <2>1, <2>3 DEF BoxInv, RollbackFits
  <1> QED
    BY <1>1, <1>2

(* The tokens of the publishers are somewhere, and where the agent looks for them. *)
LEMMA BoxKeepsTokens == ASSUME BoxInv PROVE Box!TokensSurvive
  <1> BoxConstants
    BY ConstantsOfTheBox
  <1>1. Publishers \subseteq Box!InConfig(file) \cup Held \cup waived
                             \cup UNION {Box!TokensIn(n) : n \in DOMAIN snapshots}
    <2>1. CASE file[AgentCfg] = 0 \/ Publishers \subseteq Held \/ Publishers \subseteq waived
      BY <2>1 DEF Box!InConfig, AgentCfg
    <2>2. ASSUME NEW m \in 1..MaxApplies, snapshots[m] # None, snapshots[m].files[AgentCfg] = 0
          PROVE  m \in DOMAIN snapshots /\ Publishers \subseteq Box!TokensIn(m)
      BY <2>2 DEF Box!TokensIn, Box!InConfig, AgentCfg, BoxInv, BoxType
    <2> QED
      BY <2>1, <2>2 DEF BoxInv, TokensHeld, ConfigHeld
  <1> DEFINE f == apply.before
             pair == {f[Box!Bin("agent")], f[AgentCfg]}
  <1>2. ASSUME Running, Torn \notin pair \cup {f[Box!Unit("agent")]}, 0 \in pair => pair = {0},
               Box!RestartedAgent
        PROVE  Publishers \subseteq IF running["agent"] = 0 THEN Box!InConfig(file) ELSE Held
    <2>0. apply.n = applies /\ applies \in 1..MaxApplies
      BY <1>2 DEF BoxInv, ApplyOK
    <2>1. CASE apply.at = "ok" /\ apply.restart /\ "agent" \in apply.units
      <3>1. apply.todo = <<>>
        BY <1>2, <2>1 DEF BoxInv, ApplyOK
      <3>2. \A x : ~Has(apply.todo, x)
        BY <3>1, NoSteps
      <3>3. running["agent"] = applies
        BY <1>2, <2>1, <3>2 DEF BoxInv, UnitsFit
      <3>4. file[AgentCfg] = applies
        <4>1. /\ Box!Step("write", "agent", AgentCfg) \in Writes("agent")
              /\ Box!Step("write", "agent", AgentCfg).part = AgentCfg
          BY DEF Writes, AgentCfg, Box!Step
        <4> QED
          BY <1>2, <2>1, <3>2, <4>1 DEF BoxInv, UnitsFit
      <3>5. applies # 0 /\ applies # Torn
        BY <2>0 DEF BoxConstants
      <3> QED
        BY <3>3, <3>4, <3>5 DEF BoxInv, TokensHeld, ConfigHeld
    <2>2. CASE apply.at = "restored" /\ apply.whole
      <3>1. apply.todo = <<>>
        BY <1>2, <2>2 DEF BoxInv, ApplyOK
      <3>2. \A x : ~Has(apply.todo, x)
        BY <3>1, NoSteps
      <3>3. \A p \in Restorable : file[p] = f[p]
        BY <1>2, <2>2, <3>2 DEF BoxInv, RollbackFits
      <3>4. /\ file[AgentCfg] = f[AgentCfg] /\ file[Box!Bin("agent")] = f[Box!Bin("agent")]
            /\ file[Box!Unit("agent")] = f[Box!Unit("agent")]
        BY <3>3, CfgFacts, PartFacts
      <3>5. running["agent"] = f[Box!Bin("agent")]
        BY <1>2, <2>2, <3>4 DEF BoxInv, RollbackRuns, Box!Started, AgentCfg
      <3>6. CASE f[Box!Bin("agent")] = 0
        <4>1. file[AgentCfg] = 0
          BY <1>2, <3>4, <3>6
        <4> QED
          BY <3>5, <3>6, <4>1 DEF Box!InConfig, AgentCfg
      <3>7. CASE f[Box!Bin("agent")] # 0
        <4>1. f[AgentCfg] # 0 /\ f[AgentCfg] # Torn
          BY <1>2, <3>7
        <4> QED
          BY <1>2, <3>5, <3>7, <4>1 DEF BoxInv, TokensHeld
      <3> QED
        BY <3>6, <3>7
    <2> QED
      BY <1>2, <2>1, <2>2 DEF Box!RestartedAgent
  <1> QED
    BY <1>1, <1>2 DEF Box!TokensSurvive, Held, Running, AgentCfg

(* A step of another task leaves the box alone. *)
LEMMA BoxStays == ASSUME BoxInv, UNCHANGED boxVars PROVE BoxInv'
  <1>1. UNCHANGED <<file, admin, running, holder, snapshots, apply, applies, waived>>
    BY DEF boxVars
  <1>2. Running' = Running /\ Saved' = Saved /\ Held' = Held
    BY <1>1 DEF Running, Saved, Held
  <1>3. BoxType' /\ ApplyOK'
    BY <1>1, <1>2 DEF BoxInv, BoxType, ApplyOK
  <1>4. StepsFit'
    BY <1>1, <1>2 DEF BoxInv, StepsFit
  <1>5. UnitsFit'
    BY <1>1, <1>2 DEF BoxInv, UnitsFit, Box!Listens
  <1>6. RollbackFits'
    BY <1>1, <1>2 DEF BoxInv, RollbackFits
  <1>7. RollbackRuns'
    BY <1>1, <1>2 DEF BoxInv, RollbackRuns, Box!Started
  <1>8. TokensHeld'
    BY <1>1, <1>2 DEF BoxInv, TokensHeld, ConfigHeld
  <1> QED
    BY <1>3, <1>4, <1>5, <1>6, <1>7, <1>8 DEF BoxInv

(* ... and the migration, *)
LEMMA MigrationStays == ASSUME MigrationInv, UNCHANGED migrationVars PROVE MigrationInv'
  BY DEF migrationVars, MigrationInv, UnitsServe, Migration!Startable

(* ... and what the store opens. *)
LEMMA OpenStays == ASSUME OpenFits, UNCHANGED storeVars PROVE OpenFits'
  <1>1. UNCHANGED <<config, token, issued, storeCommand, granted, strayed>>
    BY DEF storeVars
  <1>2. Store!Loads' = Store!Loads /\ Store!NextFamilyRel' = Store!NextFamilyRel /\ Renamed' = Renamed
    BY <1>1 DEF Store!Loads, Store!NextFamilyRel, Store!FreeFamilies, Renamed
  <1>3. \A i : FileOf(i)' = FileOf(i)
    BY <1>1, <1>2 DEF FileOf
  <1>4. EntriesOpen' = EntriesOpen
    BY <1>1, <1>3, Zenon DEF EntriesOpen
  <1>5. CommandOpen' = CommandOpen
    BY <1>1, <1>2, Zenon DEF CommandOpen
  <1> QED
    BY <1>1, <1>2, <1>4, <1>5 DEF OpenFits

-----------------------------------------------------------------------------
(* The theorems. *)

(* The invariant holds of every behaviour. *)
THEOREM Invariance == Spec => []IInv
  <1>1. Init => IInv
    BY InitProduct, InitAccounts, InitTools, InitKeys, InitStoreTokens, OpenInit, InitMigration, BoxInit,
       ConstantsOfTheBox DEF Init, IInv
  <1>2. IInv /\ [Next]_vars => IInv'
    <2> SUFFICES ASSUME IInv, [Next]_vars PROVE IInv'
      OBVIOUS
    <2>1. CASE RunProduct
      <3>1. ProductInv'
        BY <2>1, ProductStep DEF RunProduct, IInv
      <3> QED
        BY <2>1, <3>1 DEF RunProduct, IInv
    <2>2. CASE UNCHANGED <<task, productVars>>
      <3>1. ProductInv'
        BY <2>2 DEF IInv, productVars, ProductInv, ProductOK, Product!TypeOK, HandlerFits, TokensFit, FloorFits,
                    RetirementFits, Retirement, Gone, Product!Listed
      <3>2. task' = "operators" => AccountsInv'
        <4>1. CASE task = "operators" /\ Operators!AccountsNext
          BY <4>1, AccountsStep DEF IInv
        <4>2. CASE UNCHANGED operatorVars
          BY <2>2, <4>2 DEF operatorVars, IInv, AccountsInv, AccountsOK, SomebodyAsks, SessionsFit,
                            Operators!AdminRemains, Operators!Present, Operators!Admins
        <4>3. task # "operators" \/ Operators!AccountsNext \/ UNCHANGED operatorVars
          BY DEF Next, RunProduct, ManageAccounts, ReleaseTools, UpgradeBox, KeepKeys, InitStore, MigrateServe, vars
        <4> QED
          BY <2>2, <4>1, <4>2, <4>3
      <3>3. task' = "keys" => KeysInv'
        <4>1. CASE task = "keys" /\ Keys!KeysNext
          BY <4>1, KeysStep DEF IInv
        <4>2. CASE UNCHANGED keyVars
          <5> SUFFICES ASSUME task = "keys" PROVE KeysInv'
            BY <2>2
          <5>1. UNCHANGED <<keyFile, hand, seeds, reported, agent, keyFaults>> /\ KeysInv
            BY <4>2 DEF keyVars, IInv
          <5>2. \A o \in Hands : Made(o)' = Made(o)
            BY <5>1 DEF Made
          <5>3. OwnFiles'
            BY <5>1, <5>2 DEF KeysInv, OwnFiles
          <5>4. KeysOK' /\ PairsStay' /\ AgentFits'
            BY <5>1 DEF KeysInv, KeysOK, PairsStay, AgentFits
          <5> QED
            BY <5>3, <5>4 DEF KeysInv
        <4>3. task # "keys" \/ Keys!KeysNext \/ UNCHANGED keyVars
          BY DEF Next, RunProduct, ManageAccounts, ReleaseTools, UpgradeBox, KeepKeys, InitStore, MigrateServe, vars
        <4> QED
          BY <2>2, <4>1, <4>2, <4>3
      <3>4. task' = "store" => StoreInv' /\ OpenFits'
        <4>1. CASE task = "store" /\ Store!StoreNext
          <5>1. StoreInv'
            BY <4>1, StoreStep DEF IInv
          <5> QED
            BY <4>1, <5>1, OpenStep DEF IInv
        <4>2. CASE UNCHANGED storeVars
          <5> SUFFICES ASSUME task = "store" PROVE StoreInv' /\ OpenFits'
            BY <2>2
          <5>0. OpenFits'
            BY <4>2, OpenStays DEF IInv
          <5>1. /\ UNCHANGED <<config, token, issued, granted, revoked, strayed>> /\ StoreInv
                /\ UNCHANGED <<storeCommand, storeCuts>>
            BY <4>2 DEF storeVars, IInv
          <5>2. CommandFits'
            BY <5>1 DEF StoreInv, CommandFits, ShareFits, Store!Loads, Store!FreeFamilies, Store!NextFamilyRel
          <5> QED
            BY <5>0, <5>1, <5>2, BeginsStore DEF StoreInv, StoreOK
        <4>3. task # "store" \/ Store!StoreNext \/ UNCHANGED storeVars
          BY DEF Next, RunProduct, ManageAccounts, ReleaseTools, UpgradeBox, KeepKeys, InitStore, MigrateServe, vars
        <4> QED
          BY <2>2, <4>1, <4>2, <4>3
      <3>5. task' = "tools" => ToolsInv'
        <4>1. CASE task = "tools" /\ Release!ToolsNext
          BY <4>1, ToolsStep DEF IInv
        <4>2. CASE UNCHANGED toolVars
          <5> SUFFICES ASSUME task = "tools" PROVE ToolsInv'
            BY <2>2
          <5>1. /\ UNCHANGED <<tool, sig, manifest, catalog, pipe, replaced>> /\ ToolsInv
                /\ UNCHANGED host /\ Grows
            BY <4>2 DEF toolVars, IInv, Grows
          <5> QED
            BY <5>1, HostStays, HostMoves DEF ToolsInv, ToolsOK
        <4>3. task # "tools" \/ Release!ToolsNext \/ UNCHANGED toolVars
          BY DEF Next, RunProduct, ManageAccounts, ReleaseTools, UpgradeBox, KeepKeys, InitStore, MigrateServe, vars
        <4> QED
          BY <2>2, <4>1, <4>2, <4>3
      <3>6. task' = "migration" => MigrationInv'
        <4>1. CASE task = "migration" /\ Migration!MigrationNext
          BY <4>1, MigrationStep DEF IInv
        <4>2. CASE UNCHANGED migrationVars
          BY <2>2, <4>2, MigrationStays DEF IInv
        <4>3. task # "migration" \/ Migration!MigrationNext \/ UNCHANGED migrationVars
          BY DEF Next, RunProduct, ManageAccounts, ReleaseTools, UpgradeBox, KeepKeys, InitStore, MigrateServe, vars
        <4> QED
          BY <2>2, <4>1, <4>2, <4>3
      <3>7. task' = "upgrade" => BoxInv'
        <4>1. CASE task = "upgrade" /\ Box!DeployNext
          BY <4>1, BoxStep DEF IInv
        <4>2. CASE UNCHANGED boxVars
          BY <2>2, <4>2, BoxStays DEF IInv
        <4>3. task # "upgrade" \/ Box!DeployNext \/ UNCHANGED boxVars
          BY DEF Next, RunProduct, ManageAccounts, ReleaseTools, UpgradeBox, KeepKeys, InitStore, MigrateServe, vars
        <4> QED
          BY <2>2, <4>1, <4>2, <4>3
      <3> QED
        BY <3>1, <3>2, <3>3, <3>4, <3>5, <3>6, <3>7 DEF IInv
    <2>3. RunProduct \/ UNCHANGED <<task, productVars>>
      BY DEF Next, ManageAccounts, ReleaseTools, UpgradeBox, KeepKeys, InitStore, MigrateServe, vars
    <2> QED
      BY <2>1, <2>2, <2>3
  <1> QED
    BY <1>1, <1>2, PTL DEF Spec

(* A token that was taken back opens nothing again.  One of the agent's is
   neither in the admin document nor in the view from which requests are
   authorised, although a reload may have read the credentials before the
   withdrawal (reloadAdmin under productMu, RotateToken, RemoveProduct, Open after
   a crash); one of the store's is in no credential of a store that loads its
   configuration, whatever commands follow or are cut short (writeTokenFile,
   upsertProductToken, shareProductToken, removeProductToken). *)
THEOREM WithdrawnStaysWithdrawn == Spec => []WithdrawnOpensNothing
  <1>1. IInv => WithdrawnOpensNothing
    BY WithheldOpensNothing DEF IInv, ProductInv, Product!WithdrawnOpensNothing, WithdrawnOpensNothing
  <1> QED
    BY <1>1, Invariance, PTL

(* A claimed release code is above every code handed out before and every code
   that stayed listed while the claim ran, and a product with a project document
   loses its registration only when no backend has an index or a directory of it
   (AllocateReleaseCode, HighestPublishedCode, adminRetireProduct, Retire). *)
THEOREM RegistrationIsKept == Spec => RegistrationHolds
  <1> DEFINE Fresh == \A c \in given' \ given : \A r \in Requests :
                         Product!At(r, "claim", "floor") /\ req'[r] = Product!Idle /\ req[r].todo = {} =>
                             \A old \in given \cup {p[2] : p \in req[r].seen} : c > old
             Unresolvable == doc.registered /\ ~doc'.registered /\ tree =>
                                directory = {} /\ \A b \in Backends, ch \in Channels : index[b][ch] = {}
  <1>1. IInv /\ [Next]_vars => [Fresh]_Product!vars /\ [Unresolvable]_Product!vars
    <2> SUFFICES ASSUME IInv, [Next]_vars PROVE [Fresh]_Product!vars /\ [Unresolvable]_Product!vars
      OBVIOUS
    <2>1. CASE Product!Next
      BY <2>1, CodesFresh, RetiredIsGone DEF IInv
    <2>2. CASE UNCHANGED productVars
      BY <2>2 DEF productVars, Product!vars
    <2>3. Product!Next \/ UNCHANGED productVars
      BY DEF Next, RunProduct, ManageAccounts, ReleaseTools, UpgradeBox, KeepKeys, InitStore, MigrateServe, vars
    <2> QED
      BY <2>1, <2>2, <2>3
  <1>2. Spec => [][Fresh]_Product!vars /\ [][Unresolvable]_Product!vars
    BY <1>1, Invariance, PTL DEF Spec
  <1> QED
    BY <1>2 DEF RegistrationHolds, Product!CodesStayFresh, Product!RetiredIsUnresolvable

(* Once there is an account there is an admin, in memory and in the file, and a
   session opens the account it was issued for or none, however the requests of
   admins interleave and whatever writes fail (SetRole, DeleteUser,
   persistLocked, dropSessionsLocked). *)
THEOREM AccountsAreKept == Spec => []AccountsHold
  <1>1. IInv => AccountsHold
    BY DEF IInv, AccountsInv, SessionsFit, AccountsHold, Operators!DeletedStaysOut, Operators!Opens
  <1> QED
    BY <1>1, Invariance, PTL

(* The agent can be started with every key pair that a command reported,
   whatever other commands run, fail or are killed, and a host that pinned the
   registered root verifies what it signs (writeNewKey, ReissueKeyPair,
   PrivateSeed, Root). *)
THEOREM KeysAreKept == Spec => []KeysHold
  <1>1. IInv => KeysHold
    BY KeysServe DEF IInv, KeysHold
  <1> QED
    BY <1>1, Invariance, PTL

(* A build machine ends with a tool whose signature verifies, or another version
   became the current one between its two requests, or it read a file that was
   being overwritten, or an upload replaced a file of a version: for any number of
   pipelines, whatever they leave undone (putTool, handleToolPublish, writeCatalog,
   currentToolVersion). *)
THEOREM HostsGetTools == Spec => []HostGetsTool
  <1>1. IInv => HostGetsTool
    BY DEF IInv, ToolsInv, HostFits, HostGetsTool
  <1> QED
    BY <1>1, Invariance, PTL

(* An upgrade that is reported as done runs its binaries behind the store's port,
   unless no main process was known when the listener was looked at, and one
   that is reported as rolled back has left every restorable part as it was,
   unless a backup was cut short: for any number of applies, steps that raise,
   kills and prunings (remote apply, require_listener_belongs_to, backup_files,
   rollback). *)
THEOREM OutcomesAreTrue == Spec => []OutcomeIsTrue
  <1>1. IInv => OutcomeIsTrue
    BY BoxServes DEF IInv, OutcomeIsTrue
  <1> QED
    BY <1>1, Invariance, PTL

(* No upgrade loses the tokens of the publishers, no command on a product of the
   store locks another out but in the two known ways, and a box that is migrated
   to the store is served before, during and after: for any number of failures,
   kills and reboots (admin_merge, backup_files, rollback, prune_backups;
   upsertProductToken, shareProductToken, removeProductToken;
   migrate_serve_to_store). *)
THEOREM TokensAreKept == Spec => []TokensSurvive
  <1>1. IInv => TokensSurvive
    BY BoxKeepsTokens, StoreOpens, MigrationServes DEF IInv, TokensSurvive
  <1> QED
    BY <1>1, Invariance, PTL

=============================================================================

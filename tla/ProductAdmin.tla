------------------------------ MODULE ProductAdmin ------------------------------
(***************************************************************************)
(* The life of one product at the publish agent: registration, publisher    *)
(* tokens, release codes and retirement (cmd/relkit-agent admin.go,         *)
(* releasecode.go, internal/agentadmin/admin.go, internal/publish/retire.go). *)
(*                                                                          *)
(* Three copies of the facts drift apart and are brought together: the      *)
(* document in memory, its file, and the view from which requests are       *)
(* authorised.  The published documents at the backends are a fourth: they  *)
(* are written and deleted by other requests.                               *)
(*                                                                          *)
(* Abstractions.  One product.  Operators are signed in.  A token is its    *)
(* secret.  An index is the set of the codes it lists; publish and          *)
(* unpublish are what ReleasePublish models, cut down to their commit.  Of  *)
(* the other documents that a retirement deletes the directory stands for   *)
(* all: release, latest, channel and site documents are left out.           *)
(***************************************************************************)
EXTENDS Naturals, FiniteSets, FiniteSetsExt

CONSTANTS
    Requests,    \* handlers that may run at the same time
    Tokens,
    Backends,
    Channels,
    MaxCode,     \* bound of the release codes
    MaxTroubles, \* bound of the failed writes and deletes and the restarts
    None

Codes == 1..MaxCode

VARIABLES
    doc,        \* the admin document in memory
    disk,       \* the file of the admin document
    view,       \* cfg.Products and cfg.credentials
    productMu,  \* the reload that holds the lock of the view
    lock,       \* the request that holds the lock of the product
    index,      \* codes that the index of a channel lists at a backend
    directory,  \* the backends that have the directory of the product
    tree,       \* the root of the product has a project document
    req,        \* what each handler is doing
    unsigned,   \* a restarted agent has yet to see to the Runtime Profile
    given,      \* history: codes handed out under the current registration
    withdrawn,  \* history: tokens whose withdrawal was answered with Ok
    troubles

agent == <<doc, disk, view, productMu, lock, unsigned>>
store == <<index, directory, tree>>
rest  == <<given, withdrawn, troubles>>
vars  == <<doc, disk, view, productMu, lock, unsigned, index, directory, tree, req,
           given, withdrawn, troubles>>

Forgotten == [registered |-> FALSE, last |-> 0, tokens |-> {}]
Projection(d) == [registered |-> d.registered, credentials |-> d.tokens]

Idle == [op |-> "idle", step |-> "none", floor |-> 0, seen |-> {},
         todo |-> {}, key |-> None, failed |-> FALSE, credentials |-> {}, dead |-> {}]

Init ==
    /\ doc = Forgotten /\ disk = Forgotten /\ view = Projection(Forgotten)
    /\ productMu = None /\ lock = None /\ unsigned = FALSE
    /\ index = [b \in Backends |-> [ch \in Channels |-> {}]]
    /\ directory = {}
    /\ tree \in BOOLEAN
    /\ req = [r \in Requests |-> Idle]
    /\ given = {} /\ withdrawn = {} /\ troubles = 0

-----------------------------------------------------------------------------
(* Parts. *)

Free(r) == req[r] = Idle
At(r, op, step) == req[r].op = op /\ req[r].step = step

(* seen: the codes that have stayed listed on their channel since the request
   came in. *)
Listed(idx) == {p \in Channels \X Codes : \E b \in Backends : p[2] \in idx[b][p[1]]}
Still(rs, idx) == [r \in Requests |-> [rs[r] EXCEPT !.seen = @ \cap Listed(idx)]]

Answer(r)  == req' = [req EXCEPT ![r] = Idle]
Go(r, new) == req' = [req EXCEPT ![r] = new]

Fault(happens) == troubles' = IF happens THEN troubles + 1 ELSE troubles

(* persistLocked: the document is written aside and renamed before the
   operation returns, or the operation is taken back. *)
Persist(new) == doc' = new /\ disk' = new

PersistFails(r) ==
    /\ troubles < MaxTroubles
    /\ troubles' = troubles + 1
    /\ Answer(r)
    /\ UNCHANGED <<agent, store, given, withdrawn>>

(* readExistingIndexes refuses backends that differ. *)
Agree(ch)    == \A b, c \in Backends : index[b][ch] = index[c][ch]
ListedCodes(ch) == index[CHOOSE b \in Backends : TRUE][ch]
Highest(ch)  == Max(ListedCodes(ch) \cup {0})

(* requireAuthFor and product, of the view. *)
Authorised == view.credentials # {} /\ view.registered

-----------------------------------------------------------------------------
(* Tokens and registration. *)

Fresh(t) == /\ t \notin doc.tokens \cup view.credentials \cup withdrawn
            /\ \A r \in Requests : t \notin req[r].dead

Reload(op, dead) == [Idle EXCEPT !.op = op, !.step = "reload", !.dead = dead]

IssueToken(r, t) ==
    /\ Free(r) /\ doc.registered /\ Fresh(t)
    /\ \/ /\ Persist([doc EXCEPT !.tokens = @ \cup {t}])
          /\ Go(r, Reload("token", {}))
          /\ UNCHANGED <<view, productMu, lock, unsigned, store, rest>>
       \/ PersistFails(r)

RotateToken(r, t, new) ==
    /\ Free(r) /\ t \in doc.tokens /\ Fresh(new)
    /\ \/ /\ Persist([doc EXCEPT !.tokens = (@ \ {t}) \cup {new}])
          /\ Go(r, Reload("token", {t}))
          /\ UNCHANGED <<view, productMu, lock, unsigned, store, rest>>
       \/ PersistFails(r)

RevokeToken(r, t) ==
    /\ Free(r) /\ t \in doc.tokens
    /\ \/ /\ Persist([doc EXCEPT !.tokens = @ \ {t}])
          /\ Go(r, Reload("token", {t}))
          /\ UNCHANGED <<view, productMu, lock, unsigned, store, rest>>
       \/ PersistFails(r)

AddProduct(r) ==
    /\ Free(r) /\ ~doc.registered
    /\ \/ /\ Persist([doc EXCEPT !.registered = TRUE])
          /\ Go(r, [Idle EXCEPT !.op = "register", !.step = "token"])
          /\ UNCHANGED <<view, productMu, lock, unsigned, store, rest>>
       \/ PersistFails(r)

(* A product that is registered gets its first token in the same request; a
   failure leaves it registered. *)
FirstToken(r, t) ==
    /\ At(r, "register", "token") /\ Fresh(t)
    /\ \/ /\ doc.registered
          /\ Persist([doc EXCEPT !.tokens = @ \cup {t}])
          /\ Go(r, Reload("register", {}))
          /\ UNCHANGED <<view, productMu, lock, unsigned, store, rest>>
       \/ ~doc.registered /\ Answer(r) /\ UNCHANGED <<agent, store, rest>>
       \/ PersistFails(r)

(* Mutant: two reloads at a time. *)
ReloadProducts_Unlocked(r) ==
    /\ req[r].step = "reload"
    /\ productMu' = r
    /\ view' = [view EXCEPT !.registered = doc.registered]
    /\ Go(r, [req[r] EXCEPT !.step = "credentials"])
    /\ UNCHANGED <<doc, disk, lock, unsigned, store, rest>>

(* reloadAdmin: products first, then credentials, under productMu. *)
ReloadProducts(r) ==
    /\ req[r].step = "reload" /\ productMu = None
    /\ productMu' = r
    /\ view' = [view EXCEPT !.registered = doc.registered]
    /\ Go(r, [req[r] EXCEPT !.step = "credentials"])
    /\ UNCHANGED <<doc, disk, lock, unsigned, store, rest>>

ReloadCredentials(r) ==
    /\ req[r].step = "credentials"
    /\ Go(r, [req[r] EXCEPT !.step = "assign", !.credentials = doc.tokens])
    /\ UNCHANGED <<agent, store, rest>>

ReloadDone(r) ==
    /\ req[r].step = "assign"
    /\ view' = [view EXCEPT !.credentials = req[r].credentials]
    /\ productMu' = None
    /\ withdrawn' = withdrawn \cup req[r].dead
    /\ lock' = IF lock = r THEN None ELSE lock
    /\ IF req[r].op = "register" THEN Go(r, [Idle EXCEPT !.op = "register", !.step = "sign"]) ELSE Answer(r)
    /\ UNCHANGED <<doc, disk, unsigned, store, given, troubles>>

(* directory.Set writes the backends in turn and stops at a failure. *)
DirectoryWritten(S) == directory' = directory \cup S

(* signRuntimeProfile(onlyIfMissing) of a registered product. *)
SignProfile ==
    /\ lock = None
    /\ \/ /\ view.registered /\ directory = {}
          /\ \E S \in SUBSET Backends :
                /\ S # Backends => troubles < MaxTroubles
                /\ DirectoryWritten(S)
                /\ Fault(S # Backends)
       \/ (~view.registered \/ directory # {}) /\ UNCHANGED <<directory, troubles>>

SignFirst(r) ==
    /\ At(r, "register", "sign")
    /\ SignProfile
    /\ Answer(r)
    /\ UNCHANGED <<agent, index, tree, given, withdrawn>>

(* ensureRuntimeProfiles, at startup. *)
EnsureProfile ==
    /\ unsigned /\ unsigned' = FALSE
    /\ SignProfile
    /\ UNCHANGED <<doc, disk, view, productMu, lock, index, tree, req, given, withdrawn>>

-----------------------------------------------------------------------------
(* Release codes. *)

BeginClaim(r) ==
    /\ Free(r) /\ Authorised /\ doc.registered
    /\ Go(r, [Idle EXCEPT !.op = "claim", !.step = "floor", !.todo = Channels, !.seen = Listed(index)])
    /\ UNCHANGED <<agent, store, rest>>

(* HighestPublishedCode, one channel after the other, without a lock. *)
ReadFloor(r, ch) ==
    /\ At(r, "claim", "floor") /\ ch \in req[r].todo
    /\ IF Agree(ch)
       THEN Go(r, [req[r] EXCEPT !.todo = @ \ {ch}, !.floor = Max({@, Highest(ch)})])
       ELSE Answer(r)
    /\ UNCHANGED <<agent, store, rest>>

(* Mutant: only what is published counts. *)
NextCode_FloorOnly(r) == req[r].floor + 1

NextCode(r) == Max({doc.last, req[r].floor}) + 1

(* AllocateReleaseCode, under the lock of the document. *)
AllocateReleaseCode(r) ==
    /\ At(r, "claim", "floor") /\ req[r].todo = {}
    /\ \/ /\ doc.registered /\ NextCode(r) \in Codes
          /\ Persist([doc EXCEPT !.last = NextCode(r)])
          /\ given' = given \cup {NextCode(r)}
          /\ Answer(r)
          /\ UNCHANGED <<view, productMu, lock, unsigned, store, withdrawn, troubles>>
       \/ ~doc.registered /\ Answer(r) /\ UNCHANGED <<agent, store, rest>>
       \/ PersistFails(r)

-----------------------------------------------------------------------------
(* What publishes and unpublishes beside it.  Both look the product up first
   and try its lock later. *)

BeginWrite(r) ==
    /\ Free(r) /\ Authorised
    /\ Go(r, [Idle EXCEPT !.op = "write", !.step = "lock"])
    /\ UNCHANGED <<agent, store, rest>>

Writes(r, ch) == At(r, "write", "lock") /\ lock = None /\ Agree(ch)

Listing(S, ch, codes) ==
    index' = [b \in Backends |-> IF b \in S THEN [index[b] EXCEPT ![ch] = codes] ELSE index[b]]

(* checkCodeMonotonic looks at one channel.  The project document comes with
   the staged tree. *)
Publish(r, c, ch) ==
    /\ Writes(r, ch) /\ c > Highest(ch)
    /\ \E S \in SUBSET Backends :
          /\ S # Backends => troubles < MaxTroubles
          /\ Fault(S # Backends)
          /\ Listing(S, ch, ListedCodes(ch) \cup {c})
          /\ DirectoryWritten(IF S = Backends THEN Backends ELSE {})
    /\ req' = Still([req EXCEPT ![r] = Idle], index')
    /\ UNCHANGED <<agent, tree, given, withdrawn>>

(* The last version of a channel is not unpublished; the project document is
   that of the root. *)
Unpublish(r, c, ch) ==
    /\ Writes(r, ch) /\ tree /\ c \in ListedCodes(ch) /\ ListedCodes(ch) # {c}
    /\ \E S \in SUBSET Backends :
          /\ S # Backends => troubles < MaxTroubles
          /\ Fault(S # Backends)
          /\ Listing(S, ch, ListedCodes(ch) \ {c})
    /\ req' = Still([req EXCEPT ![r] = Idle], index')
    /\ UNCHANGED <<agent, directory, tree, given, withdrawn>>

Refused(r) ==
    /\ At(r, "write", "lock")
    /\ Answer(r)
    /\ UNCHANGED <<agent, store, rest>>

-----------------------------------------------------------------------------
(* Retirement. *)

(* adminRetireProduct: without a project document the registration is removed
   at once. *)
BeginRetire(r) ==
    /\ Free(r) /\ view.registered /\ lock = None
    /\ lock' = r
    /\ Go(r, [Idle EXCEPT !.op = "retire", !.step = IF tree THEN "channels" ELSE "remove", !.todo = Channels])
    /\ UNCHANGED <<doc, disk, view, productMu, unsigned, store, rest>>

(* Leave: the lock goes with the answer. *)
Leave(r) ==
    /\ Answer(r)
    /\ lock' = None
    /\ UNCHANGED <<doc, disk, view, productMu, unsigned, store, rest>>

RetireChannel(r, ch) ==
    /\ At(r, "retire", "channels") /\ req[r].key = None /\ ch \in req[r].todo
    /\ Agree(ch)
    /\ Go(r, [req[r] EXCEPT !.todo = @ \ {ch}, !.key = IF ListedCodes(ch) = {} THEN None ELSE ch])
    /\ UNCHANGED <<agent, store, rest>>

RetireDisagrees(r) ==
    /\ At(r, "retire", "channels") /\ req[r].key = None
    /\ \E ch \in req[r].todo : ~Agree(ch)
    /\ Leave(r)

RetireDirectory(r) ==
    /\ At(r, "retire", "channels") /\ req[r].key = None /\ req[r].todo = {}
    /\ Go(r, [req[r] EXCEPT !.step = "remove", !.key = "directory"])
    /\ UNCHANGED <<agent, store, rest>>

(* deleteOnAll goes on after a failure. *)
deleteOnAll(r) ==
    LET key == req[r].key IN
    /\ key # None
    /\ \E S \in SUBSET Backends :
          /\ S # {} => troubles < MaxTroubles
          /\ Fault(S # {})
          /\ directory' = IF key = "directory" THEN directory \cap S ELSE directory
          /\ index' = [b \in Backends |-> [ch \in Channels |->
                 IF key = ch /\ b \notin S THEN {} ELSE index[b][ch]]]
          /\ req' = Still([req EXCEPT ![r].key = None, ![r].failed = @ \/ S # {}], index')
    /\ UNCHANGED <<agent, tree, given, withdrawn>>

Retired(r) == At(r, "retire", "remove") /\ req[r].key = None

(* Mutant: what could not be deleted is only reported. *)
Stops_Never(r) == FALSE

Stops(r) == req[r].failed

(* Failures stop a retirement before the registration. *)
RetireFails(r) == Retired(r) /\ Stops(r) /\ Leave(r)

RemoveProduct(r) ==
    /\ Retired(r) /\ ~Stops(r)
    /\ \/ /\ doc.registered
          /\ Persist(Forgotten)
          /\ given' = {}
          /\ Go(r, Reload("retire", doc.tokens))
          /\ UNCHANGED <<view, productMu, lock, unsigned, store, withdrawn, troubles>>
       \/ ~doc.registered /\ Leave(r)
       \/ /\ troubles < MaxTroubles /\ troubles' = troubles + 1
          /\ Answer(r) /\ lock' = None
          /\ UNCHANGED <<doc, disk, view, productMu, unsigned, store, given, withdrawn>>

-----------------------------------------------------------------------------
(* The agent restarts: Open reads the file, LoadConfig projects it. *)
Crash ==
    /\ troubles < MaxTroubles
    /\ troubles' = troubles + 1
    /\ doc' = disk /\ view' = Projection(disk)
    /\ productMu' = None /\ lock' = None /\ unsigned' = TRUE
    /\ req' = [r \in Requests |-> Idle]
    /\ UNCHANGED <<disk, store, given, withdrawn>>

Register(r) == AddProduct(r) \/ SignFirst(r) \/ \E t \in Tokens : FirstToken(r, t)

Token(r) == Free(r) /\ \E t \in Tokens : IssueToken(r, t) \/ RevokeToken(r, t) \/ \E new \in Tokens : RotateToken(r, t, new)

reloadAdmin(r) == ReloadProducts(r) \/ ReloadCredentials(r) \/ ReloadDone(r)

Claim(r) == BeginClaim(r) \/ AllocateReleaseCode(r) \/ \E ch \in Channels : ReadFloor(r, ch)

Write(r) ==
    \/ BeginWrite(r) \/ Refused(r)
    \/ At(r, "write", "lock") /\ \E c \in Codes, ch \in Channels : Publish(r, c, ch) \/ Unpublish(r, c, ch)

Retire(r) ==
    \/ BeginRetire(r) \/ RetireDisagrees(r) \/ RetireDirectory(r) \/ deleteOnAll(r)
    \/ RetireFails(r) \/ RemoveProduct(r)
    \/ \E ch \in Channels : RetireChannel(r, ch)

Next ==
    \/ \E r \in Requests : Register(r) \/ Token(r) \/ reloadAdmin(r) \/ Claim(r) \/ Write(r) \/ Retire(r)
    \/ EnsureProfile \/ Crash

Spec == Init /\ [][Next]_vars

-----------------------------------------------------------------------------
(* Properties. *)

TypeOK ==
    /\ doc \in [registered : BOOLEAN, last : 0..MaxCode, tokens : SUBSET Tokens] /\ disk = doc
    /\ view \in [registered : BOOLEAN, credentials : SUBSET Tokens]
    /\ productMu \in Requests \cup {None} /\ lock \in Requests \cup {None} /\ unsigned \in BOOLEAN
    /\ index \in [Backends -> [Channels -> SUBSET Codes]] /\ directory \in SUBSET Backends
    /\ tree \in BOOLEAN /\ given \in SUBSET Codes /\ withdrawn \in SUBSET Tokens
    /\ \A r \in Requests : (productMu = r) <=> (req[r].step \in {"credentials", "assign"})
    /\ \A r \in Requests : (lock = r) <=> (req[r].op = "retire")

(* A claimed release code is above every code handed out before under this
   registration, by any request and before any restart, and above every code
   that a channel listed all the while (AllocateReleaseCode,
   HighestPublishedCode, persistLocked). *)
CodesStayFresh ==
    [][\A c \in given' \ given : \A r \in Requests :
          At(r, "claim", "floor") /\ req'[r] = Idle /\ req[r].todo = {} =>
              \A old \in given \cup {p[2] : p \in req[r].seen} : c > old]_vars

(* A token whose rotation, revocation or product's retirement was answered
   opens nothing again, whatever reloads, restarts and failed writes follow
   (reloadAdmin, RotateToken, RemoveProduct). *)
WithdrawnOpensNothing == withdrawn \cap (view.credentials \cup doc.tokens) = {}

(* A product with its project document loses its registration only when no
   backend has an index or a directory of it any more, whatever deletes failed
   and whatever was published meanwhile (adminRetireProduct, Retire). *)
RetiredIsUnresolvable ==
    [][doc.registered /\ ~doc'.registered /\ tree =>
          directory = {} /\ \A b \in Backends, ch \in Channels : index[b][ch] = {}]_vars

=============================================================================

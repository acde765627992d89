---------------------------- MODULE OperatorAccounts ----------------------------
(***************************************************************************)
(* The accounts that manage an agent (internal/agentadmin/admin.go, the     *)
(* handlers of cmd/relkit-agent/admin.go): a one-shot credential creates    *)
(* the first admin, admins manage the accounts, and a session opens the     *)
(* account it names.                                                        *)
(*                                                                          *)
(* Every operation of the store is under its lock, but a request makes      *)
(* several of them: it is admitted before its change is made, and a login   *)
(* compares the password between reading the account and issuing a session. *)
(* `relkit-agent init -bootstrap` is another process with a store of its    *)
(* own, which writes the same file.                                         *)
(*                                                                          *)
(* Abstractions.  A password is its hash.  Sessions of one account are not  *)
(* told apart.  The registrations are those of ProductAdmin: here they come *)
(* and go.                                                                  *)
(***************************************************************************)
EXTENDS Naturals, FiniteSets

CONSTANTS
    Requests,     \* handlers that may run at the same time
    Names, Passwords, Products,
    MaxAccounts,  \* bound of the accounts ever created
    MaxMints,     \* bound of the credentials ever minted
    MaxFaults,    \* bound of the failed writes and restarts
    None

VARIABLES
    doc,         \* the document in memory
    disk,        \* its file
    sessions,    \* who may open which account
    registered,  \* the products that may be assigned
    command,     \* the document in the other process
    request,     \* what each handler is doing
    accounts, mints, faults,
    foreign,     \* history: the other process wrote the file since the agent read it
    overwrote    \* history: it wrote over an account that it had not seen

accountVars == <<doc, disk, sessions, registered, command, request, accounts, mints,
                 faults, foreign, overwrote>>

counters == <<accounts, mints, faults>>
history  == <<foreign, overwrote>>

Account == [role : {"admin", "owner"}, products : SUBSET Products,
            password : Passwords, born : 1..MaxAccounts]

Document == [users : [Names -> Account \cup {None}], bootstrap : 0..MaxMints]

Empty == [users |-> [n \in Names |-> None], bootstrap |-> 0]

Idle == [at |-> "idle"]

(* Started on an empty document, or after `init -bootstrap`. *)
AccountsInit ==
    /\ mints \in 0..1
    /\ disk = [Empty EXCEPT !.bootstrap = mints] /\ doc = disk
    /\ sessions = {} /\ registered = {} /\ command = None
    /\ request = [r \in Requests |-> Idle]
    /\ accounts = 0 /\ faults = 0
    /\ foreign = FALSE /\ overwrote = FALSE

Present(d) == {n \in Names : d.users[n] # None}
Admins(d)  == {n \in Present(d) : d.users[n].role = "admin"}

-----------------------------------------------------------------------------
(* What the store does under its lock. *)

(* persistLocked: the file is replaced by the document in memory. *)
Persist(d) ==
    /\ doc' = d /\ disk' = d
    /\ foreign' = FALSE
    /\ UNCHANGED <<faults, overwrote>>

(* Mutant: what could not be written stays in memory. *)
PutBack_Kept(d) == d

(* The write fails: the caller puts back what it had changed. *)
PutBack(d) == doc

PersistFails(d) ==
    /\ faults < MaxFaults
    /\ faults' = faults + 1
    /\ doc' = PutBack(d)
    /\ UNCHANGED <<disk, history>>

Store(d) == Persist(d) \/ PersistFails(d)

Refuse == UNCHANGED <<doc, disk, faults, history>>

(* A change of the account of n, of one that is there. *)
Put(n, account) == [doc EXCEPT !.users[n] = account]

(* SetRole and DeleteUser keep the last admin. *)
LastAdmin(n) == Admins(doc) = {n}

(* Mutant: the sessions of a deleted account stay. *)
DropSessions_Kept(n) == sessions

(* dropSessionsLocked. *)
DropSessions(n) == {s \in sessions : s.name # n}

-----------------------------------------------------------------------------
(* The first account. *)

(* `init -bootstrap` reads the file.  It refuses if somebody has an account;
   otherwise it mints a credential, over a live one only if told to reset it. *)
OpenCommand ==
    /\ command = None /\ mints < MaxMints /\ Present(disk) = {}
    /\ command' = disk
    /\ UNCHANGED <<doc, disk, sessions, registered, request, counters, history>>

MintBootstrap(reset) ==
    /\ command # None
    /\ command' = None
    /\ IF command.bootstrap # 0 /\ ~reset
       THEN UNCHANGED <<disk, mints, history>>
       ELSE /\ mints' = mints + 1
            /\ disk' = [command EXCEPT !.bootstrap = mints']
            /\ foreign' = TRUE
            /\ overwrote' = (overwrote \/ Present(disk) # {})
    /\ UNCHANGED <<doc, sessions, registered, request, accounts, faults>>

(* CreateFirstUser spends the credential. *)
CreateFirstUser(r, n, password) ==
    /\ request[r] = Idle
    /\ Present(doc) = {} /\ doc.bootstrap # 0
    /\ accounts < MaxAccounts /\ accounts' = accounts + 1
    /\ LET d == [Put(n, [role |-> "admin", products |-> {}, password |-> password,
                         born |-> accounts'])
                 EXCEPT !.bootstrap = 0]
       IN \/ /\ Persist(d)
             /\ request' = [request EXCEPT ![r] = [at |-> "issue", name |-> n]]
          \/ /\ PersistFails(d)
             /\ UNCHANGED request
    /\ UNCHANGED <<sessions, registered, command, mints>>

-----------------------------------------------------------------------------
(* Sessions. *)

(* Authenticate finds the account and compares the password without the lock. *)
Authenticate(r, n, password) ==
    /\ request[r] = Idle
    /\ doc.users[n] # None /\ doc.users[n].password = password
    /\ request' = [request EXCEPT ![r] = [at |-> "issue", name |-> n]]
    /\ UNCHANGED <<doc, disk, sessions, registered, command, counters, history>>

(* NewSession names the account, whether or not it is still there; `of` is a
   history: the account that it was at the time. *)
NewSession(r) ==
    /\ request[r].at = "issue"
    /\ LET n == request[r].name IN
       sessions' = sessions \cup
           {[name |-> n, of |-> IF doc.users[n] = None THEN 0 ELSE doc.users[n].born]}
    /\ request' = [request EXCEPT ![r] = Idle]
    /\ UNCHANGED <<doc, disk, registered, command, counters, history>>

(* Logout, and a session that SessionUser finds expired or without account. *)
DropSession ==
    /\ \E s \in sessions : sessions' = sessions \ {s}
    /\ UNCHANGED <<doc, disk, registered, command, request, counters, history>>

(* SessionUser. *)
Opens(s) == s \in sessions /\ doc.users[s.name] # None

(* The bodies that the handlers accept. *)
ChangeBodies ==
    LET body(op, n, role, products, password) ==
            [at |-> op, name |-> n, role |-> role, products |-> products,
             password |-> password]
        assigned == (SUBSET Products) \ {{}}
    IN  UNION {
        {body("delete", n, None, {}, None) : n \in Names},
        {body("password", n, None, {}, w) : n \in Names, w \in Passwords},
        {body("products", n, None, ps, None) : n \in Names, ps \in assigned},
        {body("role", n, "admin", {}, None) : n \in Names},
        {body("role", n, "owner", ps, None) : n \in Names, ps \in assigned},
        {body("add", n, "admin", {}, w) : n \in Names, w \in Passwords},
        {body("add", n, "owner", ps, w) : n \in Names, ps \in assigned, w \in Passwords}}

(* requireAdmin admits a change, and checkProducts looks at the registrations:
   each takes the lock and gives it back. *)
Admit(r) ==
    /\ request[r] = Idle
    /\ \E s \in sessions : Opens(s) /\ doc.users[s.name].role = "admin"
    /\ \E change \in ChangeBodies :
           /\ change.products \subseteq registered
           /\ request' = [request EXCEPT ![r] = change]
    /\ UNCHANGED <<doc, disk, sessions, registered, command, counters, history>>

-----------------------------------------------------------------------------
(* The changes. *)

Changes(op) == {r \in Requests : request[r].at = op}

(* A product owner needs a product, an admin covers all of them. *)
Assigned(c) == IF c.role = "admin" THEN {} ELSE c.products

AddUser(r) ==
    LET c == request[r] IN
    /\ r \in Changes("add")
    /\ IF doc.users[c.name] # None THEN Refuse /\ UNCHANGED accounts
       ELSE /\ accounts < MaxAccounts /\ accounts' = accounts + 1
            /\ Store(Put(c.name, [role |-> c.role, products |-> Assigned(c),
                                  password |-> c.password, born |-> accounts']))
    /\ UNCHANGED sessions

(* The sessions of the account stay valid. *)
SetPassword(r) ==
    LET c == request[r] IN
    /\ r \in Changes("password")
    /\ IF doc.users[c.name] = None THEN Refuse
       ELSE Store([doc EXCEPT !.users[c.name].password = c.password])
    /\ UNCHANGED <<accounts, sessions>>

SetUserProducts(r) ==
    LET c == request[r] IN
    /\ r \in Changes("products")
    /\ IF c.name \notin Present(doc) \ Admins(doc) THEN Refuse
       ELSE Store([doc EXCEPT !.users[c.name].products = c.products])
    /\ UNCHANGED <<accounts, sessions>>

SetRole(r) ==
    LET c == request[r] IN
    /\ r \in Changes("role")
    /\ IF doc.users[c.name] = None \/ (c.role = "owner" /\ LastAdmin(c.name)) THEN Refuse
       ELSE Store([doc EXCEPT !.users[c.name].role = c.role,
                              !.users[c.name].products = Assigned(c)])
    /\ UNCHANGED <<accounts, sessions>>

DeleteUser(r) ==
    LET n == request[r].name
        d == Put(n, None)
    IN
    /\ r \in Changes("delete")
    /\ IF doc.users[n] = None \/ LastAdmin(n) THEN Refuse /\ UNCHANGED sessions
       ELSE \/ Persist(d) /\ sessions' = DropSessions(n)
            \/ PersistFails(d) /\ UNCHANGED sessions
    /\ UNCHANGED accounts

Change(r) ==
    /\ AddUser(r) \/ SetPassword(r) \/ SetUserProducts(r) \/ SetRole(r) \/ DeleteUser(r)
    /\ request' = [request EXCEPT ![r] = Idle]
    /\ UNCHANGED <<registered, command, mints>>

(* A product is registered or retired; assignments are left as they are. *)
Registrations ==
    /\ \E p \in Products : registered' \in {registered \cup {p}, registered \ {p}}
    /\ UNCHANGED <<doc, disk, sessions, command, request, counters, history>>

(* The agent starts again from the file; nobody is signed in (Open). *)
Restart ==
    /\ faults < MaxFaults
    /\ faults' = faults + 1
    /\ doc' = disk
    /\ sessions' = {}
    /\ request' = [r \in Requests |-> Idle]
    /\ foreign' = FALSE
    /\ UNCHANGED <<disk, registered, command, accounts, mints, overwrote>>

AccountsNext ==
    \/ OpenCommand \/ DropSession \/ Registrations \/ Restart
    \/ \E reset \in BOOLEAN : MintBootstrap(reset)
    \/ \E r \in Requests, n \in Names, w \in Passwords :
          CreateFirstUser(r, n, w) \/ Authenticate(r, n, w)
    \/ \E r \in Requests :
          NewSession(r) \/ Change(r) \/ Admit(r)

-----------------------------------------------------------------------------
(* Once there is an account there is an admin, in memory and in the file,
   however the requests of admins that demote and delete each other interleave,
   and whatever write failed: the two documents are the same whenever a request
   is not in the store.  What breaks it is `init -bootstrap` when it reads the
   file before the first account is there and writes it afterwards. *)
AdminRemains ==
    overwrote \/ /\ \A d \in {doc, disk} : Present(d) # {} => Admins(d) # {}
                 /\ foreign \/ doc = disk

(* A deleted account stays deleted: a session issued for an account opens no
   later account of that name. *)
DeletedStaysOut ==
    \A s \in sessions : Opens(s) /\ s.of # 0 => doc.users[s.name].born = s.of
=============================================================================

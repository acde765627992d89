--------------------------------- MODULE Panel ---------------------------------
(***************************************************************************)
(* The panel of cmd/relkit-console and the browser in front of it.  The      *)
(* panel keeps one signing key; the browser keeps one cookie, which carries  *)
(* the bearer of an agent's session under that key, and some pages, which    *)
(* all send the one cookie but each keep the user and the CSRF token of the  *)
(* answer they were drawn from.  A page has one request at a time.           *)
(*                                                                           *)
(* The accounts and sessions of the agent are those of OperatorAccounts;     *)
(* here an account is there or not, and a bearer names it until it is        *)
(* dropped.  A write is the deletion of an account or any other.             *)
(***************************************************************************)
EXTENDS Naturals

CONSTANTS
    None,
    Names,           \* accounts of the agent
    Pages,           \* pages that one browser shows
    MaxBearers,      \* bound: sessions ever issued
    MaxPanelFaults   \* bound: restarts, lost keys and answers, expiries

VARIABLES
    panelKey,        \* generation of the signing key
    cookie,          \* the cookie of the browser, or None
    page,            \* page -> what it shows
    call,            \* page -> its request, or None
    accounts,        \* accounts that are there
    bootstrapLive,
    opened,          \* bearer -> the account it opens, or None
    bearers,         \* bearers issued so far
    panelFaults

panelVars == <<panelKey, cookie, page, call, accounts, bootstrapLive, opened, bearers,
               panelFaults>>

agentVars == <<accounts, bootstrapLive, opened, bearers>>

Shown(gate, user, csrf) == [gate |-> gate, user |-> user, csrf |-> csrf]

PanelInit ==
    /\ panelKey = 0 /\ cookie = None
    /\ page = [p \in Pages |-> Shown("none", None, None)]
    /\ call = [p \in Pages |-> None]
    /\ accounts = {} /\ bootstrapLive = TRUE
    /\ opened = [b \in 1 .. MaxBearers |-> None] /\ bearers = 0
    /\ panelFaults = 0

-----------------------------------------------------------------------------
(* What the panel makes of a cookie. *)

Signed(c) == c # None /\ c.key = panelKey

(* Mutant: the token says only that this panel made it. *)
csrfToken_Unbound(c) == [key |-> c.key, bearer |-> None]

(* The token is bound to the bearer in the cookie. *)
csrfToken(c) == [key |-> c.key, bearer |-> c.bearer]

-----------------------------------------------------------------------------
(* Requests of a page.  The cookie is the one the browser has when it sends. *)

Ask(p, request) ==
    /\ call[p] = None
    /\ call' = [call EXCEPT ![p] = request]
    /\ UNCHANGED <<panelKey, cookie, page, agentVars, panelFaults>>

AskSession(p) == Ask(p, [op |-> "session", at |-> "panel", cookie |-> cookie])

Login(p, n) ==
    /\ page[p].gate = "login"
    /\ Ask(p, [op |-> "login", at |-> "panel", name |-> n])

Setup(p, n) ==
    /\ page[p].gate = "setup"
    /\ Ask(p, [op |-> "setup", at |-> "panel", name |-> n])

(* A page that shows a user writes and signs out with its token. *)
Write(p, target) ==
    /\ page[p].gate = "ready"
    /\ Ask(p, [op |-> "write", at |-> "panel", cookie |-> cookie, csrf |-> page[p].csrf,
               target |-> target])

Logout(p) ==
    /\ page[p].gate = "ready"
    /\ Ask(p, [op |-> "logout", at |-> "panel", cookie |-> cookie, csrf |-> page[p].csrf])

-----------------------------------------------------------------------------
(* The handlers, which read the cookie, then call the agent, then answer. *)

At(p, op, at) == call[p] # None /\ call[p].op = op /\ call[p].at = at

(* An answer: the cookie that it sets, if any, and what the page shows. *)
Answer(p, set, shown) ==
    call' = [call EXCEPT ![p] = [op |-> call[p].op, at |-> "answered", set |-> set,
                                 shown |-> shown]]

gate == IF bootstrapLive THEN "setup" ELSE IF accounts # {} THEN "login" ELSE "locked"

serveAPISession(p) ==
    /\ At(p, "session", "panel")
    /\ LET c == call[p].cookie
           user == IF Signed(c) THEN opened[c.bearer] ELSE None
       IN IF user # None
          THEN Answer(p, {}, Shown("ready", user, csrfToken(c)))
          ELSE Answer(p, IF Signed(c) THEN {None} ELSE {}, Shown(gate, None, None))
    /\ UNCHANGED <<panelKey, cookie, page, agentVars, panelFaults>>

(* The agent issues a session, the panel seals it in a cookie. *)
SignIn(p, n) ==
    LET c == [key |-> panelKey, bearer |-> bearers + 1] IN
    /\ bearers < MaxBearers /\ bearers' = bearers + 1
    /\ opened' = [opened EXCEPT ![bearers'] = n]
    /\ Answer(p, {c}, Shown("ready", n, csrfToken(c)))

serveAPILogin(p) ==
    /\ At(p, "login", "panel")
    /\ IF call[p].name \in accounts THEN SignIn(p, call[p].name)
       ELSE Answer(p, {}, page[p]) /\ UNCHANGED <<opened, bearers>>
    /\ UNCHANGED <<panelKey, cookie, page, accounts, bootstrapLive, panelFaults>>

(* The gate is asked for first. *)
serveAPISetup(p) ==
    /\ At(p, "setup", "panel")
    /\ IF gate = "setup"
       THEN call' = [call EXCEPT ![p].at = "agent"]
       ELSE Answer(p, {}, page[p])
    /\ UNCHANGED <<panelKey, cookie, page, agentVars, panelFaults>>

Bootstrap(p) ==
    /\ At(p, "setup", "agent")
    /\ IF bootstrapLive
       THEN /\ bootstrapLive' = FALSE
            /\ accounts' = {call[p].name}
            /\ SignIn(p, call[p].name)
       ELSE Answer(p, {}, page[p]) /\ UNCHANGED agentVars
    /\ UNCHANGED <<panelKey, cookie, page, panelFaults>>

(* A write is admitted with a cookie and the token that belongs to it. *)
Allowed(c, csrf) == Signed(c) /\ csrf = csrfToken(c)

requireAPIAuth(p) ==
    /\ At(p, "write", "panel")
    /\ IF Allowed(call[p].cookie, call[p].csrf)
       THEN call' = [call EXCEPT ![p].at = "agent"]
       ELSE Answer(p, {}, Shown("none", None, None))
    /\ UNCHANGED <<panelKey, cookie, page, agentVars, panelFaults>>

(* The agent acts as the account that the bearer opens; it drops the sessions
   of an account it deletes, and keeps the last one.  A 401 sends the page back
   to the sign-in. *)
Forward(p) ==
    LET actor == opened[call[p].cookie.bearer]
        n == call[p].target
    IN
    /\ At(p, "write", "agent")
    /\ IF actor = None THEN Answer(p, {}, Shown("none", None, None))
       ELSE Answer(p, {}, page[p])
    /\ IF actor # None /\ n \in accounts /\ accounts # {n}
       THEN /\ accounts' = accounts \ {n}
            /\ opened' = [b \in 1 .. MaxBearers |-> IF opened[b] = n THEN None ELSE opened[b]]
       ELSE IF actor # None /\ n \in Names
       THEN accounts' = accounts \union {n} /\ UNCHANGED opened
       ELSE UNCHANGED <<accounts, opened>>
    /\ UNCHANGED <<panelKey, cookie, page, bootstrapLive, bearers, panelFaults>>

(* Signing out of what the panel does not know succeeds.  That the agent could
   not be reached is ignored. *)
serveAPILogout(p) ==
    LET c == call[p].cookie IN
    /\ At(p, "logout", "panel")
    /\ IF Signed(c) /\ call[p].csrf # csrfToken(c)
       THEN Answer(p, {}, Shown("none", None, None)) /\ UNCHANGED <<opened, panelFaults>>
       ELSE /\ Answer(p, {None}, Shown("none", None, None))
            /\ \/ /\ opened' = IF Signed(c) THEN [opened EXCEPT ![c.bearer] = None] ELSE opened
                  /\ UNCHANGED panelFaults
               \/ /\ panelFaults < MaxPanelFaults /\ panelFaults' = panelFaults + 1
                  /\ UNCHANGED opened
    /\ UNCHANGED <<panelKey, cookie, page, accounts, bootstrapLive, bearers>>

(* Answers reach the browser in any order; one may be lost. *)
Receive(p) ==
    /\ call[p] # None /\ call[p].at = "answered"
    /\ cookie' \in IF call[p].set = {} THEN {cookie} ELSE call[p].set
    /\ page' = [page EXCEPT ![p] = call[p].shown]
    /\ call' = [call EXCEPT ![p] = None]
    /\ UNCHANGED <<panelKey, agentVars, panelFaults>>

Trouble ==
    /\ panelFaults < MaxPanelFaults /\ panelFaults' = panelFaults + 1
    /\ UNCHANGED <<accounts, bootstrapLive, bearers>>

LoseAnswer(p) ==
    /\ Trouble
    /\ call[p] # None
    /\ call' = [call EXCEPT ![p] = None]
    /\ UNCHANGED <<panelKey, cookie, page, opened>>

(* A restart of the panel that finds no key mints one. *)
openPanelSession ==
    /\ Trouble
    /\ panelKey' = panelKey + 1
    /\ call' = [p \in Pages |-> None]
    /\ UNCHANGED <<cookie, page, opened>>

(* The browser drops an expired cookie. *)
ExpireCookie ==
    /\ Trouble /\ cookie # None
    /\ cookie' = None
    /\ UNCHANGED <<panelKey, page, call, opened>>

(* The agent keeps its sessions in memory. *)
RestartAgent ==
    /\ Trouble
    /\ opened' = [b \in 1 .. MaxBearers |-> None]
    /\ UNCHANGED <<panelKey, cookie, page, call>>

PanelNext ==
    \/ \E p \in Pages :
           \/ AskSession(p) \/ Logout(p)
           \/ \E n \in Names : Login(p, n) \/ Setup(p, n)
           \/ \E n \in Names \union {None} : Write(p, n)
           \/ serveAPISession(p) \/ serveAPILogin(p) \/ serveAPISetup(p) \/ Bootstrap(p)
           \/ requireAPIAuth(p) \/ Forward(p) \/ serveAPILogout(p)
           \/ Receive(p) \/ LoseAnswer(p)
    \/ openPanelSession \/ ExpireCookie \/ RestartAgent

-----------------------------------------------------------------------------
(* What a page writes is done by the user that this page shows, or by nobody,
   whoever signed in with another page meanwhile: the one cookie of the browser
   may belong to somebody else by then (csrfToken, requireAPIAuth). *)
ActsAsShown ==
    \A p \in Pages :
        At(p, "write", "agent") =>
            opened[call[p].cookie.bearer] \in {page[p].user, None}

=============================================================================

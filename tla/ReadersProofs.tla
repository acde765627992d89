----------------------------- MODULE ReadersProofs -----------------------------
(***************************************************************************)
(* Proofs about Readers, for every set of products, targets, accounts and   *)
(* pages, and every bound.  Each reader has an invariant of its own, which  *)
(* the steps of the others leave alone.                                     *)
(***************************************************************************)
EXTENDS Readers, Sequences, FiniteSetTheorems, WellFoundedInduction, TLAPS

-----------------------------------------------------------------------------
(* The pages of the panel. *)

Tokens == [key : Nat, bearer : 1 .. bearers]

(* The account of a bearer that was issued, and that of a page that shows a
   user, go together until the bearer is dropped. *)
ShowsItsUser(shows) ==
    shows.gate = "ready" =>
        shows.csrf \in Tokens /\ opened[shows.csrf.bearer] \in {shows.user, None}

Cookies == Tokens \cup {None}

Ops   == {"session", "login", "setup", "write", "logout"}
Gates == {"none", "setup", "login", "locked", "ready"}

Views == [gate : Gates, user : Names \cup {None},
          csrf : [key : Nat, bearer : Nat] \cup {None}]

(* Requests and answers under way; a write at the agent was admitted with the
   bearer of its page's token. *)
CallFits(p) ==
    \/ call[p] \in [op : {"session"}, at : {"panel"}, cookie : Cookies]
    \/ call[p] \in [op : {"login"}, at : {"panel"}, name : Names]
    \/ call[p] \in [op : {"setup"}, at : {"panel", "agent"}, name : Names]
    \/ /\ call[p] \in [op : {"write"}, at : {"panel", "agent"}, cookie : Cookies, csrf : Tokens,
                       target : Names \cup {None}]
       /\ page[p].gate = "ready" /\ call[p].csrf = page[p].csrf
       /\ call[p].at = "agent" => /\ call[p].cookie \in Tokens
                                  /\ call[p].csrf.bearer = call[p].cookie.bearer
    \/ call[p] \in [op : {"logout"}, at : {"panel"}, cookie : Cookies, csrf : Tokens]
    \/ /\ call[p] \in [op : Ops, at : {"answered"}, set : SUBSET Cookies, shown : Views]
       /\ ShowsItsUser(call[p].shown)

PanelState ==
    /\ panelKey \in Nat /\ bearers \in 0 .. MaxBearers
    /\ accounts \subseteq Names
    /\ opened \in [1 .. MaxBearers -> Names \cup {None}]
    /\ cookie \in Cookies
    /\ page \in [Pages -> Views]
    /\ call = [p \in Pages |-> call[p]]

PanelInv ==
    /\ PanelState
    /\ \A p \in Pages : ShowsItsUser(page[p])
    /\ \A p \in Pages : call[p] # None => CallFits(p)

(* What a step of the agent may do to the bearers that were issued. *)
BearersLast ==
    /\ bearers' \in bearers .. MaxBearers
    /\ opened' \in [1 .. MaxBearers -> Names \cup {None}]
    /\ \A b \in 1 .. bearers : opened'[b] \in {opened[b], None}

(* A page that shows its user still does when bearers are issued or dropped
   (SignIn, Forward, serveAPILogout, RestartAgent). *)
LEMMA StillShows ==
    ASSUME PanelState, BearersLast, NEW shows, shows \in Views, ShowsItsUser(shows)
    PROVE  ShowsItsUser(shows)'
<1>1. ASSUME shows.gate = "ready"
      PROVE  /\ shows.csrf \in [key : Nat, bearer : 1 .. bearers']
             /\ opened'[shows.csrf.bearer] \in {shows.user, None}
  <2>1. shows.csrf \in Tokens /\ opened[shows.csrf.bearer] \in {shows.user, None}
    BY <1>1 DEF ShowsItsUser
  <2>2. bearers \in Nat /\ bearers' \in Nat /\ bearers <= bearers'
    BY PanelAssumption DEF PanelState, BearersLast
  <2>3. shows.csrf.bearer \in 1 .. bearers
    BY <2>1 DEF Tokens
  <2>4. shows.csrf \in [key : Nat, bearer : 1 .. bearers']
    BY <2>1, <2>2 DEF Tokens
  <2>5. opened'[shows.csrf.bearer] \in {opened[shows.csrf.bearer], None}
    BY <2>3 DEF BearersLast
  <2>6. QED BY <2>1, <2>4, <2>5
<1>2. QED BY <1>1 DEF ShowsItsUser, Tokens

(* A request or an answer under way is as good after a step that leaves it and
   its page alone. *)
LEMMA StillFits ==
    ASSUME PanelInv, BearersLast, NEW p \in Pages, call[p] # None,
           call'[p] = call[p], page'[p] = page[p]
    PROVE  CallFits(p)'
<1>1. CallFits(p) BY DEF PanelInv
<1>2. Tokens \subseteq Tokens' /\ Cookies \subseteq Cookies'
  BY PanelAssumption DEF PanelInv, PanelState, BearersLast, Tokens, Cookies
<1>3. SUBSET Cookies \subseteq SUBSET Cookies'
  BY <1>2
<1>4. CASE call[p].at = "answered"
  <2>1. /\ call[p] \in [op : Ops, at : {"answered"}, set : SUBSET Cookies, shown : Views]
        /\ ShowsItsUser(call[p].shown)
    BY <1>1, <1>4 DEF CallFits
  <2>2. ShowsItsUser(call[p].shown)'
    <3> DEFINE shows == call[p].shown
    <3>1. shows \in Views /\ ShowsItsUser(shows) BY <2>1
    <3>2. \A x \in Views : ShowsItsUser(x) => ShowsItsUser(x)'
      BY StillShows DEF PanelInv
    <3>3. call'[p].shown \in Views /\ ShowsItsUser(call'[p].shown)
      BY <3>1
    <3>4. QED BY <3>2, <3>3
  <2>3. QED BY <2>1, <2>2, <1>3 DEF CallFits
<1>5. CASE call[p].at # "answered"
  BY <1>1, <1>2, <1>5 DEF CallFits
<1>6. QED BY <1>4, <1>5

(* The shape of a request tells its operation and where it is. *)
LEMMA CallShapes ==
    ASSUME NEW p \in Pages, CallFits(p)
    PROVE  /\ call[p].op \in Ops
           /\ call[p].at \in {"panel", "agent"} =>
                CASE call[p].op = "session" ->
                       call[p] \in [op : {"session"}, at : {"panel"}, cookie : Cookies]
                  [] call[p].op \in {"login", "setup"} ->
                       call[p] \in [op : {"login", "setup"}, at : {"panel", "agent"}, name : Names]
                  [] call[p].op = "write" ->
                       /\ call[p] \in [op : {"write"}, at : {"panel", "agent"}, cookie : Cookies,
                                        csrf : Tokens, target : Names \cup {None}]
                       /\ page[p].gate = "ready" /\ call[p].csrf = page[p].csrf
                       /\ call[p].at = "agent" => /\ call[p].cookie \in Tokens
                                                  /\ call[p].csrf.bearer = call[p].cookie.bearer
                  [] call[p].op = "logout" ->
                       call[p] \in [op : {"logout"}, at : {"panel"}, cookie : Cookies, csrf : Tokens]
           /\ call[p].at = "answered" =>
                /\ call[p] \in [op : Ops, at : {"answered"}, set : SUBSET Cookies, shown : Views]
                /\ ShowsItsUser(call[p].shown)
BY DEF CallFits, Ops

(* A step that sends a request, moves it on, answers it or drops it. *)
LEMMA OneCall ==
    ASSUME PanelInv, BearersLast, NEW p \in Pages, NEW c,
           accounts' \subseteq Names, panelKey' = panelKey,
           cookie' = cookie, page' = page,
           call' = [call EXCEPT ![p] = c],
           call'[p] = c => CallFits(p)' \/ c = None
    PROVE  PanelInv'
<1>1. PanelState'
  <2>1. Tokens \subseteq Tokens' /\ bearers' \in 0 .. MaxBearers
    BY PanelAssumption DEF PanelInv, PanelState, BearersLast, Tokens
  <2>2. cookie' \in Cookies'
    BY <2>1 DEF PanelInv, PanelState, Cookies
  <2>3. call' = [q \in Pages |-> call'[q]]
    BY DEF PanelInv, PanelState
  <2>4. QED BY <2>1, <2>2, <2>3 DEF PanelInv, PanelState, BearersLast, Views
<1>2. \A q \in Pages : ShowsItsUser(page[q])'
  <2>1. \A x \in Views : ShowsItsUser(x) => ShowsItsUser(x)'
    BY StillShows DEF PanelInv
  <2>2. \A q \in Pages : page'[q] \in Views /\ ShowsItsUser(page'[q])
    BY DEF PanelInv, PanelState
  <2>3. QED BY <2>1, <2>2
<1>3. ASSUME NEW q \in Pages, call'[q] # None
      PROVE  CallFits(q)'
  <2>1. CASE q = p
    BY <1>3, <2>1 DEF PanelInv, PanelState
  <2>2. CASE q # p
    <3>1. call'[q] = call[q] BY <2>2 DEF PanelInv, PanelState
    <3>2. QED BY <3>1, <1>3, StillFits
  <2>3. QED BY <2>1, <2>2
<1>4. QED BY <1>1, <1>2, <1>3 DEF PanelInv

(* An answer sets cookies that were issued, and what it has the page show goes
   with its user. *)
LEMMA OneAnswer ==
    ASSUME PanelInv, BearersLast, NEW p \in Pages, NEW set, NEW shows \in Views,
           call[p] # None, set \subseteq Cookies',
           shows.gate = "ready" => /\ shows.csrf \in Tokens'
                                   /\ opened'[shows.csrf.bearer] \in {shows.user, None},
           accounts' \subseteq Names, panelKey' = panelKey,
           cookie' = cookie, page' = page,
           Console!Answer(p, set, shows)
    PROVE  PanelInv'
<1> DEFINE c == [op |-> call[p].op, at |-> "answered", set |-> set, shown |-> shows]
<1>1. call' = [call EXCEPT ![p] = c] BY DEF Console!Answer
<1>2. call[p].op \in Ops BY CallShapes DEF PanelInv
<1>3. ASSUME call'[p] = c PROVE CallFits(p)'
  <2>1. c \in [op : Ops, at : {"answered"}, set : SUBSET Cookies', shown : Views] /\ c.shown = shows
    BY <1>2
  <2> HIDE DEF c
  <2>2. call'[p].shown = shows BY <1>3, <2>1
  <2>3. ShowsItsUser(call[p].shown)' BY <2>2 DEF ShowsItsUser
  <2>4. QED BY <1>3, <2>1, <2>3 DEF CallFits
<1> HIDE DEF c
<1>4. QED BY <1>1, <1>3, OneCall

(* Bearers that are left alone. *)
LEMMA NoBearer ==
    ASSUME PanelInv, UNCHANGED <<opened, bearers>>
    PROVE  BearersLast
BY PanelAssumption DEF PanelInv, PanelState, BearersLast

(* A session is opened under a bearer that no page and no cookie has. *)
LEMMA OneSignIn ==
    ASSUME PanelInv, NEW p \in Pages, NEW n \in Names, call[p] # None,
           accounts' \subseteq Names, panelKey' = panelKey,
           cookie' = cookie, page' = page,
           Console!SignIn(p, n)
    PROVE  PanelInv'
<1> DEFINE c == [key |-> panelKey, bearer |-> bearers + 1]
           shows == [gate |-> "ready", user |-> n, csrf |-> c]
<1>1. /\ bearers \in Nat /\ bearers < MaxBearers /\ bearers' = bearers + 1
      /\ bearers' \in 1 .. MaxBearers
      /\ opened' = [opened EXCEPT ![bearers'] = n]
  BY PanelAssumption DEF PanelInv, PanelState, Console!SignIn
<1>2. BearersLast
  BY <1>1, PanelAssumption DEF PanelInv, PanelState, BearersLast
<1>3. c \in Tokens' /\ c.bearer = bearers' /\ c \in [key : Nat, bearer : Nat]
  BY <1>1 DEF Tokens, PanelInv, PanelState
<1>4. Console!csrfToken(c) = c
  BY DEF Console!csrfToken
<1>5. Console!Answer(p, {c}, shows)
  BY <1>4 DEF Console!SignIn, Console!Shown
<1>6. opened'[bearers'] = n
  BY <1>1 DEF PanelInv, PanelState
<1>7. {c} \subseteq Cookies'
  BY <1>3 DEF Cookies
<1> HIDE DEF c
<1>8. shows \in Views /\ shows.gate = "ready" /\ shows.user = n /\ shows.csrf = c
  BY <1>3 DEF Views, Gates
<1> HIDE DEF shows
<1>9. shows.csrf \in Tokens' /\ opened'[shows.csrf.bearer] \in {shows.user, None}
  BY <1>3, <1>6, <1>8
<1>10. QED BY <1>2, <1>5, <1>7, <1>8, <1>9, OneAnswer

(* A page sends a request (AskSession, Login, Setup, Write, Logout). *)
LEMMA PageAsks ==
    ASSUME PanelInv, NEW p \in Pages,
           \/ Console!AskSession(p) \/ Console!Logout(p)
           \/ \E n \in Names : Console!Login(p, n) \/ Console!Setup(p, n)
           \/ \E n \in Names \cup {None} : Console!Write(p, n)
    PROVE  PanelInv'
<1>1. /\ BearersLast /\ cookie \in Cookies /\ accounts' \subseteq Names
      /\ panelKey' = panelKey /\ cookie' = cookie /\ page' = page
      /\ opened' = opened /\ bearers' = bearers /\ accounts' = accounts
  BY NoBearer DEF Console!AskSession, Console!Login, Console!Setup, Console!Write,
                  Console!Logout, Console!Ask, Console!agentVars, PanelInv, PanelState
<1>2. Cookies' = Cookies /\ Tokens' = Tokens
  BY <1>1 DEF Cookies, Tokens
<1>3. CASE Console!AskSession(p)
  <2> DEFINE c == [op |-> "session", at |-> "panel", cookie |-> cookie]
  <2>1. call' = [call EXCEPT ![p] = c]
    BY <1>3 DEF Console!AskSession, Console!Ask
  <2>2. call'[p] = c => CallFits(p)'
    BY <1>1, <1>2 DEF CallFits
  <2> HIDE DEF c
  <2>3. QED BY <1>1, <2>1, <2>2, OneCall
<1>4. ASSUME NEW n \in Names, Console!Login(p, n) PROVE PanelInv'
  <2> DEFINE c == [op |-> "login", at |-> "panel", name |-> n]
  <2>1. call' = [call EXCEPT ![p] = c]
    BY <1>4 DEF Console!Login, Console!Ask
  <2>2. call'[p] = c => CallFits(p)'
    BY <1>1, <1>2 DEF CallFits
  <2> HIDE DEF c
  <2>3. QED BY <1>1, <2>1, <2>2, OneCall
<1>5. ASSUME NEW n \in Names, Console!Setup(p, n) PROVE PanelInv'
  <2> DEFINE c == [op |-> "setup", at |-> "panel", name |-> n]
  <2>1. call' = [call EXCEPT ![p] = c]
    BY <1>5 DEF Console!Setup, Console!Ask
  <2>2. call'[p] = c => CallFits(p)'
    BY <1>1, <1>2 DEF CallFits
  <2> HIDE DEF c
  <2>3. QED BY <1>1, <2>1, <2>2, OneCall
<1>6. ASSUME NEW n \in Names \cup {None}, Console!Write(p, n) PROVE PanelInv'
  <2> DEFINE c == [op |-> "write", at |-> "panel", cookie |-> cookie, csrf |-> page[p].csrf,
                   target |-> n]
  <2>1. call' = [call EXCEPT ![p] = c] /\ page[p].gate = "ready"
    BY <1>6 DEF Console!Write, Console!Ask
  <2>2. page[p].csrf \in Tokens
    BY <2>1 DEF PanelInv, ShowsItsUser
  <2>3. call'[p] = c => CallFits(p)'
    BY <1>1, <1>2, <2>1, <2>2 DEF CallFits
  <2> HIDE DEF c
  <2>4. QED BY <1>1, <2>1, <2>3, OneCall
<1>7. CASE Console!Logout(p)
  <2> DEFINE c == [op |-> "logout", at |-> "panel", cookie |-> cookie, csrf |-> page[p].csrf]
  <2>1. call' = [call EXCEPT ![p] = c] /\ page[p].gate = "ready"
    BY <1>7 DEF Console!Logout, Console!Ask
  <2>2. page[p].csrf \in Tokens
    BY <2>1 DEF PanelInv, ShowsItsUser
  <2>3. call'[p] = c => CallFits(p)'
    BY <1>1, <1>2, <2>2 DEF CallFits
  <2> HIDE DEF c
  <2>4. QED BY <1>1, <2>1, <2>3, OneCall
<1>8. QED BY <1>3, <1>4, <1>5, <1>6, <1>7

(* What a page shows after a sign-out, a refusal or a lost session. *)
LEMMA SignedOut ==
    ASSUME NEW g \in Gates \ {"ready"}
    PROVE  /\ Console!Shown(g, None, None) \in Views
           /\ Console!Shown(g, None, None).gate # "ready"
BY DEF Console!Shown, Views

(* A handler that answers without the agent, or only asks it (serveAPISession,
   serveAPISetup, requireAPIAuth). *)
LEMMA PanelHandles ==
    ASSUME PanelInv, NEW p \in Pages,
           Console!serveAPISession(p) \/ Console!serveAPISetup(p) \/ Console!requireAPIAuth(p)
    PROVE  PanelInv'
<1>1. /\ BearersLast /\ accounts' \subseteq Names
      /\ panelKey' = panelKey /\ cookie' = cookie /\ page' = page
      /\ opened' = opened /\ bearers' = bearers /\ accounts' = accounts /\ call[p] # None
  BY NoBearer DEF Console!serveAPISession, Console!serveAPISetup, Console!requireAPIAuth,
                  Console!agentVars, Console!At, PanelInv, PanelState
<1>2. Cookies' = Cookies /\ Tokens' = Tokens
  BY <1>1 DEF Cookies, Tokens
<1>3. CallFits(p) BY <1>1 DEF PanelInv
<1>4. /\ page[p] \in Views
      /\ page[p].gate = "ready" => /\ page[p].csrf \in Tokens'
                                   /\ opened'[page[p].csrf.bearer] \in {page[p].user, None}
  BY <1>1, <1>2 DEF PanelInv, PanelState, ShowsItsUser
<1>5. CASE Console!serveAPISession(p)
  <2> DEFINE c == call[p].cookie
             user == IF Console!Signed(c) THEN opened[c.bearer] ELSE None
             shows == Console!Shown("ready", user, Console!csrfToken(c))
             set == IF Console!Signed(c) THEN {None} ELSE {}
  <2>1. c \in Cookies
    BY <1>3, <1>5, CallShapes DEF Console!serveAPISession, Console!At
  <2>2. /\ user # None => Console!Answer(p, {}, shows)
        /\ user = None => Console!Answer(p, set, Console!Shown(Console!gate, None, None))
    BY <1>5 DEF Console!serveAPISession
  <2>3. CASE user # None
    <3>1. c \in Tokens /\ user = opened[c.bearer]
      BY <2>1, <2>3 DEF Console!Signed, Cookies
    <3>2. user \in Names
      BY <2>3, <3>1, PanelAssumption DEF Tokens, PanelInv, PanelState
    <3>3. shows \in Views /\ shows.csrf = c /\ shows.user = user
      BY <3>1, <3>2, PanelAssumption DEF Console!Shown, Console!csrfToken, Views, Gates, Tokens, PanelInv, PanelState
    <3> HIDE DEF shows, c, user
    <3>4. shows.csrf \in Tokens' /\ opened'[shows.csrf.bearer] \in {shows.user, None}
      BY <1>1, <1>2, <3>1, <3>3
    <3>5. Console!Answer(p, {}, shows)
      BY <2>2, <2>3
    <3>6. QED BY <1>1, <3>3, <3>4, <3>5, OneAnswer
  <2>4. CASE user = None
    <3>1. set \subseteq Cookies' BY DEF Cookies
    <3>2. Console!gate \in Gates \ {"ready"} BY DEF Console!gate, Gates
    <3> HIDE DEF set
    <3>3. QED BY <1>1, <2>2, <2>4, <3>1, <3>2, SignedOut, OneAnswer
  <2>5. QED BY <2>3, <2>4
<1>6. CASE Console!serveAPISetup(p)
  <2>1. CASE Console!gate # "setup"
    <3>1. Console!Answer(p, {}, page[p]) BY <1>6, <2>1 DEF Console!serveAPISetup
    <3>2. QED BY <1>1, <1>4, <3>1, OneAnswer
  <2>2. CASE Console!gate = "setup"
    <3> DEFINE c == [call[p] EXCEPT !.at = "agent"]
    <3>1. call' = [call EXCEPT ![p] = c]
      BY <1>6, <2>2 DEF Console!serveAPISetup
    <3>2. c \in [op : {"setup"}, at : {"panel", "agent"}, name : Names]
      BY <1>3, <1>6, CallShapes DEF Console!serveAPISetup, Console!At
    <3> HIDE DEF c
    <3>3. call'[p] = c => CallFits(p)' BY <3>2 DEF CallFits
    <3>4. QED BY <1>1, <3>1, <3>3, OneCall
  <2>3. QED BY <2>1, <2>2
<1>7. CASE Console!requireAPIAuth(p)
  <2>1. CASE ~ Console!Allowed(call[p].cookie, call[p].csrf)
    <3>1. Console!Answer(p, {}, Console!Shown("none", None, None))
      BY <1>7, <2>1 DEF Console!requireAPIAuth
    <3>2. "none" \in Gates \ {"ready"} BY DEF Gates
    <3>3. QED BY <1>1, <3>1, <3>2, SignedOut, OneAnswer
  <2>2. CASE Console!Allowed(call[p].cookie, call[p].csrf)
    <3> DEFINE c == [call[p] EXCEPT !.at = "agent"]
    <3>1. call' = [call EXCEPT ![p] = c]
      BY <1>7, <2>2 DEF Console!requireAPIAuth
    <3>2. /\ call[p] \in [op : {"write"}, at : {"panel", "agent"}, cookie : Cookies,
                           csrf : Tokens, target : Names \cup {None}]
          /\ page[p].gate = "ready" /\ call[p].csrf = page[p].csrf
      BY <1>3, <1>7, CallShapes DEF Console!requireAPIAuth, Console!At
    <3>3. /\ call[p].cookie \in Tokens
          /\ call[p].csrf.bearer = call[p].cookie.bearer
      BY <2>2, <3>2 DEF Console!Allowed, Console!Signed, Console!csrfToken, Cookies
    <3>4. /\ c \in [op : {"write"}, at : {"panel", "agent"}, cookie : Cookies,
                     csrf : Tokens, target : Names \cup {None}]
          /\ c.csrf = page[p].csrf /\ c.cookie \in Tokens /\ c.csrf.bearer = c.cookie.bearer
      BY <3>2, <3>3
    <3> HIDE DEF c
    <3>5. call'[p] = c => CallFits(p)'
      BY <1>1, <1>2, <3>2, <3>4 DEF CallFits
    <3>6. QED BY <1>1, <3>1, <3>5, OneCall
  <2>3. QED BY <2>1, <2>2
<1>8. QED BY <1>5, <1>6, <1>7

(* The agent signs an account in, or refuses to (serveAPILogin, Bootstrap). *)
LEMMA AgentSignsIn ==
    ASSUME PanelInv, NEW p \in Pages, Console!serveAPILogin(p) \/ Console!Bootstrap(p)
    PROVE  PanelInv'
<1>1. /\ panelKey' = panelKey /\ cookie' = cookie /\ page' = page
      /\ call[p] # None /\ call[p].op \in {"login", "setup"} /\ call[p].at \in {"panel", "agent"}
      /\ accounts \subseteq Names
  BY DEF Console!serveAPILogin, Console!Bootstrap, Console!At, PanelInv, PanelState
<1>2. call[p].name \in Names
  BY <1>1, CallShapes DEF PanelInv
<1>3. /\ page[p] \in Views
      /\ page[p].gate = "ready" => /\ page[p].csrf \in Tokens
                                   /\ opened[page[p].csrf.bearer] \in {page[p].user, None}
  BY DEF PanelInv, PanelState, ShowsItsUser
<1>4. CASE Console!SignIn(p, call[p].name) /\ accounts' \subseteq Names
  BY <1>1, <1>2, <1>4, OneSignIn
<1>5. CASE Console!Answer(p, {}, page[p]) /\ UNCHANGED <<accounts, opened, bearers>>
  <2>1. BearersLast /\ Tokens' = Tokens
    BY <1>5, NoBearer DEF Tokens
  <2>2. QED BY <1>1, <1>3, <1>5, <2>1, OneAnswer
<1>6. QED
  BY <1>1, <1>2, <1>4, <1>5 DEF Console!serveAPILogin, Console!Bootstrap, Console!agentVars

(* A write, which may drop the sessions of an account, and a sign-out. *)
LEMMA AgentWrites ==
    ASSUME PanelInv, NEW p \in Pages, Console!Forward(p) \/ Console!serveAPILogout(p)
    PROVE  PanelInv'
<1>1. /\ panelKey' = panelKey /\ cookie' = cookie /\ page' = page /\ bearers' = bearers
      /\ call[p] # None /\ call[p].at \in {"panel", "agent"}
      /\ accounts \subseteq Names
  BY DEF Console!Forward, Console!serveAPILogout, Console!At, PanelInv, PanelState
<1>2. CallFits(p) BY <1>1 DEF PanelInv
<1>3. Tokens' = Tokens /\ Cookies' = Cookies
  BY <1>1 DEF Tokens, Cookies
<1>4. /\ "none" \in Gates \ {"ready"} /\ {None} \subseteq Cookies'
  BY DEF Gates, Cookies
<1>5. CASE Console!Forward(p)
  <2>1. call[p].target \in Names \cup {None}
    BY <1>1, <1>2, <1>5, CallShapes DEF Console!Forward, Console!At
  <2>2. /\ accounts' \subseteq Names
        /\ \/ opened' = opened
           \/ opened' = [b \in 1 .. MaxBearers |->
                            IF opened[b] = call[p].target THEN None ELSE opened[b]]
    BY <1>1, <1>5, <2>1 DEF Console!Forward
  <2>3. BearersLast
    BY <1>1, <2>2, PanelAssumption DEF BearersLast, PanelInv, PanelState
  <2>4. /\ page[p] \in Views
        /\ page[p].gate = "ready" => /\ page[p].csrf \in Tokens'
                                     /\ opened'[page[p].csrf.bearer] \in {page[p].user, None}
    <3>1. /\ page[p] \in Views
          /\ page[p].gate = "ready" => /\ page[p].csrf \in Tokens
                                       /\ opened[page[p].csrf.bearer] \in {page[p].user, None}
      BY DEF PanelInv, PanelState, ShowsItsUser
    <3>2. \A t \in Tokens : opened'[t.bearer] \in {opened[t.bearer], None}
      BY <2>3 DEF BearersLast, Tokens
    <3>3. QED BY <1>3, <3>1, <3>2
  <2>5. \/ Console!Answer(p, {}, Console!Shown("none", None, None))
        \/ Console!Answer(p, {}, page[p])
    BY <1>5 DEF Console!Forward
  <2>6. QED BY <1>1, <1>4, <2>2, <2>3, <2>4, <2>5, SignedOut, OneAnswer
<1>6. CASE Console!serveAPILogout(p)
  <2>1. call[p].cookie \in Cookies
    BY <1>1, <1>2, <1>6, CallShapes DEF Console!serveAPILogout, Console!At
  <2>2. \/ opened' = opened
        \/ Console!Signed(call[p].cookie) /\ opened' = [opened EXCEPT ![call[p].cookie.bearer] = None]
    BY <1>6 DEF Console!serveAPILogout
  <2>3. BearersLast
    BY <1>1, <2>1, <2>2, PanelAssumption, SMTT(60)
       DEF BearersLast, PanelInv, PanelState, Console!Signed, Cookies, Tokens
  <2>4. \/ Console!Answer(p, {}, Console!Shown("none", None, None))
        \/ Console!Answer(p, {None}, Console!Shown("none", None, None))
    BY <1>6 DEF Console!serveAPILogout
  <2>5. accounts' = accounts BY <1>6 DEF Console!serveAPILogout
  <2>6. QED BY <1>1, <1>4, <2>3, <2>4, <2>5, SignedOut, OneAnswer
<1>7. QED BY <1>5, <1>6

(* The browser takes an answer over, or never sees it. *)
LEMMA BrowserReceives ==
    ASSUME PanelInv, NEW p \in Pages, Console!Receive(p) \/ Console!LoseAnswer(p)
    PROVE  PanelInv'
<1>1. /\ panelKey' = panelKey /\ accounts' = accounts /\ opened' = opened
      /\ bearers' = bearers /\ call[p] # None /\ call' = [call EXCEPT ![p] = None]
  BY DEF Console!Receive, Console!LoseAnswer, Console!Trouble, Console!agentVars
<1>2. BearersLast /\ Tokens' = Tokens /\ Cookies' = Cookies
  BY <1>1, NoBearer DEF Tokens, Cookies
<1>3. CASE Console!LoseAnswer(p)
  <2>1. cookie' = cookie /\ page' = page /\ accounts' \subseteq Names
    BY <1>1, <1>3 DEF Console!LoseAnswer, PanelInv, PanelState
  <2>2. QED BY <1>1, <1>2, <2>1, OneCall
<1>4. CASE Console!Receive(p)
  <2>1. /\ call[p] \in [op : Ops, at : {"answered"}, set : SUBSET Cookies, shown : Views]
        /\ ShowsItsUser(call[p].shown)
    BY <1>1, <1>4, CallShapes DEF Console!Receive, PanelInv
  <2>2. page' = [page EXCEPT ![p] = call[p].shown] /\ cookie' \in Cookies
    BY <1>4, <2>1 DEF Console!Receive, PanelInv, PanelState
  <2>3. page' \in [Pages -> Views] /\ call' = [q \in Pages |-> call'[q]]
    BY <1>1, <2>1, <2>2 DEF PanelInv, PanelState
  <2>4. PanelState'
    BY <1>1, <1>2, <2>2, <2>3 DEF PanelInv, PanelState, Views
  <2>5. ASSUME NEW q \in Pages PROVE ShowsItsUser(page[q])'
    <3>1. CASE q = p
      <4>1. page'[q] = call[p].shown BY <2>2, <3>1 DEF PanelInv, PanelState
      <4>2. QED BY <1>1, <1>2, <2>1, <4>1 DEF ShowsItsUser
    <3>2. CASE q # p
      <4>1. page'[q] = page[q] /\ ShowsItsUser(page[q])
        BY <2>2, <3>2 DEF PanelInv, PanelState
      <4>2. QED BY <1>1, <1>2, <4>1 DEF ShowsItsUser
    <3>3. QED BY <3>1, <3>2
  <2>6. ASSUME NEW q \in Pages, call'[q] # None PROVE CallFits(q)'
    <3>1. q # p /\ call'[q] = call[q] /\ page'[q] = page[q]
      BY <1>1, <2>2, <2>6 DEF PanelInv, PanelState
    <3>2. QED BY <1>2, <2>6, <3>1, StillFits
  <2>7. QED BY <2>4, <2>5, <2>6 DEF PanelInv
<1>5. QED BY <1>3, <1>4

(* Faults of the panel, the browser and the agent. *)
LEMMA PanelTrouble ==
    ASSUME PanelInv, Console!openPanelSession \/ Console!ExpireCookie \/ Console!RestartAgent
    PROVE  PanelInv'
<1>1. /\ page' = page /\ accounts' = accounts /\ bearers' = bearers
      /\ panelKey' \in {panelKey, panelKey + 1} /\ cookie' \in {cookie, None}
      /\ opened' \in {opened, [b \in 1 .. MaxBearers |-> None]}
      /\ call' \in {call, [p \in Pages |-> None]}
  BY DEF Console!openPanelSession, Console!ExpireCookie, Console!RestartAgent, Console!Trouble
<1>2. BearersLast /\ Tokens' = Tokens /\ Cookies' = Cookies
  BY <1>1, PanelAssumption DEF BearersLast, Tokens, Cookies, PanelInv, PanelState
<1>3. PanelState'
  BY <1>1, <1>2, PanelAssumption DEF PanelInv, PanelState, Views, Cookies, BearersLast
<1>4. \A q \in Pages : ShowsItsUser(page[q])'
  <2>1. \A x \in Views : ShowsItsUser(x) => ShowsItsUser(x)'
    BY <1>2, StillShows DEF PanelInv
  <2>2. \A q \in Pages : page'[q] \in Views /\ ShowsItsUser(page'[q])
    BY <1>1 DEF PanelInv, PanelState
  <2>3. QED BY <2>1, <2>2
<1>5. ASSUME NEW q \in Pages, call'[q] # None PROVE CallFits(q)'
  <2>1. call'[q] = call[q] /\ page'[q] = page[q] BY <1>1, <1>5
  <2>2. QED BY <1>2, <1>5, <2>1, StillFits
<1>6. QED BY <1>3, <1>4, <1>5 DEF PanelInv

(* Before anybody signed in, no page shows a user and no answer is under way. *)
LEMMA PanelStarts ==
    ASSUME Console!PanelInit PROVE PanelInv
<1>1. ASSUME NEW p \in Pages
      PROVE  page[p] = [gate |-> "none", user |-> None, csrf |-> None] /\ call[p] = None
  BY DEF Console!PanelInit, Console!Shown
<1>2. PanelState
  BY PanelAssumption DEF Console!PanelInit, Console!Shown, PanelState, Views, Gates, Cookies
<1>3. QED BY <1>1, <1>2 DEF PanelInv, ShowsItsUser

(* Every step of pages, panel and browser: an answer that arrives late can set a cookie,
   but a page goes on acting as the user it shows. *)
LEMMA PanelStep ==
    ASSUME PanelInv, Console!PanelNext PROVE PanelInv'
<1>1. ASSUME NEW p \in Pages,
             \/ Console!AskSession(p) \/ Console!Logout(p)
             \/ \E n \in Names : Console!Login(p, n) \/ Console!Setup(p, n)
             \/ \E n \in Names \cup {None} : Console!Write(p, n)
      PROVE  PanelInv'
  BY <1>1, PageAsks
<1>2. ASSUME NEW p \in Pages,
             Console!serveAPISession(p) \/ Console!serveAPISetup(p) \/ Console!requireAPIAuth(p)
      PROVE  PanelInv'
  BY <1>2, PanelHandles
<1>3. ASSUME NEW p \in Pages, Console!serveAPILogin(p) \/ Console!Bootstrap(p)
      PROVE  PanelInv'
  BY <1>3, AgentSignsIn
<1>4. ASSUME NEW p \in Pages, Console!Forward(p) \/ Console!serveAPILogout(p)
      PROVE  PanelInv'
  BY <1>4, AgentWrites
<1>5. ASSUME NEW p \in Pages, Console!Receive(p) \/ Console!LoseAnswer(p)
      PROVE  PanelInv'
  BY <1>5, BrowserReceives
<1>6. ASSUME Console!openPanelSession \/ Console!ExpireCookie \/ Console!RestartAgent
      PROVE  PanelInv'
  BY <1>6, PanelTrouble
<1>7. QED BY <1>1, <1>2, <1>3, <1>4, <1>5, <1>6 DEF Console!PanelNext

(* What a page writes is done by the user that it shows, or by nobody. *)
LEMMA PanelSafe ==
    ASSUME PanelInv PROVE Console!ActsAsShown
<1> SUFFICES ASSUME NEW p \in Pages, Console!At(p, "write", "agent")
             PROVE  opened[call[p].cookie.bearer] \in {page[p].user, None}
  BY DEF Console!ActsAsShown
<1>1. /\ page[p].gate = "ready" /\ page[p].csrf = call[p].csrf
      /\ call[p].csrf.bearer = call[p].cookie.bearer
  BY CallShapes DEF Console!At, PanelInv
<1>2. QED BY <1>1 DEF PanelInv, ShowsItsUser

-----------------------------------------------------------------------------
(* The rebuild of the site. *)

Phases == {"collect", "deploy", "members"}

Passes == [phase : Phases, products : SUBSET Products, left : SUBSET (Products \cup Sinks),
           dump : Site!Dump, sinks : SUBSET Sinks, allowEmpty : BOOLEAN]

(* The members that are recorded are those of the page that was reported: a pass
   that got past its guard shows them, as far as they are still registered. *)
SiteInv ==
    /\ Site!SiteOK
    /\ members = promised
    /\ pass # None =>
          /\ pass \in Passes
          /\ configured \subseteq pass.products
          /\ pass.phase \in {"deploy", "members"} => Site!guardCompleteSnapshot

(* With nothing written and nothing deployed, no shelf can miss a product. *)
LEMMA SiteStarts ==
    ASSUME Site!SiteInit PROVE SiteInv
BY ShelfAssumption
   DEF Site!SiteInit, SiteInv, Site!SiteOK, Site!Dump

(* A step that leaves the running pass alone. *)
LEMMA BesideThePass ==
    ASSUME SiteInv, NEW p \in Products, Site!Write(p) \/ Site!Retire(p) PROVE SiteInv'
<1>1. UNCHANGED <<shown, recorded, members, pass, promised>>
  BY DEF Site!Write, Site!Retire, Site!files
<1>2. docs' \in Site!Dump /\ configured' \subseteq configured
  BY ShelfAssumption DEF Site!Write, Site!Retire, Site!Dump, SiteInv, Site!SiteOK
<1>3. Site!SiteOK'
  BY <1>1, <1>2 DEF SiteInv, Site!SiteOK, Site!Dump
<1>4. Site!guardCompleteSnapshot => Site!guardCompleteSnapshot'
  BY <1>1 DEF Site!guardCompleteSnapshot, Site!onPage
<1>5. QED BY <1>1, <1>2, <1>3, <1>4 DEF SiteInv, Passes, Site!Dump

(* Rebuild: a pass starts with every configured product and an empty dump. *)
LEMMA PassBegins ==
    ASSUME SiteInv, NEW dests \in SUBSET Sinks, NEW allowEmpty \in BOOLEAN,
           Site!Rebuild(dests, allowEmpty)
    PROVE  SiteInv'
<1> DEFINE new == [phase |-> "collect", products |-> configured, left |-> configured,
                   dump |-> [p \in Products |-> 0], sinks |-> dests, allowEmpty |-> allowEmpty]
<1>1. pass' = new /\ UNCHANGED <<docs, configured, shown, recorded, members, promised>>
  BY DEF Site!Rebuild, Site!files
<1>2. new \in Passes /\ new.phase = "collect" /\ new.products = configured
  BY ShelfAssumption DEF Passes, Phases, Site!Dump, SiteInv, Site!SiteOK
<1> HIDE DEF new
<1>3. pass'.dump \in Site!Dump /\ pass'.sinks \subseteq Sinks
  BY <1>1, <1>2 DEF Passes
<1>4. QED BY <1>1, <1>2, <1>3 DEF SiteInv, Site!SiteOK, Site!Dump, Passes

(* Products are collected in turn; the guard is passed once all are. *)
LEMMA PassCollects ==
    ASSUME SiteInv, NEW p \in Products, Site!collect(p) PROVE SiteInv'
<1>1. PICK n \in 0 .. docs[p] : pass' = [pass EXCEPT !.left = @ \ {p}, !.dump[p] = n]
  BY DEF Site!collect
<1>2. /\ pass \in Passes /\ pass.phase = "collect" /\ configured \subseteq pass.products
      /\ UNCHANGED <<docs, configured, shown, recorded, members, promised>>
  BY DEF Site!collect, Site!In, Site!files, SiteInv
<1> DEFINE new == [pass EXCEPT !.left = @ \ {p}, !.dump[p] = n]
<1>3. n \in 0 .. MaxDocs
  BY ShelfAssumption DEF SiteInv, Site!SiteOK, Site!Dump
<1>4. [pass.dump EXCEPT ![p] = n] \in Site!Dump
  BY <1>2, <1>3 DEF Passes, Site!Dump
<1>5. new \in Passes /\ new.phase = "collect" /\ new.products = pass.products
  BY <1>2, <1>4 DEF Passes
<1>6. pass' = new BY <1>1
<1> HIDE DEF new
<1>7. pass'.dump \in Site!Dump /\ pass'.sinks \subseteq Sinks
  BY <1>5, <1>6 DEF Passes
<1>8. QED BY <1>2, <1>5, <1>6, <1>7 DEF SiteInv, Site!SiteOK, Site!Dump, Passes

(* Build and Deploy: a sink gets the dump only after guardCompleteSnapshot. *)
LEMMA PassDeploys ==
    ASSUME SiteInv, Site!Build \/ \E s \in Sinks : Site!Deploy(s) PROVE SiteInv'
<1>1. /\ pass \in Passes /\ pass # None /\ configured \subseteq pass.products
      /\ Site!guardCompleteSnapshot
      /\ UNCHANGED <<docs, configured, recorded, members, promised>>
  BY DEF Site!Build, Site!Deploy, Site!In, Site!files, SiteInv
<1>2. shown' \in [Sinks -> Site!Dump \cup {None}]
  BY <1>1 DEF Site!Build, Site!Deploy, SiteInv, Site!SiteOK, Passes
<1>3. /\ pass' \in Passes /\ pass'.products = pass.products /\ pass'.dump = pass.dump
      /\ pass'.allowEmpty = pass.allowEmpty
  <2>1. CASE Site!Build
    <3>1. \/ pass' = [pass EXCEPT !.phase = "members"]
          \/ pass' = [pass EXCEPT !.phase = "deploy", !.left = pass.sinks]
      BY <2>1 DEF Site!Build
    <3>2. QED BY <1>1, <3>1 DEF Passes, Phases
  <2>2. CASE \E s \in Sinks : Site!Deploy(s)
    <3>1. \E s \in Sinks : pass' = [pass EXCEPT !.left = @ \ {s}]
      BY <2>2 DEF Site!Deploy
    <3>2. QED BY <1>1, <3>1 DEF Passes, Phases
  <2>3. QED BY <2>1, <2>2
<1>4. Site!guardCompleteSnapshot'
  BY <1>1, <1>3 DEF Site!guardCompleteSnapshot, Site!onPage
<1>5. Site!SiteOK'
  BY <1>1, <1>2, <1>3 DEF SiteInv, Site!SiteOK, Site!Dump, Passes
<1>6. QED BY <1>1, <1>3, <1>4, <1>5 DEF SiteInv, Passes, Site!Dump

(* A pass records its fingerprint, then its members, or ends without. *)
LEMMA PassRecords ==
    ASSUME SiteInv,
           \/ Site!Record \/ Site!writeMembers \/ Site!PassEnds
           \/ \E s \in Sinks : Site!DeployFails(s)
    PROVE  SiteInv'
<1>1. /\ pass \in Passes /\ configured \subseteq pass.products
      /\ UNCHANGED <<docs, configured>>
  BY DEF Site!Record, Site!writeMembers, Site!PassEnds, Site!DeployFails, Site!In, Site!files,
         SiteInv
<1>2. shown' \in [Sinks -> Site!Dump \cup {None}]
  BY <1>1 DEF Site!Record, Site!writeMembers, Site!PassEnds, Site!DeployFails, SiteInv,
              Site!SiteOK, Passes
<1>3. members' = promised' /\ members' \subseteq Products
  BY DEF Site!Record, Site!writeMembers, Site!PassEnds, Site!DeployFails, Site!files,
         Site!onPage, SiteInv, Site!SiteOK
<1>4. CASE pass' = None
  BY <1>1, <1>2, <1>3, <1>4 DEF SiteInv, Site!SiteOK, Site!Dump
<1>5. CASE Site!Record
  <2>1. /\ pass' \in Passes /\ pass'.products = pass.products /\ pass'.dump = pass.dump
        /\ pass'.allowEmpty = pass.allowEmpty /\ members' = members
    BY <1>1, <1>5 DEF Site!Record, Passes, Phases
  <2>2. Site!guardCompleteSnapshot
    BY <1>5 DEF Site!Record, Site!In, SiteInv
  <2>3. Site!guardCompleteSnapshot'
    BY <2>1, <2>2 DEF Site!guardCompleteSnapshot, Site!onPage
  <2>4. Site!SiteOK'
    BY <1>1, <1>2, <1>3, <2>1 DEF SiteInv, Site!SiteOK, Site!Dump, Passes
  <2>5. QED BY <1>1, <1>3, <2>1, <2>3, <2>4 DEF SiteInv, Passes, Site!Dump
<1>6. QED BY <1>4, <1>5 DEF Site!writeMembers, Site!PassEnds, Site!DeployFails

(* Every step of the site, beside publishers that write and retire products. *)
LEMMA SiteStep ==
    ASSUME SiteInv, Site!SiteNext PROVE SiteInv'
<1>1. ASSUME NEW p \in Products, Site!Write(p) \/ Site!Retire(p) PROVE SiteInv'
  BY <1>1, BesideThePass
<1>2. ASSUME NEW p \in Products, Site!collect(p) PROVE SiteInv'
  BY <1>2, PassCollects
<1>3. ASSUME NEW dests \in (SUBSET Sinks) \ {{}}, NEW allowEmpty \in BOOLEAN,
             Site!Rebuild(dests, allowEmpty)
      PROVE  SiteInv'
  BY <1>3, PassBegins
<1>4. CASE Site!Build \/ \E s \in Sinks : Site!Deploy(s)
  BY <1>4, PassDeploys
<1>5. CASE \/ Site!Record \/ Site!writeMembers \/ Site!PassEnds
           \/ \E s \in Sinks : Site!DeployFails(s)
  BY <1>5, PassRecords
<1>6. QED BY <1>1, <1>2, <1>3, <1>4, <1>5 DEF Site!SiteNext

(* What a step deploys has every product of the page that was reported. *)
LEMMA PageIsComplete ==
    ASSUME SiteInv, Site!SiteNext, NEW s \in Sinks, shown'[s] \notin {shown[s], None}
    PROVE  \/ promised \cap configured \subseteq Site!onPage(shown'[s])
           \/ pass.allowEmpty /\ Site!onPage(shown'[s]) = {}
<1>1. \E t \in Sinks : Site!Deploy(t) \/ Site!DeployFails(t)
  BY DEF Site!SiteNext, Site!Write, Site!Retire, Site!collect, Site!Rebuild, Site!Build,
         Site!Record, Site!writeMembers, Site!PassEnds
<1>2. shown'[s] = pass.dump
  BY <1>1 DEF Site!Deploy, Site!DeployFails, SiteInv, Site!SiteOK
<1>3. Site!guardCompleteSnapshot /\ members = promised /\ configured \subseteq pass.products
  BY <1>1 DEF Site!Deploy, Site!DeployFails, Site!In, SiteInv
<1>4. QED BY <1>2, <1>3 DEF Site!guardCompleteSnapshot, Site!onPage

-----------------------------------------------------------------------------
(* The verification of a release. *)

Kinds     == {"right", "wrong", "missing"}
Documents == [index : 0 .. 3, dir : 0 .. 3, profile : Kinds,
              manifest : [Release!Versions -> Kinds]]

Began == verifier # None

VerifierOK ==
    /\ served \in [Backends -> Documents]
    /\ renamed \in {{}, {1}, {1, 2}}
    /\ findings \in BOOLEAN
    /\ changes \in Nat /\ defects \in Nat
    /\ verifier # None => verifier \in Release!Progress
    /\ verifier = None => ~findings /\ changes = 0

(* The targets that a step of the verification is done with. *)
Done(b) == b \notin verifier.todo /\ b # verifier.target

HasIndex(b)    == served[b].index >= 2
HasManifest(b) == served[b].manifest[2] = "right"
HasProfile(b)  == served[b].dir >= 2 /\ served[b].profile = "right"

(* What was read and found right still is there: another publish only adds. *)
ReadIsServed ==
    Began /\ ~findings =>
        /\ verifier.at = "released" =>
              \A b \in Backends \ verifier.todo : HasIndex(b) /\ (Done(b) => HasManifest(b))
        /\ verifier.at \in {"directory", "answered"} =>
              \A b \in Backends : HasIndex(b) /\ HasManifest(b)
        /\ verifier.at = "directory" =>
              \A b \in Backends \ verifier.todo :
                  served[b].dir >= 2 /\ (Done(b) => served[b].profile = "right")
        /\ verifier.at = "answered" => \A b \in Backends : HasProfile(b)

(* As long as nothing else is written, nothing newer than the release is there. *)
Quiet ==
    changes = 0 =>
        \A b \in Backends : /\ served[b].index <= 2 /\ served[b].dir <= 2
                            /\ served[b].manifest[3] = "missing"

(* Then no finding is false: *)
FindsNothing ==
    changes = 0 /\ Release!Committed =>
        /\ ~findings
        /\ Began => /\ verifier.left \subseteq 1 .. 2
                    /\ \A b \in Backends : verifier.raw[b] \in {0, 2}
                    /\ verifier.reference \in {0, 2}

(* and none is missing, of the indexes, *)
Listed(b) ==
    /\ served[b].index # 0
    /\ \A v \in 1 .. served[b].index :
          \/ b = verifier.target /\ v \in verifier.left
          \/ served[b].manifest[v] = "right" /\ ~(v = 2 /\ 2 \in renamed)

FindsIndexes ==
    changes = 0 /\ Began /\ ~findings =>
        \A b \in Backends : \/ verifier.at = "indexes" /\ b \in verifier.todo
                            \/ verifier.at = "indexes" /\ Listed(b)
                            \/ verifier.at # "indexes" /\ \A v \in 1 .. served[b].index :
                                  served[b].manifest[v] = "right" /\ ~(v = 2 /\ 2 \in renamed)

VerifyInv ==
    /\ VerifierOK
    /\ ReadIsServed
    /\ Quiet /\ FindsNothing /\ FindsIndexes

(* What the backends serve before the publish is whole, and nothing has been read. *)
LEMMA VerifyStarts ==
    ASSUME Release!VerifyInit PROVE VerifyInv
<1>1. Release!Whole \in Documents /\ Release!Whole.index = 2 /\ Release!Whole.dir = 2
      /\ Release!Whole.manifest[3] = "missing"
  BY DEF Release!Whole, Documents, Kinds, Release!Versions
<1>2. VerifierOK
  BY <1>1 DEF Release!VerifyInit, VerifierOK
<1>3. Quiet
  BY <1>1 DEF Release!VerifyInit, Quiet
<1>4. QED
  BY <1>2, <1>3 DEF VerifyInv, Release!VerifyInit, ReadIsServed, FindsNothing, FindsIndexes, Began

(* A publish left a backend with a defect: no verification has begun, and what it is
   counts as a defect. *)
LEMMA CommitLeaves ==
    ASSUME VerifyInv, NEW b \in Backends, Release!Leave(b) PROVE VerifyInv'
<1>1. /\ verifier = None /\ UNCHANGED <<renamed, verifier, findings, changes>>
      /\ defects' = defects + 1
  BY DEF Release!Leave
<1>2. PICK new \in Documents : /\ served' = [served EXCEPT ![b] = new]
                               /\ new.index <= 2 /\ new.dir <= 2
                               /\ new.manifest[3] = "missing"
  <2>1. served[b] \in Documents /\ served[b].index <= 2 /\ served[b].dir <= 2
        /\ served[b].manifest[3] = "missing"
    BY <1>1 DEF VerifyInv, VerifierOK, Quiet
  <2>2. PICK s \in 0 .. 1, kind \in {"missing", "wrong"}, v \in 1 .. 2 :
           served' \in {[served EXCEPT ![b].index = s], [served EXCEPT ![b].dir = s],
                        [served EXCEPT ![b].profile = kind],
                        [served EXCEPT ![b].manifest[v] = kind]}
    BY DEF Release!Leave
  <2>3. /\ [served[b] EXCEPT !.index = s] \in Documents
        /\ [served[b] EXCEPT !.dir = s] \in Documents
        /\ [served[b] EXCEPT !.profile = kind] \in Documents
    BY <2>1 DEF Documents, Kinds
  <2>4. [served[b].manifest EXCEPT ![v] = kind] \in [Release!Versions -> Kinds]
        /\ [served[b].manifest EXCEPT ![v] = kind][3] = "missing"
    BY <2>1 DEF Documents, Kinds, Release!Versions
  <2> DEFINE m == [served[b].manifest EXCEPT ![v] = kind]
  <2>5. [served EXCEPT ![b].manifest[v] = kind] = [served EXCEPT ![b] = [served[b] EXCEPT !.manifest = m]]
    BY DEF VerifyInv, VerifierOK
  <2> HIDE DEF m
  <2>6. [served[b] EXCEPT !.manifest = m] \in Documents
    BY <2>1, <2>4 DEF Documents, m
  <2>7. CASE served' = [served EXCEPT ![b].manifest[v] = kind]
    <3>1. [served[b] EXCEPT !.manifest = m].manifest = m /\ m[3] = "missing"
      BY <2>1, <2>4 DEF Documents, m
    <3>2. [served[b] EXCEPT !.manifest = m].index = served[b].index
          /\ [served[b] EXCEPT !.manifest = m].dir = served[b].dir
      BY <2>1 DEF Documents
    <3>3. QED BY <2>1, <2>5, <2>6, <2>7, <3>1, <3>2
  <2>8. CASE served' # [served EXCEPT ![b].manifest[v] = kind]
    BY <2>1, <2>2, <2>3, <2>8 DEF Documents
  <2>9. QED BY <2>7, <2>8
<1>3. VerifierOK'
  BY <1>1, <1>2 DEF VerifyInv, VerifierOK
<1>4. Quiet'
  BY <1>1, <1>2 DEF VerifyInv, VerifierOK, Quiet
<1>5. QED
  BY <1>1, <1>3, <1>4 DEF VerifyInv, VerifierOK, ReadIsServed, FindsNothing, FindsIndexes, Began

(* Another publish adds a version, or replaces a directory, behind a reader. *)
LEMMA AnotherPublishes ==
    ASSUME VerifyInv, NEW b \in Backends, Release!PublishNext(b) PROVE VerifyInv'
<1>1. /\ verifier # None /\ UNCHANGED <<renamed, verifier, findings, defects>>
      /\ changes' = changes + 1 /\ changes' \in Nat /\ changes' # 0
  BY DEF Release!PublishNext, VerifyInv, VerifierOK
<1>2. served[b] \in Documents
  BY DEF VerifyInv, VerifierOK
<1>3. PICK new \in Documents :
           /\ served' = [served EXCEPT ![b] = new]
           /\ new.index >= served[b].index /\ new.dir >= served[b].dir
           /\ new.profile = served[b].profile /\ new.manifest[2] = served[b].manifest[2]
  <2>1. CASE served' = [served EXCEPT ![b].manifest[3] = "right", ![b].index = 3] /\ served[b].index = 2
    <3> DEFINE m == [served[b].manifest EXCEPT ![3] = "right"]
               half == [served[b] EXCEPT !.manifest = m]
               document == [half EXCEPT !.index = 3]
    <3>1. m \in [Release!Versions -> Kinds] /\ m[2] = served[b].manifest[2]
      BY <1>2 DEF Documents, Kinds, Release!Versions
    <3>2. served' = [served EXCEPT ![b] = document]
      BY <1>2, <2>1 DEF VerifyInv, VerifierOK, Documents
    <3> HIDE DEF m
    <3>3. /\ half \in Documents /\ half.dir = served[b].dir
          /\ half.profile = served[b].profile /\ half.manifest = m
      BY <1>2, <3>1 DEF Documents
    <3> HIDE DEF half
    <3>4. /\ document \in Documents /\ document.index = 3 /\ document.dir = served[b].dir
          /\ document.profile = served[b].profile /\ document.manifest = m
      BY <3>3 DEF Documents
    <3> HIDE DEF document
    <3>5. document.index >= served[b].index /\ document.dir >= served[b].dir
      BY <1>2, <2>1, <3>4 DEF Documents
    <3>6. QED BY <3>1, <3>2, <3>3, <3>4, <3>5
  <2>2. CASE served' = [served EXCEPT ![b].dir = 3] /\ served[b].dir = 2
    <3> DEFINE document == [served[b] EXCEPT !.dir = 3]
    <3>1. served' = [served EXCEPT ![b] = document]
      BY <1>2, <2>2 DEF VerifyInv, VerifierOK, Documents
    <3>2. /\ document \in Documents /\ document.index = served[b].index /\ document.dir = 3
          /\ document.profile = served[b].profile /\ document.manifest = served[b].manifest
      BY <1>2 DEF Documents
    <3> HIDE DEF document
    <3>3. document.index >= served[b].index /\ document.dir >= served[b].dir
      BY <1>2, <2>2, <3>2 DEF Documents
    <3>4. QED BY <3>1, <3>2, <3>3
  <2>3. QED BY <2>1, <2>2 DEF Release!PublishNext
<1>4. VerifierOK'
  BY <1>1, <1>3 DEF VerifyInv, VerifierOK
<1>5. ASSUME NEW c \in Backends
      PROVE  /\ HasIndex(c) => HasIndex(c)'
             /\ HasManifest(c) => HasManifest(c)'
             /\ HasProfile(c) => HasProfile(c)'
             /\ served[c].dir >= 2 => served'[c].dir >= 2
             /\ served'[c].profile = served[c].profile
             /\ Done(c)' = Done(c)
  <2>1. served[c] \in Documents /\ served'[c] = IF c = b THEN new ELSE served[c]
    BY <1>3 DEF VerifyInv, VerifierOK
  <2>2. QED BY <1>1, <1>3, <2>1 DEF Documents, HasIndex, HasManifest, HasProfile, Done
<1>6. ReadIsServed'
  BY <1>1, <1>5 DEF VerifyInv, ReadIsServed, Began
<1>7. QED BY <1>1, <1>4, <1>6 DEF VerifyInv, Quiet, FindsNothing, FindsIndexes

(* What a reading step leaves alone. *)
LEMMA ReadingOnly ==
    ASSUME VerifyInv, Release!Read, verifier' \in Release!Progress,
           findings' \in BOOLEAN
    PROVE  /\ VerifierOK' /\ Quiet' /\ Began'
           /\ \A b \in Backends : /\ HasIndex(b)' = HasIndex(b)
                                  /\ HasManifest(b)' = HasManifest(b)
                                  /\ HasProfile(b)' = HasProfile(b)
           /\ Release!Committed' = Release!Committed
           /\ UNCHANGED <<served, renamed, changes>>
BY ProgressAssumption
   DEF VerifyInv, VerifierOK, Release!Read, Quiet, Began, HasIndex, HasManifest, HasProfile,
       Release!Committed

(* run: a verification starts with every backend to read. *)
LEMMA VerifyBegins ==
    ASSUME VerifyInv, Release!Begin PROVE VerifyInv'
<1> DEFINE new == [at |-> "indexes", todo |-> Backends, target |-> None, left |-> {},
                   raw |-> [b \in Backends |-> 0], reference |-> 0]
<1>1. verifier' = new /\ verifier = None /\ Release!Read
  BY DEF Release!Begin
<1>2. ~findings /\ findings' = FALSE
  BY <1>1 DEF Release!Begin, Release!Find, VerifyInv, VerifierOK
<1>3. /\ new \in Release!Progress /\ new.at = "indexes" /\ new.todo = Backends /\ new.left = {}
      /\ new.reference = 0 /\ \A b \in Backends : new.raw[b] = 0
  BY DEF Release!Progress
<1> HIDE DEF new
<1>4. verifier' # None
  BY <1>1, <1>3, ProgressAssumption
<1>5. findings' \in BOOLEAN
  BY <1>2
<1>6. /\ VerifierOK' /\ Quiet' /\ Began' /\ UNCHANGED <<served, renamed, changes>>
  BY <1>1, <1>3, <1>4, <1>5, ReadingOnly
<1>7. ReadIsServed'
  BY <1>1, <1>3 DEF ReadIsServed
<1>8. FindsNothing'
  BY <1>1, <1>2, <1>3 DEF FindsNothing
<1>9. FindsIndexes'
  BY <1>1, <1>3 DEF FindsIndexes
<1>10. QED BY <1>6, <1>7, <1>8, <1>9 DEF VerifyInv

(* What a whole commit serves. *)
LEMMA CommittedServes ==
    ASSUME Release!Committed, NEW b \in Backends
    PROVE  /\ served[b].index = 2 /\ served[b].dir = 2 /\ served[b].profile = "right"
           /\ \A v \in 1 .. 2 : served[b].manifest[v] = "right"
           /\ 2 \notin renamed
<1>1. served[b] = Release!Whole /\ 2 \notin renamed
  BY DEF Release!Committed, Release!Released
<1>2. /\ Release!Whole.index = 2 /\ Release!Whole.dir = 2 /\ Release!Whole.profile = "right"
      /\ \A v \in 1 .. 2 : Release!Whole.manifest[v] = "right"
  BY DEF Release!Whole, Release!Versions
<1>3. QED BY <1>1, <1>2

(* The indexes are read one after the other, each with the manifests that it
   lists. *)
LEMMA VerifyReadsIndex ==
    ASSUME VerifyInv, NEW b \in Backends, Release!ReadIndex(b) PROVE VerifyInv'
<1> DEFINE s == served[b].index
           target == IF s = 0 THEN None ELSE b
           new == [verifier EXCEPT !.raw[b] = s, !.todo = @ \ {b}, !.target = target,
                                   !.left = 1 .. s]
<1>1. /\ verifier \in Release!Progress /\ verifier.at = "indexes" /\ Began
      /\ verifier.target = None /\ b \in verifier.todo
      /\ verifier' = new /\ Release!Read /\ findings' = (findings \/ s = 0)
  BY DEF Release!ReadIndex, Release!At, Release!Find, VerifyInv, VerifierOK, Began
<1>2. s \in 0 .. 3 /\ served[b] \in Documents
  BY DEF VerifyInv, VerifierOK, Documents
<1>3. 1 .. s \in SUBSET Release!Versions /\ (s = 2 => 1 .. s = 1 .. 2)
  BY <1>2 DEF Release!Versions
<1>4. target \in Backends \cup {None}
  OBVIOUS
<1> HIDE DEF target
<1>5. [verifier.raw EXCEPT ![b] = s] \in [Backends -> 0 .. 3]
  BY <1>1, <1>2 DEF Release!Progress
<1>6. /\ new \in Release!Progress /\ new.at = "indexes" /\ new.target = target
      /\ new.todo = verifier.todo \ {b} /\ new.left = 1 .. s
      /\ new.reference = verifier.reference /\ new.raw = [verifier.raw EXCEPT ![b] = s]
  BY <1>1, <1>2, <1>3, <1>4, <1>5 DEF Release!Progress
<1> HIDE DEF new
<1>7. findings' \in BOOLEAN BY <1>1, <1>2 DEF VerifyInv, VerifierOK
<1>8. /\ VerifierOK' /\ Quiet' /\ Began' /\ Release!Committed' = Release!Committed
      /\ UNCHANGED <<served, renamed, changes>>
  BY <1>1, <1>6, <1>7, ReadingOnly
<1>9. ReadIsServed' BY <1>1, <1>6 DEF ReadIsServed
<1>10. FindsNothing'
  <2> SUFFICES ASSUME changes = 0, Release!Committed
               PROVE  /\ ~findings'
                      /\ new.left \subseteq 1 .. 2 /\ new.reference \in {0, 2}
                      /\ \A c \in Backends : new.raw[c] \in {0, 2}
    BY <1>1, <1>8 DEF FindsNothing
  <2>1. s = 2 BY CommittedServes
  <2>2. /\ ~findings /\ verifier.reference \in {0, 2}
        /\ \A c \in Backends : verifier.raw[c] \in {0, 2}
    BY <1>1 DEF VerifyInv, FindsNothing
  <2>3. \A c \in Backends : new.raw[c] \in {0, 2}
    BY <1>1, <1>6, <2>1, <2>2 DEF Release!Progress
  <2> HIDE DEF s
  <2>4. s # 0 BY <2>1
  <2>5. ~findings' BY <1>1, <2>2, <2>4
  <2>6. new.left = 1 .. 2 /\ new.reference = verifier.reference BY <1>3, <1>6, <2>1
  <2>7. QED BY <2>2, <2>3, <2>5, <2>6
<1>11. FindsIndexes'
  <2> SUFFICES ASSUME changes = 0, ~findings', NEW c \in Backends, c \notin new.todo
               PROVE  Listed(c)'
    BY <1>1, <1>6, <1>8 DEF FindsIndexes
  <2>1. ~findings /\ s # 0 BY <1>1
  <2>2. CASE c = b
    BY <1>1, <1>6, <1>8, <2>1, <2>2 DEF Listed, target
  <2>3. CASE c # b
    <3>1. Listed(c) BY <1>1, <1>6, <2>1, <2>3 DEF VerifyInv, FindsIndexes
    <3>2. QED BY <1>1, <1>8, <3>1, ReleaseAssumption DEF Listed
  <2>4. QED BY <2>2, <2>3
<1>12. QED BY <1>8, <1>9, <1>10, <1>11 DEF VerifyInv

(* checkManifest: a manifest that is not right becomes a finding. *)
LEMMA VerifyReadsManifest ==
    ASSUME VerifyInv, NEW v \in Release!Versions, Release!checkManifest(v) PROVE VerifyInv'
<1> DEFINE t == verifier.target
           target == IF verifier.left = {v} THEN None ELSE t
           left == verifier.left \ {v}
           new == [verifier EXCEPT !.left = left, !.target = target]
           error == (v = 2 /\ v \in renamed) \/ served[t].manifest[v] # "right"
<1>1. /\ verifier \in Release!Progress /\ verifier.at = "indexes" /\ Began
      /\ t # None /\ t \in Backends /\ v \in verifier.left
      /\ verifier' = new /\ Release!Read /\ findings' = (findings \/ error)
  BY DEF Release!checkManifest, Release!checkDeclaredURL, Release!Released, Release!At,
         Release!Find, VerifyInv, VerifierOK, Began, Release!Progress
<1>2. target \in Backends \cup {None} /\ left \subseteq verifier.left
  BY <1>1
<1>3. (target = t /\ left = verifier.left \ {v}) \/ (left = {} /\ target = None)
  BY <1>1
<1> HIDE DEF target, left
<1>4. /\ new \in Release!Progress /\ new.at = "indexes" /\ new.target = target
      /\ new.todo = verifier.todo /\ new.left = left
      /\ new.reference = verifier.reference /\ new.raw = verifier.raw
  BY <1>1, <1>2 DEF Release!Progress
<1> HIDE DEF new
<1>5. findings' \in BOOLEAN BY <1>1 DEF VerifyInv, VerifierOK
<1>6. /\ VerifierOK' /\ Quiet' /\ Began' /\ Release!Committed' = Release!Committed
      /\ UNCHANGED <<served, renamed, changes>>
  BY <1>1, <1>4, <1>5, ReadingOnly
<1>7. ReadIsServed' BY <1>1, <1>4 DEF ReadIsServed
<1>8. FindsNothing'
  <2> SUFFICES ASSUME changes = 0, Release!Committed
               PROVE  /\ ~findings'
                      /\ new.left \subseteq 1 .. 2 /\ new.reference \in {0, 2}
                      /\ \A c \in Backends : new.raw[c] \in {0, 2}
    BY <1>1, <1>6 DEF FindsNothing
  <2>1. v \in 1 .. 2 BY <1>1 DEF VerifyInv, FindsNothing
  <2>2. ~error
    BY <1>1, <2>1, CommittedServes
  <2>3. QED BY <1>1, <1>2, <1>4, <2>2 DEF VerifyInv, FindsNothing
<1>9. FindsIndexes'
  <2> SUFFICES ASSUME changes = 0, ~findings', NEW c \in Backends, c \notin new.todo
               PROVE  Listed(c)'
    BY <1>1, <1>4, <1>6 DEF FindsIndexes
  <2>1. ~findings /\ ~error BY <1>1
  <2>2. Listed(c) BY <1>1, <1>4, <2>1 DEF VerifyInv, FindsIndexes
  <2>3. ASSUME NEW w \in 1 .. served[c].index
        PROVE  \/ c = target /\ w \in left
               \/ served[c].manifest[w] = "right" /\ ~(w = 2 /\ 2 \in renamed)
    BY <1>1, <1>3, <2>1, <2>2, <2>3 DEF Listed, left, target
  <2>4. QED BY <1>1, <1>4, <1>6, <2>2, <2>3 DEF Listed
<1>10. QED BY <1>6, <1>7, <1>8, <1>9 DEF VerifyInv

(* The indexes are compared, then the release is looked for in each. *)
LEMMA VerifyCompares ==
    ASSUME VerifyInv, Release!Compare PROVE VerifyInv'
<1> DEFINE new == [verifier EXCEPT !.at = "released", !.todo = Backends]
           error == \E b, c \in {x \in Backends : verifier.raw[x] # 0} :
                        verifier.raw[b] # verifier.raw[c]
<1>1. /\ verifier \in Release!Progress /\ verifier.at = "indexes" /\ Began
      /\ verifier.target = None /\ verifier.todo = {}
      /\ verifier' = new /\ Release!Read /\ findings' = (findings \/ error)
  BY DEF Release!Compare, Release!At, Release!Find, VerifyInv, VerifierOK, Began
<1>2. /\ new \in Release!Progress /\ new.at = "released" /\ new.todo = Backends
      /\ new.left = verifier.left /\ new.reference = verifier.reference
      /\ new.raw = verifier.raw
  BY <1>1 DEF Release!Progress
<1> HIDE DEF new
<1>3. findings' \in BOOLEAN BY <1>1 DEF VerifyInv, VerifierOK
<1>4. /\ VerifierOK' /\ Quiet' /\ Began' /\ Release!Committed' = Release!Committed
      /\ UNCHANGED <<served, renamed, changes>>
  BY <1>1, <1>2, <1>3, ReadingOnly
<1>5. ReadIsServed' BY <1>1, <1>2 DEF ReadIsServed
<1>6. FindsNothing'
  <2> SUFFICES ASSUME changes = 0, Release!Committed
               PROVE  /\ ~findings'
                      /\ new.left \subseteq 1 .. 2 /\ new.reference \in {0, 2}
                      /\ \A c \in Backends : new.raw[c] \in {0, 2}
    BY <1>1, <1>4 DEF FindsNothing
  <2>1. /\ ~findings /\ verifier.reference \in {0, 2} /\ verifier.left \subseteq 1 .. 2
        /\ \A c \in Backends : verifier.raw[c] \in {0, 2}
    BY <1>1 DEF VerifyInv, FindsNothing
  <2>2. ~error BY <2>1
  <2> HIDE DEF error
  <2>3. QED BY <1>1, <1>2, <2>1, <2>2
<1>7. FindsIndexes'
  <2> SUFFICES ASSUME changes = 0, ~findings', NEW c \in Backends,
                      NEW v \in 1 .. served[c].index
               PROVE  served[c].manifest[v] = "right" /\ ~(v = 2 /\ 2 \in renamed)
    BY <1>1, <1>2, <1>4 DEF FindsIndexes
  <2>1. ~findings BY <1>1
  <2>2. Listed(c) BY <1>1, <2>1 DEF VerifyInv, FindsIndexes
  <2>3. QED BY <1>1, <2>2, ReleaseAssumption DEF Listed
<1>8. QED BY <1>4, <1>5, <1>6, <1>7 DEF VerifyInv

(* A step after the indexes changes neither the raw indexes nor what is left of
   one; it has no false finding if it has none with a whole commit. *)
LEMMA AfterIndexes ==
    ASSUME VerifyInv, Release!Read, NEW error \in BOOLEAN, findings' = (findings \/ error),
           Began, verifier.at # "indexes", verifier' \in Release!Progress,
           verifier'.at # "indexes", verifier'.raw = verifier.raw,
           verifier'.left = verifier.left,
           changes = 0 /\ Release!Committed /\ verifier.reference \in {0, 2} =>
               ~error /\ verifier'.reference \in {0, 2},
           ReadIsServed'
    PROVE  VerifyInv'
<1>1. findings' \in BOOLEAN BY DEF VerifyInv, VerifierOK
<1>2. /\ VerifierOK' /\ Quiet' /\ Began' /\ Release!Committed' = Release!Committed
      /\ UNCHANGED <<served, renamed, changes>>
  BY <1>1, ReadingOnly
<1>3. FindsNothing'
  <2>1. CASE changes = 0 /\ Release!Committed
    <3>1. /\ ~findings /\ verifier.reference \in {0, 2} /\ verifier.left \subseteq 1 .. 2
          /\ \A c \in Backends : verifier.raw[c] \in {0, 2}
      BY <2>1 DEF VerifyInv, FindsNothing
    <3>2. ~error /\ verifier'.reference \in {0, 2} BY <2>1, <3>1
    <3>3. QED BY <3>1, <3>2 DEF FindsNothing
  <2>2. CASE ~(changes = 0 /\ Release!Committed)
    BY <1>2, <2>2 DEF FindsNothing
  <2>3. QED BY <2>1, <2>2
<1>4. FindsIndexes'
  <2> SUFFICES ASSUME changes = 0, ~findings', NEW c \in Backends,
                      NEW v \in 1 .. served[c].index
               PROVE  served[c].manifest[v] = "right" /\ ~(v = 2 /\ 2 \in renamed)
    BY <1>2 DEF FindsIndexes
  <2>1. ~findings OBVIOUS
  <2>2. QED BY <2>1 DEF VerifyInv, FindsIndexes
<1>5. QED BY <1>2, <1>3, <1>4 DEF VerifyInv

(* FindReleased: the release is looked up on the next backend. *)
LEMMA VerifyFinds ==
    ASSUME VerifyInv, NEW b \in Backends, Release!FindReleased(b) PROVE VerifyInv'
<1> DEFINE found == served[b].index >= 2
           target == IF found THEN b ELSE None
           new == [verifier EXCEPT !.todo = @ \ {b}, !.target = target]
<1>1. /\ verifier \in Release!Progress /\ verifier.at = "released" /\ Began
      /\ verifier.target = None /\ b \in verifier.todo
      /\ verifier' = new /\ Release!Read /\ findings' = (findings \/ ~found)
  BY DEF Release!FindReleased, Release!Released, Release!At, Release!Find, VerifyInv,
         VerifierOK, Began
<1>2. target \in Backends \cup {None} /\ (found => target = b) OBVIOUS
<1> HIDE DEF target
<1>3. /\ new \in Release!Progress /\ new.at = "released" /\ new.todo = verifier.todo \ {b}
      /\ new.left = verifier.left /\ new.reference = verifier.reference
      /\ new.raw = verifier.raw /\ new.target = target
  BY <1>1, <1>2 DEF Release!Progress
<1> HIDE DEF new
<1>4. served' = served BY <1>1 DEF Release!Read
<1>5. ReadIsServed'
  <2> SUFFICES ASSUME ~findings', NEW c \in Backends, c \notin new.todo
               PROVE  HasIndex(c)' /\ (Done(c)' => HasManifest(c)')
    BY <1>1, <1>3 DEF ReadIsServed
  <2>1. ~findings /\ found BY <1>1
  <2>2. CASE c = b BY <1>1, <1>2, <1>3, <1>4, <2>1, <2>2 DEF HasIndex, Done
  <2>3. CASE c # b
    <3>1. c \notin verifier.todo /\ Done(c)
      BY <1>1, <1>3, <2>3, ReleaseAssumption DEF Done
    <3>2. HasIndex(c) /\ HasManifest(c) BY <1>1, <2>1, <3>1 DEF VerifyInv, ReadIsServed
    <3>3. QED BY <1>4, <3>2 DEF HasIndex, HasManifest
  <2>4. QED BY <2>2, <2>3
<1>6. changes = 0 /\ Release!Committed => found BY CommittedServes
<1>7. (~found) \in BOOLEAN OBVIOUS
<1> HIDE DEF found
<1>8. QED BY <1>1, <1>3, <1>5, <1>6, <1>7, AfterIndexes

(* ReadReleased: the manifest of the release itself. *)
LEMMA VerifyReadsReleased ==
    ASSUME VerifyInv, Release!ReadReleased PROVE VerifyInv'
<1> DEFINE t == verifier.target
           error == served[t].manifest[2] # "right"
           new == [verifier EXCEPT !.target = None]
<1>1. /\ verifier \in Release!Progress /\ verifier.at = "released" /\ Began
      /\ t \in Backends /\ verifier' = new /\ Release!Read /\ findings' = (findings \/ error)
  BY DEF Release!ReadReleased, Release!Released, Release!At, Release!Find, VerifyInv,
         VerifierOK, Began, Release!Progress
<1>2. /\ new \in Release!Progress /\ new.at = "released" /\ new.todo = verifier.todo
      /\ new.left = verifier.left /\ new.reference = verifier.reference
      /\ new.raw = verifier.raw
  BY <1>1 DEF Release!Progress
<1> HIDE DEF new
<1>3. served' = served BY <1>1 DEF Release!Read
<1>4. ReadIsServed'
  <2> SUFFICES ASSUME ~findings', NEW c \in Backends, c \notin new.todo
               PROVE  HasIndex(c)' /\ HasManifest(c)'
    BY <1>1, <1>2 DEF ReadIsServed
  <2>1. ~findings /\ ~error BY <1>1
  <2>2. HasIndex(c) /\ (Done(c) => HasManifest(c))
    BY <1>1, <1>2, <2>1 DEF VerifyInv, ReadIsServed
  <2>3. c = t \/ Done(c) BY <1>2 DEF Done
  <2>4. QED BY <1>3, <2>1, <2>2, <2>3 DEF HasIndex, HasManifest
<1>5. changes = 0 /\ Release!Committed => ~error BY <1>1, CommittedServes
<1>6. error \in BOOLEAN OBVIOUS
<1> HIDE DEF error
<1>7. QED BY <1>1, <1>2, <1>4, <1>5, <1>6, AfterIndexes

(* The directories, each with the profile that it names. *)
LEMMA VerifyTurns ==
    ASSUME VerifyInv, Release!AllRead \/ Release!Finish PROVE VerifyInv'
<1>1. /\ verifier \in Release!Progress /\ Began /\ verifier.target = None
      /\ verifier.todo = {} /\ Release!Read
      /\ verifier.at \in {"released", "directory"} /\ findings' = (findings \/ FALSE)
  BY DEF Release!AllRead, Release!Finish, Release!At, Release!Find, VerifyInv, VerifierOK, Began
<1>2. served' = served /\ \A c \in Backends : Done(c)
  BY <1>1, ReleaseAssumption DEF Release!Read, Done
<1>3. CASE Release!AllRead
  <2>1. /\ verifier' \in Release!Progress /\ verifier'.at = "directory"
        /\ verifier'.todo = Backends /\ verifier'.left = verifier.left
        /\ verifier'.reference = verifier.reference /\ verifier'.raw = verifier.raw
        /\ verifier.at = "released"
    BY <1>1, <1>3 DEF Release!AllRead, Release!At, Release!Progress
  <2>2. ReadIsServed'
    <3> SUFFICES ASSUME ~findings', NEW c \in Backends
                 PROVE  HasIndex(c)' /\ HasManifest(c)'
      BY <2>1 DEF ReadIsServed
    <3>1. HasIndex(c) /\ HasManifest(c)
      BY <1>1, <1>2, <2>1 DEF VerifyInv, ReadIsServed
    <3>2. QED BY <1>2, <3>1 DEF HasIndex, HasManifest
  <2>3. QED BY <1>1, <2>1, <2>2, AfterIndexes
<1>4. CASE Release!Finish
  <2>1. /\ verifier' \in Release!Progress /\ verifier'.at = "answered"
        /\ verifier'.left = verifier.left
        /\ verifier'.reference = verifier.reference /\ verifier'.raw = verifier.raw
        /\ verifier.at = "directory"
    BY <1>1, <1>4 DEF Release!Finish, Release!At, Release!Progress
  <2>2. ReadIsServed'
    <3> SUFFICES ASSUME ~findings', NEW c \in Backends
                 PROVE  HasIndex(c)' /\ HasManifest(c)' /\ HasProfile(c)'
      BY <2>1 DEF ReadIsServed
    <3>1. HasIndex(c) /\ HasManifest(c) /\ HasProfile(c)
      BY <1>1, <1>2, <2>1 DEF VerifyInv, ReadIsServed, HasProfile
    <3>2. QED BY <1>2, <3>1 DEF HasIndex, HasManifest, HasProfile
  <2>3. QED BY <1>1, <2>1, <2>2, AfterIndexes
<1>5. QED BY <1>3, <1>4

(* ReadDirectory: the sequence of every backend is compared with the first. *)
LEMMA VerifyReadsDirectory ==
    ASSUME VerifyInv, NEW b \in Backends, Release!ReadDirectory(b) PROVE VerifyInv'
<1> DEFINE d == served[b].dir
           ref == IF verifier.reference = 0 THEN d ELSE verifier.reference
           target == IF d = 2 THEN b ELSE None
           error == d < 2 \/ d # ref \/ d # 2
           new == [verifier EXCEPT !.todo = @ \ {b}, !.reference = ref, !.target = target]
<1>1. /\ verifier \in Release!Progress /\ verifier.at = "directory" /\ Began
      /\ verifier.target = None /\ b \in verifier.todo
      /\ verifier' = new /\ Release!Read /\ findings' = (findings \/ error)
  BY DEF Release!ReadDirectory, Release!At, Release!Find, VerifyInv, VerifierOK, Began
<1>2. d \in 0 .. 3 /\ ref \in 0 .. 3
  BY <1>1 DEF VerifyInv, VerifierOK, Documents, Release!Progress
<1>3. target \in Backends \cup {None} /\ (~error => d = 2 /\ target = b) OBVIOUS
<1>4. changes = 0 /\ Release!Committed /\ verifier.reference \in {0, 2}
        => ~error /\ ref \in {0, 2}
  BY CommittedServes
<1>5. error \in BOOLEAN OBVIOUS
<1> HIDE DEF target, ref, error
<1>6. /\ new \in Release!Progress /\ new.at = "directory" /\ new.todo = verifier.todo \ {b}
      /\ new.left = verifier.left /\ new.reference = ref
      /\ new.raw = verifier.raw /\ new.target = target
  BY <1>1, <1>2, <1>3 DEF Release!Progress
<1> HIDE DEF new
<1>7. served' = served BY <1>1 DEF Release!Read
<1>8. ReadIsServed'
  <2> SUFFICES ASSUME ~findings', NEW c \in Backends
               PROVE  /\ HasIndex(c)' /\ HasManifest(c)'
                      /\ c \notin new.todo => /\ served[c].dir >= 2
                                              /\ Done(c)' => served[c].profile = "right"
    BY <1>1, <1>6, <1>7 DEF ReadIsServed
  <2>1. ~findings /\ ~error BY <1>1
  <2>2. HasIndex(c) /\ HasManifest(c)
    BY <1>1, <2>1 DEF VerifyInv, ReadIsServed
  <2>3. CASE c = b
    <3>1. d >= 2 /\ ~Done(c)' BY <1>1, <1>3, <1>6, <2>1, <2>3 DEF Done
    <3>2. QED BY <1>7, <2>2, <2>3, <3>1 DEF HasIndex, HasManifest
  <2>4. CASE c # b /\ c \notin new.todo
    <3>1. c \notin verifier.todo /\ Done(c)
      BY <1>1, <1>6, <2>4, ReleaseAssumption DEF Done
    <3>2. served[c].dir >= 2 /\ served[c].profile = "right"
      BY <1>1, <2>1, <3>1 DEF VerifyInv, ReadIsServed
    <3>3. QED BY <1>7, <2>2, <3>2 DEF HasIndex, HasManifest
  <2>5. CASE c \in new.todo
    BY <1>7, <2>2, <2>5 DEF HasIndex, HasManifest
  <2>6. QED BY <2>3, <2>4, <2>5
<1>9. QED BY <1>1, <1>4, <1>5, <1>6, <1>8, AfterIndexes

(* ReadProfile: the runtime profile the directory names. *)
LEMMA VerifyReadsProfile ==
    ASSUME VerifyInv, Release!ReadProfile PROVE VerifyInv'
<1> DEFINE t == verifier.target
           error == served[t].profile # "right"
           new == [verifier EXCEPT !.target = None]
<1>1. /\ verifier \in Release!Progress /\ verifier.at = "directory" /\ Began
      /\ t \in Backends /\ verifier' = new /\ Release!Read /\ findings' = (findings \/ error)
  BY DEF Release!ReadProfile, Release!At, Release!Find, VerifyInv, VerifierOK, Began,
         Release!Progress
<1>2. /\ new \in Release!Progress /\ new.at = "directory" /\ new.todo = verifier.todo
      /\ new.left = verifier.left /\ new.reference = verifier.reference
      /\ new.raw = verifier.raw
  BY <1>1 DEF Release!Progress
<1> HIDE DEF new
<1>3. served' = served BY <1>1 DEF Release!Read
<1>4. ReadIsServed'
  <2> SUFFICES ASSUME ~findings', NEW c \in Backends
               PROVE  /\ HasIndex(c)' /\ HasManifest(c)'
                      /\ c \notin new.todo => served[c].dir >= 2 /\ served[c].profile = "right"
    BY <1>1, <1>2, <1>3 DEF ReadIsServed
  <2>1. ~findings /\ ~error BY <1>1
  <2>2. /\ HasIndex(c) /\ HasManifest(c)
        /\ c \notin verifier.todo => /\ served[c].dir >= 2
                                     /\ Done(c) => served[c].profile = "right"
    BY <1>1, <2>1 DEF VerifyInv, ReadIsServed
  <2>3. c \notin verifier.todo => c = t \/ Done(c) BY DEF Done
  <2>4. QED BY <1>2, <1>3, <2>1, <2>2, <2>3 DEF HasIndex, HasManifest
<1>5. changes = 0 /\ Release!Committed => ~error BY <1>1, CommittedServes
<1>6. error \in BOOLEAN OBVIOUS
<1> HIDE DEF error
<1>7. QED BY <1>1, <1>2, <1>4, <1>5, <1>6, AfterIndexes

(* Every step of the verification, beside another publish and one that leaves a defect. *)
LEMMA VerifyStep ==
    ASSUME VerifyInv, Release!VerifyNext PROVE VerifyInv'
<1>1. ASSUME NEW b \in Backends, Release!Leave(b) PROVE VerifyInv'
  BY <1>1, CommitLeaves
<1>2. ASSUME NEW b \in Backends, Release!PublishNext(b) PROVE VerifyInv'
  BY <1>2, AnotherPublishes
<1>3. ASSUME NEW b \in Backends, Release!ReadIndex(b) PROVE VerifyInv'
  BY <1>3, VerifyReadsIndex
<1>4. ASSUME NEW b \in Backends, Release!FindReleased(b) PROVE VerifyInv'
  BY <1>4, VerifyFinds
<1>5. ASSUME NEW b \in Backends, Release!ReadDirectory(b) PROVE VerifyInv'
  BY <1>5, VerifyReadsDirectory
<1>6. ASSUME NEW v \in Release!Versions, Release!checkManifest(v) PROVE VerifyInv'
  BY <1>6, VerifyReadsManifest
<1>7. QED
  BY <1>1, <1>2, <1>3, <1>4, <1>5, <1>6, VerifyBegins, VerifyCompares, VerifyReadsReleased,
     VerifyTurns, VerifyReadsProfile
     DEF Release!VerifyNext

(* What is answered of a release is so. *)
LEMMA VerdictIsTrue ==
    ASSUME VerifyInv PROVE Release!VerdictHolds
<1> SUFFICES ASSUME Release!At("answered")
             PROVE  /\ ~findings => \A b \in Backends : Release!Serves(b)
                    /\ changes = 0 => (findings <=> ~Release!Committed)
  BY DEF Release!VerdictHolds
<1>1. Began /\ verifier.at = "answered" BY DEF Release!At, Began
<1>2. ~findings => \A b \in Backends : HasIndex(b) /\ HasManifest(b) /\ HasProfile(b)
  BY <1>1 DEF VerifyInv, ReadIsServed
<1>3. ~findings => \A b \in Backends : Release!Serves(b)
  BY <1>2 DEF HasIndex, HasManifest, HasProfile, Release!Serves, Release!Released
<1>4. ASSUME changes = 0, ~findings PROVE Release!Committed
  <2>1. ASSUME NEW b \in Backends
        PROVE  served[b] = Release!Whole /\ 2 \notin renamed
    <3>1. /\ served[b] \in Documents /\ served[b].index <= 2 /\ served[b].dir <= 2
          /\ served[b].manifest[3] = "missing"
      BY <1>4 DEF VerifyInv, VerifierOK, Quiet
    <3>2. HasIndex(b) /\ HasManifest(b) /\ HasProfile(b) BY <1>2, <1>4
    <3>3. /\ served[b].index = 2 /\ served[b].dir = 2 /\ served[b].profile = "right"
      BY <3>1, <3>2 DEF Documents, HasIndex, HasProfile
    <3>4. \A v \in 1 .. served[b].index :
              served[b].manifest[v] = "right" /\ ~(v = 2 /\ 2 \in renamed)
      BY <1>1, <1>4 DEF VerifyInv, FindsIndexes
    <3>5. served[b].manifest[1] = "right" /\ served[b].manifest[2] = "right" /\ 2 \notin renamed
      BY <3>3, <3>4
    <3>6. served[b].manifest = [v \in Release!Versions |-> IF v <= 2 THEN "right" ELSE "missing"]
      BY <3>1, <3>5 DEF Documents, Release!Versions
    <3>7. QED BY <3>1, <3>3, <3>5, <3>6 DEF Documents, Release!Whole
  <2>2. QED BY <2>1, ReleaseAssumption DEF Release!Committed, Release!Released
<1>5. ASSUME changes = 0, Release!Committed PROVE ~findings
  BY <1>5 DEF VerifyInv, FindsNothing
<1>6. QED BY <1>3, <1>4, <1>5

-----------------------------------------------------------------------------
(* The directory and the index that a check looks for. *)

Indexes == [seq : Nat, at : Nat]

Jobs == [to : SUBSET Backends, services : ServiceLists, left : SUBSET Backends, seq : Nat,
         partial : BOOLEAN, phase : {"read", "index", "set", "directory"}]

(* The sequence that a job writes is above what its targets have. *)
DirectoryInv ==
    /\ directory \in [Backends -> Check!Document \cup {None}]
    /\ index \in [Backends -> Indexes]
    /\ jobs \in Nat
    /\ job # None =>
          /\ job \in Jobs /\ job.left \subseteq job.to
          /\ job.phase = "index" =>
                job.seq > 0 /\ \A b \in job.to : index[b].seq <= job.seq
          /\ job.phase = "directory" =>
                \A b \in job.to : directory[b] # None => directory[b].seq <= job.seq

(* What a target serves only gets newer. *)
OnlyNewer ==
    \A b \in Backends :
        /\ directory[b] # None => directory'[b] # None /\ directory[b].seq <= directory'[b].seq
        /\ index[b] # Check!NoIndex => index'[b] # Check!NoIndex
        /\ index[b].seq <= index'[b].seq

(* Targets that agree have one sequence, which is the base of the next. *)
LEMMA BaseSequence ==
    ASSUME DirectoryInv, NEW to \in SUBSET Backends, Check!Agree(directory, to)
    PROVE  /\ Check!readBaseSequence(to) \in Nat
           /\ \A b \in to : directory[b] # None => directory[b].seq <= Check!readBaseSequence(to)
<1> DEFINE S == {0} \cup {directory[b].seq : b \in {c \in to : directory[c] # None}}
<1>1. ASSUME NEW b \in to, directory[b] # None PROVE directory[b].seq \in Nat
  BY <1>1 DEF DirectoryInv, Check!Document
<1>2. \A x, y \in S : x \in Nat /\ (x = 0 \/ y = 0 \/ x = y)
  BY <1>1 DEF Check!Agree
<1>3. PICK x \in S : \A y \in S : x >= y
  <2>1. CASE \E y \in S : y # 0
    BY <1>2, <2>1
  <2>2. CASE \A y \in S : y = 0
    BY <2>2
  <2>3. QED BY <2>1, <2>2
<1>4. Check!readBaseSequence(to) \in S
      /\ \A y \in S : Check!readBaseSequence(to) >= y
  BY <1>3 DEF Check!readBaseSequence, Check!Max
<1>5. \A b \in to : directory[b] # None => directory[b].seq \in S
  OBVIOUS
<1> HIDE DEF S
<1>6. QED BY <1>2, <1>4, <1>5

(* A job takes the product lock, plans, and ends. *)
LEMMA JobTurns ==
    ASSUME DirectoryInv,
           \/ \E kind \in {"publish", "resign", "ensure"}, to \in (SUBSET Backends) \ {{}},
                 s \in ServiceLists : Check!Begin(kind, to, s)
           \/ Check!PlanIndex \/ Check!Set \/ Check!JobEnds
    PROVE  DirectoryInv' /\ OnlyNewer
<1>1. UNCHANGED <<directory, index>>
  BY DEF Check!Begin, Check!PlanIndex, Check!Set, Check!JobEnds, Check!published
<1>2. OnlyNewer BY <1>1 DEF OnlyNewer, DirectoryInv, Indexes, Check!Document
<1>3. jobs' \in Nat
  BY DEF Check!Begin, Check!PlanIndex, Check!Set, Check!JobEnds, DirectoryInv
<1>4. ASSUME NEW kind \in {"publish", "resign", "ensure"}, NEW to \in SUBSET Backends,
             NEW s \in ServiceLists, Check!Begin(kind, to, s)
      PROVE  DirectoryInv'
  <2> DEFINE new == [to |-> to, services |-> s, left |-> to, seq |-> 0, partial |-> FALSE,
                     phase |-> IF kind = "publish" THEN "read" ELSE "set"]
  <2>1. job' = new BY <1>4 DEF Check!Begin
  <2>2. new \in Jobs /\ new.left \subseteq new.to /\ new.phase \in {"read", "set"}
    BY DEF Jobs
  <2> HIDE DEF new
  <2>3. QED BY <1>1, <1>3, <2>1, <2>2 DEF DirectoryInv
<1>5. CASE Check!PlanIndex
  <2>1. job \in Jobs /\ Check!Agree(index, job.to)
    BY <1>5 DEF Check!PlanIndex, DirectoryInv
  <2>2. PICK b \in job.to : Check!Enter("index", index[b].seq + 1)
    BY <1>5 DEF Check!PlanIndex
  <2> DEFINE n == index[b].seq + 1
             new == [job EXCEPT !.phase = "index", !.left = job.to, !.seq = n]
  <2>3. n \in Nat /\ n > 0 /\ \A c \in job.to : index[c].seq <= n
    BY <2>1, <2>2 DEF DirectoryInv, Jobs, Indexes, Check!Agree
  <2>4. job' = new BY <2>2 DEF Check!Enter
  <2> HIDE DEF n
  <2>5. /\ new \in Jobs /\ new.left = new.to /\ new.to = job.to
        /\ new.phase = "index" /\ new.seq = n
    BY <2>1, <2>3 DEF Jobs
  <2> HIDE DEF new
  <2>6. QED BY <1>1, <1>2, <1>3, <2>3, <2>4, <2>5 DEF DirectoryInv
<1>6. CASE Check!Set
  <2>1. job \in Jobs /\ Check!Agree(directory, job.to)
    BY <1>6 DEF Check!Set, DirectoryInv
  <2> DEFINE n == Check!readBaseSequence(job.to) + 1
             new == [job EXCEPT !.phase = "directory", !.left = job.to, !.seq = n]
  <2>2. n \in Nat /\ \A c \in job.to : directory[c] # None => directory[c].seq <= n
    <3>1. job.to \in SUBSET Backends BY <2>1 DEF Jobs
    <3>2. /\ Check!readBaseSequence(job.to) \in Nat
          /\ \A c \in job.to : directory[c] # None
                => directory[c].seq <= Check!readBaseSequence(job.to)
      BY <2>1, <3>1, BaseSequence
    <3>3. \A c \in job.to : directory[c] # None => directory[c].seq \in Nat
      BY <3>1 DEF DirectoryInv, Check!Document
    <3>4. QED BY <3>2, <3>3
  <2>3. job' = new BY <1>6 DEF Check!Set, Check!Enter
  <2> HIDE DEF n
  <2>4. /\ new \in Jobs /\ new.left = new.to /\ new.to = job.to
        /\ new.phase = "directory" /\ new.seq = n
    BY <2>1, <2>2 DEF Jobs
  <2> HIDE DEF new
  <2>5. QED BY <1>1, <1>2, <1>3, <2>2, <2>3, <2>4 DEF DirectoryInv
<1>7. CASE Check!JobEnds
  BY <1>1, <1>2, <1>3, <1>7 DEF Check!JobEnds, DirectoryInv
<1>8. QED BY <1>2, <1>4, <1>5, <1>6, <1>7

(* A job writes one target after the other. *)
LEMMA JobWrites ==
    ASSUME DirectoryInv, NEW b \in Backends,
           \/ Check!PutIndex(b) \/ Check!IndexFails(b)
           \/ Check!PutDirectory(b) \/ Check!DirectoryFails(b)
    PROVE  DirectoryInv' /\ OnlyNewer
<1>1. job \in Jobs /\ b \in job.left /\ b \in job.to /\ job.left \subseteq job.to /\ jobs' = jobs
  BY DEF Check!PutIndex, Check!IndexFails, Check!PutDirectory, Check!DirectoryFails, DirectoryInv
<1>2. job' # None => /\ job' \in Jobs /\ job'.left \subseteq job'.to /\ job'.to = job.to
                     /\ job'.phase \in {"index", "directory"} => job'.phase = job.phase
                     /\ job'.seq = job.seq
  <2>1. \A x \in BOOLEAN :
           /\ [job EXCEPT !.left = @ \ {b}, !.partial = x] \in Jobs
           /\ [job EXCEPT !.left = @ \ {b}, !.partial = x].left = job.left \ {b}
           /\ [job EXCEPT !.left = @ \ {b}, !.partial = x].to = job.to
           /\ [job EXCEPT !.left = @ \ {b}, !.partial = x].phase = job.phase
           /\ [job EXCEPT !.left = @ \ {b}, !.partial = x].seq = job.seq
    BY <1>1 DEF Jobs
  <2>2. /\ [job EXCEPT !.left = @ \ {b}] \in Jobs
        /\ [job EXCEPT !.left = @ \ {b}].left = job.left \ {b}
        /\ [job EXCEPT !.left = @ \ {b}].to = job.to
        /\ [job EXCEPT !.left = @ \ {b}].phase = job.phase
        /\ [job EXCEPT !.left = @ \ {b}].seq = job.seq
    BY <1>1 DEF Jobs
  <2>3. /\ [job EXCEPT !.phase = "set", !.left = job.to] \in Jobs
        /\ [job EXCEPT !.phase = "set", !.left = job.to].left = job.to
        /\ [job EXCEPT !.phase = "set", !.left = job.to].to = job.to
        /\ [job EXCEPT !.phase = "set", !.left = job.to].phase = "set"
        /\ [job EXCEPT !.phase = "set", !.left = job.to].seq = job.seq
    BY <1>1 DEF Jobs
  <2>4. \/ job' = None
        \/ \E x \in BOOLEAN : job' = [job EXCEPT !.left = @ \ {b}, !.partial = x]
        \/ job' = [job EXCEPT !.left = @ \ {b}]
        \/ job' = [job EXCEPT !.phase = "set", !.left = job.to]
    <3>1. \A ok \in BOOLEAN : (job.partial \/ ~ok) \in BOOLEAN
      BY <1>1 DEF Jobs
    <3>2. ASSUME NEW ok \in BOOLEAN, Check!IndexWritten(b, ok)
          PROVE  \/ job' = None
                 \/ \E x \in BOOLEAN : job' = [job EXCEPT !.left = @ \ {b}, !.partial = x]
                 \/ job' = [job EXCEPT !.phase = "set", !.left = job.to]
      BY <3>1, <3>2 DEF Check!IndexWritten
    <3>3. QED
      BY <3>2 DEF Check!PutIndex, Check!IndexFails, Check!PutDirectory, Check!DirectoryFails
  <2>5. QED BY <1>1, <2>1, <2>2, <2>3, <2>4
<1>3. CASE Check!PutIndex(b) \/ Check!IndexFails(b)
  <2> DEFINE new == [seq |-> job.seq, at |-> jobs]
  <2>1. /\ directory' = directory /\ index' \in {index, [index EXCEPT ![b] = new]}
        /\ job.seq > 0 /\ \A c \in job.to : index[c].seq <= job.seq
        /\ job.phase = "index"
    BY <1>3 DEF Check!PutIndex, Check!IndexFails, DirectoryInv
  <2>2. new \in Indexes /\ new.seq = job.seq
    BY <1>1 DEF Indexes, Jobs, DirectoryInv
  <2>3. new # Check!NoIndex BY <1>1, <2>1 DEF Check!NoIndex, Jobs
  <2> HIDE DEF new
  <2>4. \A c \in Backends : /\ index[c] \in Indexes
                            /\ index'[c] = index[c] \/ (c = b /\ index'[c] = new)
    BY <2>1 DEF DirectoryInv
  <2>5. \A c \in Backends : directory[c] # None => directory[c].seq \in Nat
    BY DEF DirectoryInv, Check!Document
  <2>6. OnlyNewer
    BY <1>1, <2>1, <2>2, <2>3, <2>4, <2>5 DEF OnlyNewer, Indexes
  <2>7. index' \in [Backends -> Indexes] BY <2>1, <2>2 DEF DirectoryInv
  <2>8. \A c \in job.to : index'[c].seq <= job.seq
    BY <1>1, <2>1, <2>2, <2>4 DEF Jobs
  <2>9. DirectoryInv' BY <1>1, <1>2, <2>1, <2>7, <2>8 DEF DirectoryInv
  <2>10. QED BY <2>6, <2>9
<1>4. CASE Check!PutDirectory(b) \/ Check!DirectoryFails(b)
  <2> DEFINE new == Check!Signed
  <2>1. /\ index' = index /\ directory' \in {directory, [directory EXCEPT ![b] = new]}
        /\ \A c \in job.to : directory[c] # None => directory[c].seq <= job.seq
        /\ job.phase = "directory"
    BY <1>4 DEF Check!PutDirectory, Check!DirectoryFails, DirectoryInv
  <2>2. new \in Check!Document /\ new.seq = job.seq
    BY <1>1 DEF Check!Signed, Check!Document, Jobs, DirectoryInv
  <2>3. new # None BY <2>2, DocumentAssumption
  <2> HIDE DEF new
  <2>4. \A c \in Backends : /\ directory[c] \in Check!Document \cup {None}
                            /\ directory'[c] = directory[c] \/ (c = b /\ directory'[c] = new)
    BY <2>1 DEF DirectoryInv
  <2>5. OnlyNewer
    BY <1>1, <2>1, <2>2, <2>3, <2>4 DEF OnlyNewer, DirectoryInv, Indexes, Check!Document
  <2>6. directory' \in [Backends -> Check!Document \cup {None}]
    BY <2>1, <2>2 DEF DirectoryInv
  <2>7. \A c \in job.to : directory'[c] # None => directory'[c].seq <= job.seq
    BY <1>1, <2>1, <2>2, <2>4 DEF Jobs
  <2>8. DirectoryInv' BY <1>1, <1>2, <2>1, <2>6, <2>7 DEF DirectoryInv
  <2>9. QED BY <2>5, <2>8
<1>5. QED BY <1>3, <1>4

DirectoryServed(n) == \E b \in Backends : directory[b] # None /\ directory[b].seq >= n
IndexServed(n) == \E b \in Backends : index[b] # Check!NoIndex /\ index[b].seq >= n

Sequences == [directory : Nat, index : Nat]

(* Whatever was seen of a sequence, some target still serves one no older. *)
StillThere(last) ==
    /\ last.directory > 0 => DirectoryServed(last.directory)
    /\ last.index > 0 => IndexServed(last.index)

Steps  == {"plan", "index", "fallback", "exact plan", "exact index", "answer"}
Checks == [step : Steps, left : SUBSET Backends, exact : BOOLEAN, keep : Sequences,
           verdict : {"error", "answered", "not listed"}, lost : BOOLEAN, stale : BOOLEAN,
           served : BOOLEAN]

(* A check that lost nothing has a source left that is not too old. *)
SourceLeft ==
    check # None /\ check.served /\ ~check.lost =>
        /\ DirectoryServed(0) /\ IndexServed(0)
        /\ check.step \in {"plan", "exact plan"} =>
              \E b \in check.left : Check!CurrentDirectory(b)
        /\ check.step \in {"index", "exact index"} =>
              \E b \in check.left : Check!CurrentIndex(b)
        /\ check.step \in {"fallback", "answer"} => check.verdict # "error"

CheckInv ==
    /\ DirectoryInv
    /\ saved \in Sequences /\ StillThere(saved)
    /\ seen \in Sequences /\ StillThere(seen)
    /\ check # None => check \in Checks /\ StillThere(check.keep)
    /\ SourceLeft
    /\ Check!CheckAnswers

(* A client that has seen nothing is behind nobody. *)
LEMMA CheckStarts ==
    ASSUME Check!CheckInit PROVE CheckInv
BY DEF Check!CheckInit, Check!DirectoryInit, Check!ClientInit, Check!NoIndex,
       Check!NothingSeen, CheckInv, DirectoryInv, Indexes, Sequences, StillThere, SourceLeft,
       Check!CheckAnswers

(* Publishes only raise what a backend serves: a sequence that was there to be found
   stays there to be found. *)
LEMMA NewerIsThere ==
    ASSUME DirectoryInv, DirectoryInv', OnlyNewer, NEW n \in Nat
    PROVE  /\ DirectoryServed(n) => DirectoryServed(n)'
           /\ IndexServed(n) => IndexServed(n)'
<1>1. ASSUME NEW b \in Backends, directory[b] # None, directory[b].seq >= n
      PROVE  directory'[b] # None /\ directory'[b].seq >= n
  BY <1>1 DEF DirectoryInv, OnlyNewer, Check!Document
<1>2. ASSUME NEW b \in Backends, index[b] # Check!NoIndex, index[b].seq >= n
      PROVE  index'[b] # Check!NoIndex /\ index'[b].seq >= n
  BY <1>2 DEF DirectoryInv, OnlyNewer, Indexes
<1>3. QED BY <1>1, <1>2 DEF DirectoryServed, IndexServed

(* A publish takes no source away from a check that runs beside it. *)
LEMMA PublishBeside ==
    ASSUME CheckInv, DirectoryInv', OnlyNewer, UNCHANGED <<saved, seen, check, answer>>
    PROVE  CheckInv'
<1>1. \A n \in Nat : /\ DirectoryServed(n) => DirectoryServed(n)'
                     /\ IndexServed(n) => IndexServed(n)'
  BY NewerIsThere DEF CheckInv
<1>2. \A last \in Sequences : StillThere(last) => StillThere(last)'
  BY <1>1 DEF StillThere, Sequences
<1>3. ASSUME NEW b \in Backends
      PROVE  /\ Check!CurrentDirectory(b) => Check!CurrentDirectory(b)'
             /\ Check!CurrentIndex(b) => Check!CurrentIndex(b)'
  BY DEF CheckInv, DirectoryInv, OnlyNewer, Sequences, Indexes, Check!Document,
         Check!CurrentDirectory, Check!CurrentIndex, Check!AcceptsSequence
<1>4. SourceLeft'
  <2>1. CASE check # None /\ check.served /\ ~check.lost
    <3>1. check.left \subseteq Backends BY <2>1 DEF CheckInv, Checks
    <3>2. DirectoryServed(0)' /\ IndexServed(0)' BY <1>1, <2>1 DEF CheckInv, SourceLeft
    <3>3. QED BY <1>3, <2>1, <3>1, <3>2 DEF CheckInv, SourceLeft
  <2>2. CASE ~(check # None /\ check.served /\ ~check.lost)
    BY <2>2 DEF SourceLeft
  <2>3. QED BY <2>1, <2>2
<1>5. saved' \in Sequences /\ StillThere(saved)'
  BY <1>2 DEF CheckInv, StillThere
<1>6. seen' \in Sequences /\ StillThere(seen)'
  BY <1>2 DEF CheckInv, StillThere
<1>7. check' # None => check' \in Checks /\ StillThere(check.keep)'
  <2>1. ASSUME check # None PROVE check.keep \in Sequences /\ StillThere(check.keep)
    BY <2>1 DEF CheckInv, Checks
  <2>2. QED BY <1>2, <2>1 DEF CheckInv, StillThere
<1>8. Check!CheckAnswers' BY DEF CheckInv, Check!CheckAnswers
<1>9. QED BY <1>4, <1>5, <1>6, <1>7, <1>8 DEF CheckInv

(* A step of the check itself. *)
LEMMA ClientOnly ==
    ASSUME CheckInv, UNCHANGED <<directory, index, job, jobs>>
    PROVE  /\ DirectoryInv'
           /\ \A n : DirectoryServed(n)' = DirectoryServed(n) /\ IndexServed(n)' = IndexServed(n)
           /\ \A last : StillThere(last)' = StillThere(last)
BY DEF CheckInv, DirectoryInv, DirectoryServed, IndexServed, StillThere

(* What was seen is still to be had, once something was published. *)
LEMMA SourcesFound ==
    ASSUME DirectoryInv, seen \in Sequences, StillThere(seen), DirectoryServed(0), IndexServed(0)
    PROVE  /\ \E b \in Backends : Check!CurrentDirectory(b)
           /\ \E b \in Backends : Check!CurrentIndex(b)
BY DEF DirectoryInv, Sequences, StillThere, DirectoryServed, IndexServed, Check!CurrentDirectory,
       Check!CurrentIndex, Check!AcceptsSequence, Check!Document, Indexes

(* What is left of a check after its last source. *)
LEMMA LeaveFields ==
    ASSUME NEW c \in Checks, NEW last \in Sequences
    PROVE  /\ Check!Leave(c, last) \in Checks
           /\ Check!Leave(c, last).served = c.served
           /\ Check!Leave(c, last).lost = c.lost
           /\ Check!Leave(c, last).keep \in {c.keep, last}
           /\ c.step \in {"plan", "index"} =>
                 /\ Check!Leave(c, last).step = "fallback"
                 /\ Check!Leave(c, last).verdict = c.verdict
           /\ c.step = "fallback" =>
                 \/ /\ Check!Leave(c, last).step = "exact plan"
                    /\ Check!Leave(c, last).left = Backends
                 \/ /\ Check!Leave(c, last).step = "answer"
                    /\ Check!Leave(c, last).verdict = c.verdict
           /\ c.step \in {"exact plan", "exact index", "answer"} =>
                 /\ Check!Leave(c, last).step = "answer"
                 /\ Check!Leave(c, last).verdict = c.verdict
<1>1. CASE c.step \in {"plan", "index"}
  <2> DEFINE new == [c EXCEPT !.step = "fallback", !.left = Backends]
  <2>1. Check!Leave(c, last) = new BY <1>1 DEF Check!Leave
  <2>2. /\ new \in Checks /\ new.served = c.served /\ new.lost = c.lost /\ new.keep = c.keep
        /\ new.step = "fallback" /\ new.verdict = c.verdict
    BY DEF Checks, Steps
  <2> HIDE DEF new
  <2>3. QED BY <1>1, <2>1, <2>2
<1>2. CASE c.step = "fallback" /\ c.exact
  <2> DEFINE new == [c EXCEPT !.step = "exact plan", !.left = Backends, !.keep = last,
                              !.verdict = "error"]
  <2>1. Check!Leave(c, last) = new BY <1>2 DEF Check!Leave
  <2>2. /\ new \in Checks /\ new.served = c.served /\ new.lost = c.lost /\ new.keep = last
        /\ new.step = "exact plan" /\ new.left = Backends
    BY DEF Checks, Steps
  <2> HIDE DEF new
  <2>3. QED BY <1>2, <2>1, <2>2
<1>3. CASE c.step = "fallback" /\ ~c.exact
  <2> DEFINE new == [c EXCEPT !.step = "answer", !.keep = last]
  <2>1. Check!Leave(c, last) = new BY <1>3 DEF Check!Leave
  <2>2. /\ new \in Checks /\ new.served = c.served /\ new.lost = c.lost /\ new.keep = last
        /\ new.step = "answer" /\ new.verdict = c.verdict
    BY DEF Checks, Steps
  <2> HIDE DEF new
  <2>3. QED BY <1>3, <2>1, <2>2
<1>4. CASE c.step \in {"exact plan", "exact index", "answer"}
  <2> DEFINE new == [c EXCEPT !.step = "answer"]
  <2>1. Check!Leave(c, last) = new BY <1>4 DEF Check!Leave
  <2>2. /\ new \in Checks /\ new.served = c.served /\ new.lost = c.lost /\ new.keep = c.keep
        /\ new.step = "answer" /\ new.verdict = c.verdict
    BY DEF Checks, Steps
  <2> HIDE DEF new
  <2>3. QED BY <1>4, <2>1, <2>2
<1>5. QED BY <1>1, <1>2, <1>3, <1>4 DEF Checks, Steps

(* A step of the check that leaves it with what it needs. *)
LEMMA CheckGoesOn ==
    ASSUME CheckInv, UNCHANGED <<directory, index, job, jobs, saved, answer>>,
           seen' \in Sequences, StillThere(seen'),
           check' \in Checks, StillThere(check'.keep),
           SourceLeft'
    PROVE  CheckInv'
<1>1. DirectoryInv' /\ \A last : StillThere(last)' = StillThere(last)
  BY ClientOnly
<1>2. QED BY <1>1 DEF CheckInv, Check!CheckAnswers, StillThere

(* A source is dropped that is too old, or could not be fetched. *)
LEMMA SourceDropped ==
    ASSUME CheckInv, UNCHANGED <<directory, index, job, jobs, saved, answer>>,
           check # None, check.step # "answer", NEW u \in check.left, NEW c \in Checks,
           c.step = check.step, c.left = check.left, c.keep = check.keep,
           c.verdict = check.verdict, c.served = check.served,
           seen' \in Sequences, StillThere(seen'),
           ~c.lost => /\ ~check.lost /\ seen' = seen
                      /\ Check!Planning => ~Check!CurrentDirectory(u)
                      /\ Check!Indexing => ~Check!CurrentIndex(u),
           check' = Check!Drop(c, u, seen')
    PROVE  CheckInv'
<1>1. StillThere(check.keep) /\ check.left \subseteq Backends
  BY DEF CheckInv, Checks
<1>2. ASSUME check.served, ~c.lost
      PROVE  /\ seen' = seen /\ DirectoryServed(0) /\ IndexServed(0)
             /\ check.step \in {"plan", "exact plan"} =>
                   \E b \in check.left \ {u} : Check!CurrentDirectory(b)
             /\ check.step \in {"index", "exact index"} =>
                   \E b \in check.left \ {u} : Check!CurrentIndex(b)
             /\ check.step = "fallback" => check.verdict # "error"
  BY <1>2 DEF CheckInv, SourceLeft, Check!Planning, Check!Indexing
<1>3. ASSUME seen' = seen
      PROVE  /\ \A b : Check!CurrentDirectory(b)' = Check!CurrentDirectory(b)
             /\ \A b : Check!CurrentIndex(b)' = Check!CurrentIndex(b)
             /\ DirectoryServed(0)' = DirectoryServed(0) /\ IndexServed(0)' = IndexServed(0)
  BY <1>3 DEF Check!CurrentDirectory, Check!CurrentIndex, DirectoryServed, IndexServed
<1>4. c.step \in Steps BY DEF Checks
<1>5. CASE check.left = {u}
  <2> DEFINE new == Check!Leave(c, seen')
  <2>1. check' = new BY <1>5 DEF Check!Drop
  <2>2. /\ new \in Checks /\ new.served = c.served /\ new.lost = c.lost
        /\ new.keep \in {c.keep, seen'}
        /\ c.step = "fallback" =>
              \/ new.step = "exact plan" /\ new.left = Backends
              \/ new.step = "answer" /\ new.verdict = c.verdict
    BY LeaveFields
  <2> HIDE DEF new
  <2>3. SourceLeft'
    <3>1. CASE check.served /\ ~c.lost
      <4>1. check.step = "fallback" BY <1>2, <1>4, <1>5, <3>1 DEF Steps
      <4>2. \E b \in Backends : Check!CurrentDirectory(b)
        BY <1>2, <3>1, SourcesFound DEF CheckInv
      <4>3. DirectoryServed(0)' /\ IndexServed(0)' BY <1>2, <1>3, <3>1
      <4>4. \E b \in Backends : Check!CurrentDirectory(b)' BY <1>2, <1>3, <3>1, <4>2
      <4>5. check.verdict # "error" BY <1>2, <3>1, <4>1
      <4>6. QED BY <2>1, <2>2, <4>1, <4>3, <4>4, <4>5 DEF SourceLeft
    <3>2. CASE ~(check.served /\ ~c.lost)
      BY <2>1, <2>2, <3>2 DEF SourceLeft
    <3>3. QED BY <3>1, <3>2
  <2>4. check' \in Checks BY <2>1, <2>2
  <2>5. StillThere(check'.keep) BY <1>1, <2>1, <2>2
  <2>6. QED BY <2>3, <2>4, <2>5, CheckGoesOn
<1>6. CASE check.left # {u}
  <2> DEFINE new == [c EXCEPT !.left = @ \ {u}]
  <2>1. check' = new BY <1>6 DEF Check!Drop
  <2>2. /\ new \in Checks /\ new.served = c.served /\ new.lost = c.lost
        /\ new.keep = c.keep /\ new.step = c.step /\ new.verdict = c.verdict
        /\ new.left = c.left \ {u}
    BY DEF Checks
  <2> HIDE DEF new
  <2>3. SourceLeft'
    <3>1. CASE check.served /\ ~c.lost
      <4>1. DirectoryServed(0)' /\ IndexServed(0)' BY <1>2, <1>3, <3>1
      <4>2. /\ check.step \in {"plan", "exact plan"} =>
                  \E b \in check.left \ {u} : Check!CurrentDirectory(b)'
            /\ check.step \in {"index", "exact index"} =>
                  \E b \in check.left \ {u} : Check!CurrentIndex(b)'
            /\ check.step = "fallback" => check.verdict # "error"
        BY <1>2, <1>3, <3>1
      <4>3. QED BY <2>1, <2>2, <4>1, <4>2 DEF SourceLeft
    <3>2. CASE ~(check.served /\ ~c.lost)
      BY <2>1, <2>2, <3>2 DEF SourceLeft
    <3>3. QED BY <3>1, <3>2
  <2>4. check' \in Checks BY <2>1, <2>2
  <2>5. StillThere(check'.keep) BY <1>1, <2>1, <2>2
  <2>6. QED BY <2>3, <2>4, <2>5, CheckGoesOn
<1>7. QED BY <1>5, <1>6

(* A source that is behind, unknown or unreachable is passed over; another one is left. *)
LEMMA CheckSkips ==
    ASSUME CheckInv, NEW u \in Backends,
           Check!SkipDirectory(u) \/ Check!SkipIndex(u) \/ Check!FetchFails(u)
    PROVE  CheckInv'
<1>1. /\ UNCHANGED <<directory, index, job, jobs, saved, answer>> /\ check # None
      /\ check.step # "answer" /\ u \in check.left /\ check \in Checks
      /\ seen \in Sequences /\ StillThere(seen)
  BY DEF Check!SkipDirectory, Check!SkipIndex, Check!FetchFails, Check!Planning,
         Check!Indexing, Check!published, CheckInv
<1>2. CASE Check!SkipDirectory(u)
  <2>1. /\ ~Check!CurrentDirectory(u) /\ ~Check!Indexing
        /\ seen' = seen /\ check' = Check!Drop(check, u, seen)
    BY <1>2 DEF Check!SkipDirectory, Check!Planning, Check!Indexing
  <2>2. QED BY <1>1, <2>1, SourceDropped
<1>3. CASE Check!SkipIndex(u)
  <2> DEFINE x == check.stale /\ index[u] # Check!NoIndex
             c == [check EXCEPT !.stale = x]
  <2>1. /\ ~Check!CurrentIndex(u) /\ ~Check!Planning
        /\ seen' = seen /\ check' = Check!Drop(c, u, seen)
    BY <1>1, <1>3 DEF Check!SkipIndex, Check!Planning, Check!Indexing, Checks
  <2>2. x \in BOOLEAN BY <1>1 DEF Checks
  <2> HIDE DEF x
  <2>3. /\ c \in Checks /\ c.step = check.step /\ c.left = check.left /\ c.keep = check.keep
        /\ c.verdict = check.verdict /\ c.served = check.served /\ c.lost = check.lost
    BY <1>1, <2>2 DEF Checks
  <2> HIDE DEF c
  <2>4. QED BY <1>1, <2>1, <2>3, SourceDropped
<1>4. CASE Check!FetchFails(u)
  <2> DEFINE c == [check EXCEPT !.lost = TRUE, !.stale = FALSE]
  <2>1. check' = Check!Drop(c, u, seen') BY <1>4 DEF Check!FetchFails
  <2>2. /\ c \in Checks /\ c.step = check.step /\ c.left = check.left /\ c.keep = check.keep
        /\ c.verdict = check.verdict /\ c.served = check.served /\ c.lost = TRUE
    BY <1>1 DEF Checks
  <2> HIDE DEF c
  <2>3. seen' \in Sequences /\ StillThere(seen')
    <3>1. CASE seen' = seen BY <1>1, <3>1
    <3>2. CASE Check!CurrentIndex(u) /\ seen' = [seen EXCEPT !.index = index[u].seq]
      <4>1. index[u].seq \in Nat BY DEF CheckInv, DirectoryInv, Indexes
      <4>2. /\ seen' \in Sequences /\ seen'.index = index[u].seq
            /\ seen'.directory = seen.directory
        BY <1>1, <3>2, <4>1 DEF Sequences
      <4>3. IndexServed(index[u].seq)
        BY <3>2, <4>1 DEF IndexServed, Check!CurrentIndex
      <4>4. QED BY <1>1, <4>2, <4>3 DEF StillThere
    <3>3. QED BY <1>4, <3>1, <3>2 DEF Check!FetchFails
  <2>4. QED BY <1>1, <2>1, <2>2, <2>3, SourceDropped
<1>5. QED BY <1>2, <1>3, <1>4

(* Every target is a service of the product. *)
AllServe == ServiceLists \subseteq {Backends}

(* loadDirectory: the directory names the services to ask for the index. It is here that
   AllServe matters: none may be left out. *)
LEMMA CheckLoads ==
    ASSUME AllServe, CheckInv, NEW u \in Backends, Check!loadDirectory(u) PROVE CheckInv'
<1> DEFINE n == directory[u].seq
           loaded == [seen EXCEPT !.directory = n]
           step == IF check.step = "plan" THEN "index" ELSE "exact index"
           new == [check EXCEPT !.left = directory[u].services, !.stale = TRUE, !.step = step]
<1>1. /\ UNCHANGED <<directory, index, job, jobs, saved, answer>> /\ check # None
      /\ check.step \in {"plan", "fallback", "exact plan"} /\ check \in Checks
      /\ seen \in Sequences /\ StillThere(seen) /\ StillThere(check.keep)
      /\ Check!CurrentDirectory(u) /\ directory[u] # None
      /\ seen' = loaded
  BY DEF Check!loadDirectory, Check!Planning, Check!published, Check!CurrentDirectory, CheckInv
<1>2. directory[u] \in Check!Document /\ n \in Nat /\ directory[u].services = Backends
  BY <1>1 DEF CheckInv, DirectoryInv, Check!Document, AllServe
<1>3. check' = IF check.step = "fallback" THEN Check!Leave(check, seen') ELSE new
  BY <1>1 DEF Check!loadDirectory
<1>4. loaded \in Sequences /\ loaded.directory = n /\ loaded.index = seen.index
  BY <1>1, <1>2 DEF Sequences
<1> HIDE DEF loaded
<1>5. DirectoryServed(n)
  <2>1. n >= n BY <1>2
  <2>2. QED BY <1>1, <2>1 DEF DirectoryServed
<1>6. StillThere(loaded) BY <1>1, <1>4, <1>5 DEF StillThere
<1>7. /\ Check!CurrentDirectory(u)'
      /\ \A b \in Backends : Check!CurrentIndex(b)' = Check!CurrentIndex(b)
      /\ DirectoryServed(0)' = DirectoryServed(0) /\ IndexServed(0)' = IndexServed(0)
  <2>1. directory'[u] # None /\ directory'[u].seq >= seen'.directory
    <3>1. directory' = directory /\ seen'.directory = n BY <1>1, <1>4
    <3>2. n >= n BY <1>2
    <3>3. QED BY <1>1, <3>1, <3>2
  <2>2. Check!CurrentDirectory(u)'
    BY <2>1 DEF Check!CurrentDirectory, Check!AcceptsSequence
  <2>3. index' = index /\ directory' = directory /\ seen'.index = seen.index BY <1>1, <1>4
  <2>4. \A b \in Backends : Check!CurrentIndex(b)' = Check!CurrentIndex(b)
    BY <2>3 DEF Check!CurrentIndex, Check!AcceptsSequence
  <2>5. DirectoryServed(0)' = DirectoryServed(0) /\ IndexServed(0)' = IndexServed(0)
    BY <2>3 DEF DirectoryServed, IndexServed
  <2>6. QED BY <2>2, <2>4, <2>5
<1>8. ASSUME check.served, ~check.lost
      PROVE  /\ DirectoryServed(0)' /\ IndexServed(0)'
             /\ \E b \in Backends : Check!CurrentIndex(b)'
             /\ check.step = "fallback" => check.verdict # "error"
  BY <1>1, <1>7, <1>8, SourcesFound DEF CheckInv, SourceLeft
<1>9. CASE check.step = "fallback"
  <2> DEFINE left == Check!Leave(check, seen')
  <2>1. check' = left /\ seen' \in Sequences BY <1>1, <1>3, <1>4, <1>9
  <2>2. /\ left \in Checks /\ left.served = check.served /\ left.lost = check.lost
        /\ left.keep \in {check.keep, seen'}
        /\ \/ left.step = "exact plan" /\ left.left = Backends
           \/ left.step = "answer" /\ left.verdict = check.verdict
    BY <1>1, <1>9, <2>1, LeaveFields
  <2> HIDE DEF left
  <2>3. SourceLeft' BY <1>7, <1>8, <1>9, <2>1, <2>2 DEF SourceLeft
  <2>4. StillThere(check'.keep) BY <1>1, <1>6, <2>1, <2>2
  <2>5. QED BY <1>1, <1>4, <1>6, <2>1, <2>2, <2>3, <2>4, CheckGoesOn
<1>10. CASE check.step # "fallback"
  <2>1. check' = new BY <1>3, <1>10
  <2>2. /\ new \in Checks /\ new.served = check.served /\ new.lost = check.lost
        /\ new.keep = check.keep /\ new.left = Backends
        /\ new.step \in {"index", "exact index"}
    BY <1>1, <1>2 DEF Checks, Steps
  <2> HIDE DEF new
  <2>3. SourceLeft' BY <1>8, <2>1, <2>2 DEF SourceLeft
  <2>4. QED BY <1>1, <1>4, <1>6, <2>1, <2>2, <2>3, CheckGoesOn
<1>11. QED BY <1>9, <1>10

(* checkIndex: an index no older than the one seen before ends the search. *)
LEMMA CheckAccepts ==
    ASSUME CheckInv, NEW u \in Backends, Check!checkIndex(u) PROVE CheckInv'
<1> DEFINE n == index[u].seq
           loaded == [seen EXCEPT !.index = n]
<1>1. /\ UNCHANGED <<directory, index, job, jobs, saved, answer>> /\ check # None
      /\ check.step \in {"index", "exact index"} /\ check \in Checks
      /\ seen \in Sequences /\ StillThere(seen) /\ StillThere(check.keep)
      /\ Check!CurrentIndex(u) /\ index[u] # Check!NoIndex
      /\ seen' = loaded
  BY DEF Check!checkIndex, Check!Indexing, Check!published, Check!CurrentIndex, CheckInv
<1>2. n \in Nat BY DEF CheckInv, DirectoryInv, Indexes
<1>3. loaded \in Sequences /\ loaded.index = n /\ loaded.directory = seen.directory
  BY <1>1, <1>2 DEF Sequences
<1> HIDE DEF loaded
<1>4. IndexServed(n)
  <2>1. n >= n BY <1>2
  <2>2. QED BY <1>1, <2>1 DEF IndexServed
<1>5. StillThere(loaded) BY <1>1, <1>3, <1>4 DEF StillThere
<1>6. PICK v \in {"answered", "not listed"} :
           check' = Check!Leave([check EXCEPT !.verdict = v, !.stale = FALSE], seen')
  BY DEF Check!checkIndex
<1> DEFINE c == [check EXCEPT !.verdict = v, !.stale = FALSE]
           left == Check!Leave(c, seen')
<1>7. /\ c \in Checks /\ c.step = check.step /\ c.keep = check.keep /\ c.verdict = v
      /\ c.served = check.served /\ c.lost = check.lost
  BY <1>1 DEF Checks
<1> HIDE DEF c
<1>8. /\ left \in Checks /\ left.served = check.served /\ left.lost = check.lost
      /\ left.keep \in {check.keep, seen'}
      /\ left.step \in {"fallback", "answer"} /\ left.verdict # "error"
  <2>1. seen' \in Sequences BY <1>1, <1>3
  <2>2. /\ left \in Checks /\ left.served = c.served /\ left.lost = c.lost
        /\ left.keep \in {c.keep, seen'}
        /\ left.step \in {"fallback", "answer"} /\ left.verdict = c.verdict
    <3>1. c \in Checks /\ c.step \in {"index", "exact index"} BY <1>1, <1>7
    <3>2. /\ left \in Checks /\ left.served = c.served /\ left.lost = c.lost
          /\ left.keep \in {c.keep, seen'}
      BY <2>1, <3>1, LeaveFields
    <3>3. CASE c.step = "index" BY <2>1, <3>1, <3>3, LeaveFields
    <3>4. CASE c.step = "exact index" BY <2>1, <3>1, <3>4, LeaveFields
    <3>5. QED BY <3>1, <3>2, <3>3, <3>4
  <2> HIDE DEF left
  <2>3. v # "error" OBVIOUS
  <2>4. QED BY <1>7, <2>2, <2>3
<1>9. check' = left BY <1>6 DEF c
<1> HIDE DEF left
<1>10. SourceLeft'
  <2>1. DirectoryServed(0)' = DirectoryServed(0) /\ IndexServed(0)' = IndexServed(0)
    BY <1>1 DEF DirectoryServed, IndexServed
  <2>2. check.served /\ ~check.lost => DirectoryServed(0) /\ IndexServed(0)
    BY <1>1 DEF CheckInv, SourceLeft
  <2>3. QED BY <1>8, <1>9, <2>1, <2>2 DEF SourceLeft
<1>11. StillThere(check'.keep) BY <1>1, <1>5, <1>8, <1>9
<1>12. QED BY <1>1, <1>3, <1>5, <1>8, <1>9, <1>10, <1>11, CheckGoesOn

(* CheckForce: the search starts over all backends, with what was saved before. *)
LEMMA CheckBegins ==
    ASSUME CheckInv, NEW exact \in BOOLEAN, Check!CheckForce(exact) PROVE CheckInv'
<1> DEFINE began == /\ \E b \in Backends : directory[b] # None
                    /\ \E b \in Backends : index[b] # Check!NoIndex
           new == [step |-> "plan", left |-> Backends, exact |-> exact, keep |-> saved,
                   verdict |-> "error", lost |-> FALSE, stale |-> FALSE, served |-> began]
<1>1. /\ UNCHANGED <<directory, index, job, jobs, saved>>
      /\ seen' = saved /\ check' = new /\ answer' = None
  BY DEF Check!CheckForce, Check!published
<1>2. began \in BOOLEAN OBVIOUS
<1>3. began => DirectoryServed(0) /\ IndexServed(0)
  BY DEF CheckInv, DirectoryInv, Check!Document, Indexes, DirectoryServed, IndexServed
<1> HIDE DEF began
<1>4. saved \in Sequences /\ StillThere(saved) BY DEF CheckInv
<1>5. /\ new \in Checks /\ new.step = "plan" /\ new.left = Backends /\ new.keep = saved
      /\ new.served = began
  BY <1>2, <1>4 DEF Checks, Steps
<1> HIDE DEF new
<1>6. DirectoryInv' /\ \A last : StillThere(last)' = StillThere(last)
  BY <1>1, ClientOnly
<1>7. SourceLeft'
  <2>1. DirectoryServed(0)' = DirectoryServed(0) /\ IndexServed(0)' = IndexServed(0)
    BY <1>1 DEF DirectoryServed, IndexServed
  <2>2. ASSUME began PROVE \E b \in Backends : Check!CurrentDirectory(b)'
    BY <1>1, <1>3, <1>4, <2>2
       DEF CheckInv, DirectoryInv, Sequences, StillThere, DirectoryServed,
           Check!CurrentDirectory, Check!AcceptsSequence, Check!Document
  <2>3. QED BY <1>1, <1>3, <1>5, <2>1, <2>2 DEF SourceLeft
<1>8. Check!CheckAnswers' BY <1>1 DEF Check!CheckAnswers
<1>9. QED BY <1>1, <1>4, <1>5, <1>6, <1>7, <1>8 DEF CheckInv, StillThere

(* emitCheck, and the death of the engine before it: what was seen is saved or forgotten. *)
LEMMA CheckEnds ==
    ASSUME CheckInv, Check!emitCheck \/ Check!EngineDies PROVE CheckInv'
<1>1. /\ UNCHANGED <<directory, index, job, jobs>> /\ check # None /\ check' = None
      /\ seen' = [directory |-> 0, index |-> 0]
      /\ saved' \in {saved, check.keep}
  BY DEF Check!emitCheck, Check!EngineDies, Check!published, Check!NothingSeen
<1>2. DirectoryInv' /\ \A last : StillThere(last)' = StillThere(last)
  BY <1>1, ClientOnly
<1>3. saved' \in Sequences /\ StillThere(saved') BY <1>1 DEF CheckInv, Checks
<1>4. seen' \in Sequences /\ StillThere(seen') BY <1>1 DEF Sequences, StillThere
<1>5. SourceLeft' BY <1>1 DEF SourceLeft
<1>6. CASE Check!EngineDies
  <2>1. answer' = answer BY <1>6 DEF Check!EngineDies
  <2>2. QED
    BY <1>1, <1>2, <1>3, <1>4, <1>5, <2>1 DEF CheckInv, StillThere, Check!CheckAnswers
<1>7. CASE Check!emitCheck
  <2>1. /\ answer' = [verdict |-> check.verdict, lost |-> check.lost, stale |-> check.stale,
                      served |-> check.served]
        /\ check.step = "answer"
    BY <1>7 DEF Check!emitCheck
  <2>2. Check!CheckAnswers'
    BY <1>1, <2>1 DEF CheckInv, SourceLeft, Check!CheckAnswers
  <2>3. QED BY <1>1, <1>2, <1>3, <1>4, <1>5, <2>2 DEF CheckInv, StillThere
<1>8. QED BY <1>6, <1>7

(* Every step of publishers, directory and client. *)
LEMMA CheckStep ==
    ASSUME AllServe, CheckInv, Check!CheckNext PROVE CheckInv'
<1>1. CASE Check!DirectoryNext /\ UNCHANGED Check!client
  <2>1. DirectoryInv BY DEF CheckInv
  <2>2. ASSUME NEW b \in Backends,
               \/ Check!PutIndex(b) \/ Check!IndexFails(b)
               \/ Check!PutDirectory(b) \/ Check!DirectoryFails(b)
        PROVE  DirectoryInv' /\ OnlyNewer
    BY <2>1, <2>2, JobWrites
  <2>3. DirectoryInv' /\ OnlyNewer
    BY <1>1, <2>1, <2>2, JobTurns DEF Check!DirectoryNext
  <2>4. QED BY <1>1, <2>3, PublishBeside DEF Check!client
<1>2. CASE Check!ClientNext
  <2>1. ASSUME NEW exact \in BOOLEAN, Check!CheckForce(exact) PROVE CheckInv'
    BY <2>1, CheckBegins
  <2>2. ASSUME NEW u \in Backends, Check!loadDirectory(u) PROVE CheckInv'
    BY <2>2, CheckLoads
  <2>3. ASSUME NEW u \in Backends, Check!checkIndex(u) PROVE CheckInv'
    BY <2>3, CheckAccepts
  <2>4. ASSUME NEW u \in Backends,
               Check!SkipDirectory(u) \/ Check!SkipIndex(u) \/ Check!FetchFails(u)
        PROVE  CheckInv'
    BY <2>4, CheckSkips
  <2>5. QED BY <1>2, <2>1, <2>2, <2>3, <2>4, CheckEnds DEF Check!ClientNext
<1>3. QED BY <1>1, <1>2 DEF Check!CheckNext

-----------------------------------------------------------------------------
(* The download of an artifact. *)

(* Only a file that was found whole is renamed. *)
DownloadInv ==
    /\ phase = "rename" => Artifact!Whole(part)
    /\ phase = "ok" => dest = "right"

(* The .part file is as an attempt makes it that began with nothing: at an honest
   mirror it lacks only what is still to be fetched. *)
Clean ==
    /\ phase = "probe" => part = None /\ meta = None
    /\ phase = "chunks" =>
          /\ part = [i \in Artifact!Chunks |-> part[i]]
          /\ \A i \in Artifact!Chunks \ (todo \cup getting) : part[i] = "right"
    /\ phase = "stream" => part \in Seq({"right"})
    /\ phase = "verify" => Artifact!Whole(part)

Trying == phase \in {"probe", "chunks", "stream", "verify"}

(* What one call outlives: the leftovers of an earlier process, or one request. *)
FewErrors == errors <= (IF resumed THEN 0 ELSE 1)

(* Three attempts at an honest mirror are enough: the first may meet the leftovers or
   the error, the second the record that the first wrote too late. *)
Patience ==
    /\ errors = 0 /\ ~resumed => Clean /\ attempt = 1
    /\ failed => attempt = 1
    /\ late # {} => Clean /\ attempt <= 2
    /\ Clean \/ attempt <= 2
    /\ attempt <= 3

(* An honest mirror is still to come or in use. *)
HonestAhead ==
    /\ urls \in Seq(Mirrors) /\ attempt \in Nat \ {0}
    /\ \E i \in DOMAIN urls : urls[i] \in Honest
    /\ Artifact!url \in Honest => Patience

(* One error leaves at most one record behind. *)
LateFew ==
    /\ errors = 0 => late = {} /\ ~failed
    /\ failed => late = {}
    /\ \A m, n \in late : m = n

ChanceInv ==
    /\ errors \in Nat /\ failed \in BOOLEAN
    /\ phase = "called" => late = {} /\ ~failed
    /\ Honest # {} /\ FewErrors => /\ Trying => HonestAhead /\ LateFew
                                   /\ phase # "failed"

(* What three attempts are needed for. *)
Patient == Retries >= 3

(* An attempt that fails is followed by one that begins with nothing, at the same mirror or
   at the next, and an honest mirror is not given up (AttemptFails). *)
LEMMA TriedAgain ==
    ASSUME Patient, Trying, HonestAhead, Artifact!AttemptFails, errors' \in Nat,
           errors' = 0 => late' = {},
           \A m, n \in late' : m = n,
           Artifact!url \in Honest => /\ attempt <= 2
                                      /\ late' # {} => attempt = 1
                                      /\ errors' = 0 => resumed
    PROVE  (Trying /\ HonestAhead /\ LateFew)' /\ phase' # "failed" /\ failed' \in BOOLEAN
<1>1. Clean' /\ failed' = FALSE /\ resumed' = resumed
  <2>1. part' = None /\ meta' = None /\ phase' \in {"probe", "failed"}
    BY DEF Artifact!AttemptFails, Artifact!RemoveParts
  <2>2. QED BY <2>1 DEF Clean, Artifact!AttemptFails
<1>2. PICK i \in DOMAIN urls : urls[i] \in Honest
  BY DEF HonestAhead
<1>3. urls \in Seq(Mirrors) /\ attempt \in Nat \ {0} /\ Artifact!url = urls[1] /\ Len(urls) \in Nat \ {0}
  BY <1>2 DEF HonestAhead, Artifact!url
<1>4. LateFew'
  BY <1>1 DEF LateFew
<1>5. CASE attempt < Retries /\ attempt' = attempt + 1 /\ phase' = "probe" /\ urls' = urls
  <2>1. attempt' \in Nat \ {0} /\ \E k \in DOMAIN urls' : urls'[k] \in Honest
    BY <1>2, <1>3, <1>5
  <2>2. Artifact!url' = Artifact!url
    BY <1>5 DEF Artifact!url
  <2>3. Artifact!url \in Honest => Patience'
    BY <1>1, <1>3, <1>5 DEF Patience
  <2>4. QED BY <1>1, <1>3, <1>4, <1>5, <2>1, <2>2, <2>3 DEF HonestAhead, Trying
<1>6. CASE /\ attempt = Retries /\ attempt' = 1 /\ urls' = Tail(urls)
           /\ phase' = IF Len(urls) > 1 THEN "probe" ELSE "failed"
  <2>1. Artifact!url \notin Honest
    BY <1>3, <1>6 DEF Patient
  <2>2. i # 1 /\ i \in 1 .. Len(urls)
    BY <1>2, <1>3, <2>1
  <2>3. Len(urls) > 1 /\ phase' = "probe"
    BY <1>3, <1>6, <2>2
  <2>4. urls' \in Seq(Mirrors) /\ i - 1 \in DOMAIN urls' /\ urls'[i - 1] = urls[i]
    BY <1>3, <1>6, <2>2, <2>3
  <2>5. Patience'
    BY <1>1, <1>6 DEF Patience
  <2>6. HonestAhead'
    <3>1. \E k \in DOMAIN urls' : urls'[k] \in Honest
      BY <1>2, <2>4
    <3>2. attempt' \in Nat \ {0}
      BY <1>6
    <3>3. QED BY <2>4, <2>5, <3>1, <3>2 DEF HonestAhead
  <2>7. QED BY <1>1, <1>4, <2>3, <2>6 DEF Trying
<1>7. QED BY <1>5, <1>6 DEF Artifact!AttemptFails

(* A step that leaves the attempt, the error count and the late records alone. *)
LEMMA GoesOn ==
    ASSUME HonestAhead, LateFew, UNCHANGED <<urls, attempt, resumed, late, errors, failed>>,
           Artifact!url \in Honest /\ Clean => Clean'
    PROVE  (HonestAhead /\ LateFew)'
<1>1. Artifact!url' = Artifact!url
  BY DEF Artifact!url
<1>2. Artifact!url \in Honest => Patience'
  BY DEF HonestAhead, Patience
<1>3. QED BY <1>1, <1>2 DEF HonestAhead, LateFew

(* A call begins with every mirror (DownloadArtifact). *)
LEMMA DownloadBegins ==
    ASSUME ChanceInv, NEW order \in Artifact!Orders, Artifact!DownloadArtifact(order)
    PROVE  ChanceInv'
<1>1. /\ phase' \in {"ok", "probe"} /\ urls' = order /\ attempt' = 1
      /\ resumed' = (part # None \/ meta # None)
      /\ UNCHANGED <<part, meta, late, errors, failed>> /\ late = {} /\ ~failed
  BY DEF ChanceInv, Artifact!DownloadArtifact, Artifact!files, Artifact!chunked, Artifact!bounds
<1>2. ASSUME Honest # {} PROVE HonestAhead'
  <2>1. PICK m \in Honest : m \in Mirrors
    BY <1>2, MirrorsAssumption
  <2>2. /\ order \in [1 .. Artifact!Cardinality(Mirrors) -> Mirrors]
        /\ \E i \in DOMAIN order : order[i] = m
    BY <2>1, Zenon DEF Artifact!Orders
  <2>3. order \in Seq(Mirrors)
    <3>1. Artifact!Cardinality(Mirrors) = Cardinality(Mirrors)
      BY DEF Artifact!Cardinality, Cardinality
    <3>2. Artifact!Cardinality(Mirrors) \in Nat
      BY <3>1, MirrorsAssumption, FS_CardinalityType
    <3>3. QED BY <2>2, <3>2
  <2>4. ~resumed' => Clean'
    BY <1>1 DEF Clean
  <2>5. Patience'
    BY <1>1, <2>4 DEF Patience
  <2>6. QED BY <1>1, <2>1, <2>2, <2>3, <2>5 DEF HonestAhead
<1>3. LateFew'
  BY <1>1 DEF LateFew
<1>4. QED BY <1>1, <1>2, <1>3 DEF ChanceInv

(* What a step at an attempt has to show. *)
LEMMA Attempted ==
    ASSUME ChanceInv, Trying, errors' \in Nat, failed' \in BOOLEAN, phase' # "called",
           Honest # {} /\ FewErrors' =>
               (Trying /\ HonestAhead /\ LateFew)' \/ phase' \in {"rename", "ok"}
    PROVE  ChanceInv'
BY DEF ChanceInv, Trying

(* The chunks of an attempt (StartChunks, Start, WriteAt, WritePartMeta). *)
LEMMA ChunksCome ==
    ASSUME ChanceInv,
           \/ Artifact!StartChunks \/ Artifact!WritePartMeta
           \/ \E c \in Artifact!Chunks : Artifact!Start(c) \/ Artifact!WriteAt(c)
    PROVE  ChanceInv'
<1>1. /\ Trying /\ phase' = "chunks"
      /\ UNCHANGED <<urls, attempt, resumed, late, errors, failed>>
  BY DEF Artifact!StartChunks, Artifact!WritePartMeta, Artifact!Start, Artifact!WriteAt, Trying,
         Artifact!files, Artifact!bounds
<1>2. ASSUME Artifact!url \in Honest, Clean PROVE Clean'
  <2>1. CASE Artifact!StartChunks
    <3>1. part' = [i \in Artifact!Chunks |-> "hole"] /\ todo' = Artifact!Chunks
      BY <1>2, <2>1 DEF Artifact!StartChunks, Artifact!Padded, Artifact!Known, Clean
    <3>2. QED BY <1>1, <3>1 DEF Clean
  <2>2. CASE Artifact!WritePartMeta
    BY <1>1, <1>2, <2>2 DEF Artifact!WritePartMeta, Clean
  <2>3. ASSUME NEW c \in Artifact!Chunks, Artifact!Start(c) PROVE Clean'
    BY <1>1, <1>2, <2>3 DEF Artifact!Start, Artifact!files, Clean
  <2>4. ASSUME NEW c \in Artifact!Chunks, Artifact!WriteAt(c) PROVE Clean'
    <3>1. part' = [part EXCEPT ![c] = "right"] /\ getting' = getting \ {c} /\ todo' = todo
          /\ phase = "chunks"
      BY <1>2, <2>4 DEF Artifact!WriteAt, Artifact!Body
    <3>2. QED BY <1>1, <1>2, <3>1 DEF Clean
  <2>5. QED BY <2>1, <2>2, <2>3, <2>4
<1>3. FewErrors' => FewErrors
  BY <1>1 DEF FewErrors
<1>4. Honest # {} /\ FewErrors' => (HonestAhead /\ LateFew)'
  BY <1>1, <1>2, <1>3, GoesOn DEF ChanceInv
<1>5. QED BY <1>1, <1>4, Attempted DEF ChanceInv, Trying

(* The one error that a call outlives meets an attempt like the first (RangeFails). *)
LEMMA RangeMissed ==
    ASSUME ChanceInv, NEW c \in Artifact!Chunks, Artifact!RangeFails(c)
    PROVE  ChanceInv'
<1>1. /\ Trying /\ phase' = "chunks" /\ errors' = errors + 1 /\ failed' = TRUE
      /\ UNCHANGED <<urls, attempt, resumed, late>>
  BY DEF Artifact!RangeFails, Artifact!files, Trying
<1>2. errors' \in Nat /\ errors' # 0 /\ (FewErrors' => FewErrors /\ errors = 0 /\ ~resumed)
  BY <1>1 DEF ChanceInv, FewErrors
<1>3. ASSUME Honest # {}, FewErrors' PROVE (HonestAhead /\ LateFew)'
  <2>1. HonestAhead /\ late = {}
    BY <1>1, <1>2, <1>3 DEF ChanceInv, LateFew
  <2>2. Artifact!url' = Artifact!url
    BY <1>1 DEF Artifact!url
  <2>3. Artifact!url \in Honest => Patience'
    BY <1>1, <1>2, <1>3, <2>1 DEF HonestAhead, Patience
  <2>4. QED BY <1>1, <1>2, <2>1, <2>2, <2>3 DEF HonestAhead, LateFew
<1>4. QED BY <1>1, <1>2, <1>3, Attempted DEF Trying

(* The record that arrives too late costs the attempt after the error (LateMeta). *)
LEMMA RecordArrives ==
    ASSUME ChanceInv, NEW m \in late, Artifact!LateMeta(m)
    PROVE  ChanceInv'
<1>1. /\ late' = late \ {m}
      /\ UNCHANGED <<part, phase, urls, attempt, todo, getting, failed, resumed, errors>>
  BY DEF Artifact!LateMeta, Artifact!chunked, Artifact!bounds
<1>2. ASSUME Trying, HonestAhead, LateFew PROVE (HonestAhead /\ LateFew)'
  <2>1. late' = {} /\ ~failed /\ errors # 0
    BY <1>1, <1>2 DEF LateFew
  <2>2. Artifact!url' = Artifact!url
    BY <1>1 DEF Artifact!url
  <2>3. Artifact!url \in Honest => Patience'
    BY <1>1, <1>2, <2>1 DEF HonestAhead, Patience
  <2>4. QED BY <1>1, <1>2, <2>1, <2>2, <2>3 DEF HonestAhead, LateFew
<1>3. (Trying' <=> Trying) /\ (FewErrors' <=> FewErrors)
  BY <1>1 DEF Trying, FewErrors
<1>4. QED BY <1>1, <1>2, <1>3 DEF ChanceInv

(* What failed is tried again (GiveUp, Wait, StartStream, StreamFails, Verify). *)
LEMMA AttemptLost ==
    ASSUME Patient, ChanceInv, Trying, Artifact!AttemptFails, errors' \in Nat, errors <= errors',
           Honest # {} /\ FewErrors /\ HonestAhead /\ LateFew /\ FewErrors' =>
               /\ errors' = 0 => late' = {}
               /\ \A m, n \in late' : m = n
               /\ Artifact!url \in Honest => /\ attempt <= 2
                                             /\ late' # {} => attempt = 1
                                             /\ errors' = 0 => resumed
    PROVE  ChanceInv'
<1>1. resumed' = resumed /\ failed' = FALSE /\ phase' \in {"probe", "failed"}
  BY DEF Artifact!AttemptFails
<1>2. FewErrors' => FewErrors
  BY <1>1 DEF FewErrors, ChanceInv
<1>3. ASSUME Honest # {}, FewErrors'
      PROVE  (Trying /\ HonestAhead /\ LateFew)' /\ phase' # "failed"
  <2>1. FewErrors /\ HonestAhead /\ LateFew
    BY <1>2, <1>3 DEF ChanceInv
  <2>2. QED BY <1>3, <2>1, TriedAgain
<1>4. QED BY <1>1, <1>3 DEF ChanceInv

(* The end of the chunks (GiveUp, Wait). *)
LEMMA ChunksEnd ==
    ASSUME Patient, ChanceInv, Artifact!GiveUp \/ Artifact!Wait
    PROVE  ChanceInv'
<1>1. Trying /\ errors' = errors /\ phase = "chunks"
  BY DEF Artifact!GiveUp, Artifact!Wait, Trying, Artifact!bounds
<1>2. CASE Artifact!GiveUp
  <2>1. Artifact!AttemptFails /\ failed /\ \E r : late' \subseteq late \cup {r}
    BY <1>2 DEF Artifact!GiveUp
  <2>2. HonestAhead /\ LateFew => /\ errors' # 0 /\ \A m, n \in late' : m = n
                                  /\ Artifact!url \in Honest => attempt = 1
    BY <1>1, <2>1 DEF LateFew, HonestAhead, Patience
  <2>3. errors' \in Nat /\ errors <= errors'
    BY <1>1 DEF ChanceInv
  <2>4. HonestAhead => attempt \in Nat
    BY DEF HonestAhead
  <2>5. QED BY <1>1, <2>1, <2>2, <2>3, <2>4, AttemptLost
<1>3. CASE Artifact!Wait /\ failed
  <2>1. Artifact!AttemptFails /\ late' = late
    BY <1>3 DEF Artifact!Wait
  <2>2. HonestAhead /\ LateFew => /\ errors' # 0 /\ late' = {}
                                  /\ Artifact!url \in Honest => attempt = 1
    BY <1>1, <1>3, <2>1 DEF LateFew, HonestAhead, Patience
  <2>3. errors' \in Nat /\ errors <= errors'
    BY <1>1 DEF ChanceInv
  <2>4. QED BY <1>1, <2>1, <2>2, <2>3, AttemptLost
<1>4. CASE Artifact!Wait /\ ~failed
  <2>1. /\ phase' = "verify" /\ todo = {} /\ getting = {} /\ part' = part
        /\ UNCHANGED <<urls, attempt, resumed, late, errors, failed>>
    BY <1>4 DEF Artifact!Wait, Artifact!files, Artifact!chunked, Artifact!bounds
  <2>2. Clean => Clean'
    BY <1>1, <2>1 DEF Clean, Artifact!Whole
  <2>3. FewErrors' => FewErrors
    BY <2>1 DEF FewErrors
  <2>4. Honest # {} /\ FewErrors' => (HonestAhead /\ LateFew)'
    BY <1>1, <2>1, <2>2, <2>3, GoesOn DEF ChanceInv
  <2>5. QED BY <1>1, <2>1, <2>4, Attempted DEF ChanceInv, Trying
<1>5. QED BY <1>2, <1>3, <1>4

(* One stream instead of chunks (StartStream, Stream, StreamEnds, StreamFails). *)
LEMMA StreamComes ==
    ASSUME Patient, ChanceInv,
           Artifact!StartStream \/ Artifact!Stream \/ Artifact!StreamEnds \/ Artifact!StreamFails
    PROVE  ChanceInv'
<1>1. /\ Trying /\ late' = late /\ resumed' = resumed
      /\ errors' \in Nat /\ errors <= errors'
  BY DEF Artifact!StartStream, Artifact!Stream, Artifact!StreamEnds, Artifact!StreamFails, Trying,
         ChanceInv, Artifact!AttemptFails, Artifact!bounds
<1>2. FewErrors' => FewErrors /\ (errors' # errors => errors = 0 /\ ~resumed)
  <2>1. errors' # errors => errors' = errors + 1
    BY DEF Artifact!StartStream, Artifact!Stream, Artifact!StreamEnds, Artifact!StreamFails,
           Artifact!bounds
  <2>2. QED BY <1>1, <2>1 DEF FewErrors, ChanceInv
<1>3. CASE Artifact!StreamFails
  <2>1. Artifact!AttemptFails /\ errors' = errors + 1
    BY <1>3 DEF Artifact!StreamFails
  <2>2. HonestAhead /\ LateFew /\ FewErrors' =>
            late' = {} /\ errors' # 0 /\ (Artifact!url \in Honest => attempt = 1)
    BY <1>1, <1>2, <2>1 DEF LateFew, HonestAhead, Patience, ChanceInv
  <2>3. QED BY <1>1, <2>1, <2>2, AttemptLost
<1>4. CASE Artifact!StartStream /\ Artifact!StreamStart # 0 /\ Artifact!AttemptFails
  <2>1. phase = "probe" /\ ~Clean
    BY <1>4 DEF Artifact!StartStream, Artifact!StreamStart, Clean
  <2>2. ASSUME HonestAhead, LateFew, FewErrors'
        PROVE  /\ errors' = 0 => late' = {}
               /\ \A m, n \in late' : m = n
               /\ Artifact!url \in Honest => /\ attempt <= 2
                                             /\ late' # {} => attempt = 1
                                             /\ errors' = 0 => resumed
    BY <1>1, <2>1, <2>2 DEF LateFew, HonestAhead, Patience, ChanceInv
  <2>3. QED BY <1>1, <1>4, <2>2, AttemptLost
<1>5. ASSUME phase' \in {"stream", "verify"}, UNCHANGED <<urls, attempt, failed>>,
             Artifact!url \in Honest /\ Clean => Clean'
      PROVE  ChanceInv'
  <2>1. Artifact!url' = Artifact!url
    BY <1>5 DEF Artifact!url
  <2>2. ASSUME Honest # {}, FewErrors' PROVE (HonestAhead /\ LateFew)'
    <3>1. HonestAhead /\ LateFew
      BY <1>1, <1>2, <2>2 DEF ChanceInv
    <3>2. errors' = 0 => errors = 0
      BY <1>1 DEF ChanceInv
    <3>3. Artifact!url \in Honest => Patience'
      BY <1>1, <1>5, <3>1, <3>2 DEF HonestAhead, Patience
    <3>4. QED BY <1>1, <1>5, <2>1, <3>1, <3>2, <3>3 DEF HonestAhead, LateFew
  <2>3. QED BY <1>1, <1>5, <2>2, Attempted DEF ChanceInv, Trying
<1>6. CASE Artifact!StartStream /\ phase' = "stream"
  <2>1. phase = "probe" /\ UNCHANGED <<urls, attempt, failed>>
        /\ part' = IF Artifact!StreamStart = 0 THEN <<>> ELSE part
    BY <1>6 DEF Artifact!StartStream, Artifact!AttemptFails, Artifact!chunked
  <2>2. Clean => Clean'
    BY <1>6, <2>1 DEF Clean, Artifact!StreamStart
  <2>3. QED BY <1>5, <1>6, <2>1, <2>2
<1>7. CASE Artifact!Stream \/ Artifact!StreamEnds
  <2>1. phase = "stream" /\ phase' \in {"stream", "verify"} /\ UNCHANGED <<urls, attempt, failed>>
    BY <1>7 DEF Artifact!Stream, Artifact!StreamEnds, Artifact!chunked
  <2>2. ASSUME Artifact!StreamEnds, Clean PROVE Clean'
    <3>1. part' = part /\ part \in Seq({"right"}) /\ Len(part) = Size /\ phase' = "verify"
      BY <2>1, <2>2 DEF Artifact!StreamEnds, Clean
    <3>2. part = [i \in 1 .. Size |-> "right"]
      BY <3>1
    <3>3. QED BY <3>1, <3>2 DEF Clean, Artifact!Whole, Artifact!Chunks
  <2>3. CASE Artifact!Stream
    <3>1. phase' = "stream" /\ part' = Append(part, Artifact!Body(Artifact!url))
      BY <2>1, <2>3 DEF Artifact!Stream
    <3>2. ASSUME Artifact!url \in Honest, Clean PROVE Clean'
      <4>1. part' = Append(part, "right") /\ part \in Seq({"right"})
        BY <2>1, <3>1, <3>2 DEF Artifact!Body, Clean
      <4>2. part' \in Seq({"right"})
        BY <4>1
      <4>3. QED BY <3>1, <4>2 DEF Clean
    <3>3. QED BY <1>5, <2>1, <3>2
  <2>4. QED BY <1>5, <1>7, <2>1, <2>2, <2>3
<1>8. QED
  BY <1>3, <1>4, <1>6, <1>7 DEF Artifact!StartStream

(* A file that an honest mirror served from the beginning is whole (Verify). *)
LEMMA FileCompared ==
    ASSUME Patient, ChanceInv, Artifact!Verify
    PROVE  ChanceInv'
<1>1. phase = "verify" /\ Trying /\ UNCHANGED <<late, errors>>
  BY DEF Artifact!Verify, Trying, Artifact!bounds
<1>2. CASE phase' = "rename" /\ UNCHANGED <<part, failed>>
  BY <1>1, <1>2, Attempted DEF ChanceInv
<1>3. CASE ~Artifact!Whole(part) /\ Artifact!AttemptFails
  <2>1. ~Clean /\ errors' \in Nat /\ errors <= errors'
    BY <1>1, <1>3 DEF Clean, ChanceInv
  <2>2. ASSUME HonestAhead, LateFew
        PROVE  /\ errors' = 0 => late' = {}
               /\ \A m, n \in late' : m = n
               /\ Artifact!url \in Honest => /\ attempt <= 2
                                             /\ late' # {} => attempt = 1
                                             /\ errors' = 0 => resumed
    BY <1>1, <2>1, <2>2 DEF LateFew, HonestAhead, Patience
  <2>3. QED BY <1>1, <1>3, <2>1, <2>2, AttemptLost
<1>4. QED BY <1>2, <1>3 DEF Artifact!Verify, Artifact!files, Artifact!chunked

(* Every step of a download keeps the chance of an honest mirror. *)
LEMMA ChanceStep ==
    ASSUME Patient, ChanceInv, Artifact!DownloadNext PROVE ChanceInv'
<1>1. CASE Artifact!Rename
  <2>1. phase' = "ok" /\ UNCHANGED <<failed, errors>>
    BY <1>1 DEF Artifact!Rename, Artifact!chunked, Artifact!bounds
  <2>2. QED BY <2>1 DEF ChanceInv, Trying
<1>2. CASE Artifact!Die
  <2>1. phase' = "called" /\ failed' = FALSE /\ late' = {} /\ errors' = errors
    BY <1>2 DEF Artifact!Die
  <2>2. QED BY <2>1 DEF ChanceInv, Trying
<1>3. QED
  BY <1>1, <1>2, DownloadBegins, ChunksCome, RangeMissed, RecordArrives, ChunksEnd, StreamComes,
     FileCompared
     DEF Artifact!DownloadNext

(* Every step of a download: the file in place is written by the rename only, which comes
   after Verify has compared the whole of it. *)
LEMMA DownloadStep ==
    ASSUME DownloadInv, Artifact!DownloadNext PROVE DownloadInv'
<1>1. ASSUME NEW order \in Artifact!Orders, Artifact!DownloadArtifact(order)
      PROVE  DownloadInv'
  BY <1>1 DEF Artifact!DownloadArtifact, Artifact!files, DownloadInv
<1>2. ASSUME Artifact!AttemptFails PROVE phase' \in {"probe", "failed"} /\ DownloadInv'
  BY <1>2 DEF Artifact!AttemptFails, DownloadInv
<1>3. CASE Artifact!StartChunks \/ Artifact!WritePartMeta \/ Artifact!GiveUp \/ Artifact!Wait
  BY <1>2, <1>3
     DEF Artifact!StartChunks, Artifact!WritePartMeta, Artifact!GiveUp, Artifact!Wait,
         DownloadInv
<1>4. ASSUME NEW c \in Artifact!Chunks,
             Artifact!Start(c) \/ Artifact!WriteAt(c) \/ Artifact!RangeFails(c)
      PROVE  DownloadInv'
  BY <1>4 DEF Artifact!Start, Artifact!WriteAt, Artifact!RangeFails, DownloadInv
<1>5. ASSUME NEW m \in late, Artifact!LateMeta(m) PROVE DownloadInv'
  BY <1>5 DEF Artifact!LateMeta, Artifact!Whole, DownloadInv
<1>6. CASE Artifact!StartStream \/ Artifact!Stream \/ Artifact!StreamEnds \/ Artifact!StreamFails
  BY <1>2, <1>6
     DEF Artifact!StartStream, Artifact!Stream, Artifact!StreamEnds, Artifact!StreamFails,
         DownloadInv
<1>7. CASE Artifact!Verify
  <2>1. CASE Artifact!Whole(part) /\ part' = part /\ phase' = "rename"
    BY <2>1 DEF Artifact!Whole, DownloadInv
  <2>2. QED BY <1>2, <1>7, <2>1 DEF Artifact!Verify, Artifact!files
<1>8. CASE Artifact!Rename \/ Artifact!Die
  BY <1>8 DEF Artifact!Rename, Artifact!Die, DownloadInv
<1>9. QED BY <1>1, <1>3, <1>4, <1>5, <1>6, <1>7, <1>8 DEF Artifact!DownloadNext

-----------------------------------------------------------------------------
(* The choice of a target from an index. *)

(* The prover knows no induction over an operator; a set of numbers in which a claim
   fails has a least one instead. *)
LEMMA LeastNumber ==
    ASSUME NEW S \in SUBSET Nat, S # {}
    PROVE  \E m \in S : \A k \in S : m <= k
<1> DEFINE R == OpToRel(<, Nat)
<1>1. IsWellFoundedOn(R, Nat)
  BY NatLessThanWellFounded, Zenon
<1>2. \A u, v \in Nat : u < v => <<u, v>> \in R
  BY Zenon DEF OpToRel
<1> HIDE DEF R
<1>3. PICK m \in S : \A k \in S : ~(<<k, m>> \in R)
  BY <1>1, WFMin
<1>4. \A k \in S : ~(k < m)
  BY <1>2, <1>3
<1>5. QED BY <1>3, <1>4

(* A version, and an index: its codes are bounded and there are not too many. *)
Version == [code : Nat, minFrom : Nat, yanked : BOOLEAN]

Index(V, n) == /\ V \subseteq Version /\ n \in Nat /\ \A v \in V : v.code <= n

(* Highest is what its name says. *)
LEMMA HighestOf ==
    ASSUME NEW V, NEW n, Index(V, n), NEW W \in SUBSET V, W # {}
    PROVE  Target!Highest(W) \in W /\ \A w \in W : w.code <= Target!Highest(W).code
<1> DEFINE S == {n - w.code : w \in W}
<1>1. \A w \in W : w.code \in Nat /\ n - w.code \in Nat
  BY DEF Index, Version
<1>2. S \in SUBSET Nat /\ S # {}
  BY <1>1
<1>3. PICK m \in S : \A k \in S : m <= k
  BY <1>2, LeastNumber
<1>4. PICK v \in W : m = n - v.code
  BY <1>3
<1>5. ASSUME NEW w \in W PROVE w.code <= v.code
  <2>1. m <= n - w.code /\ n \in Nat
    BY <1>3 DEF Index
  <2>2. w.code \in Nat /\ v.code \in Nat
    BY <1>1
  <2>3. QED BY <1>4, <2>1, <2>2
<1>6. \E v1 \in W : \A w \in W : w.code <= v1.code
  BY <1>5
<1>7. QED BY <1>6, Zenon DEF Target!Highest

(* The target of a client may be installed, and no candidate is higher
   (SelectNextTarget). *)
LEMMA TargetOf ==
    ASSUME NEW V, NEW n, Index(V, n), NEW k \in Nat, Target!Candidates(V, k) # {}
    PROVE  LET t == Target!SelectNextTarget(V, k) IN
           /\ t \in V /\ ~t.yanked /\ t.code \in Nat /\ t.code > k /\ t.minFrom \in Nat /\ t.minFrom <= k
           /\ \A w \in Target!Candidates(V, k) : w.code <= t.code
<1> DEFINE W == Target!Candidates(V, k)
<1>1. W \in SUBSET V /\ W # {}
  BY DEF Target!Candidates
<1>2. Target!Highest(W) \in W /\ \A w \in W : w.code <= Target!Highest(W).code
  <2> HIDE DEF W
  <2>1. QED BY <1>1, HighestOf
<1>3. QED BY <1>2 DEF Target!SelectNextTarget, Target!Candidates, Index, Version

(* What a hop function is at one code, given what it is at the others. *)
Hop(V, k, g) ==
    IF Target!Candidates(V, k) = {} THEN <<>>
    ELSE <<Target!SelectNextTarget(V, k)>> \o g[Target!SelectNextTarget(V, k).code]

(* Hops go up, so that the recursion ends: the function exists
   (ResolveUpgradePath). *)
LEMMA HopsExist ==
    ASSUME NEW V, NEW n, Index(V, n), NEW D \in SUBSET Nat, NEW m \in Nat, \A k \in D : k <= m,
           \A v \in V : v.code \in D
    PROVE  \E g : g = [k \in D |-> Hop(V, k, g)]
<1> DEFINE From(i) == {k \in D : k + i > m}
           Known(i) == \E g : g = [k \in From(i) |-> Hop(V, k, g)]
           S == {i \in Nat : ~Known(i)}
<1>0. \A k \in D : k \in Nat /\ k <= m
  OBVIOUS
<1>1. Known(0)
  <2>1. \A k \in D : ~(k + 0 > m)
    BY <1>0
  <2>2. From(0) = {}
    BY <2>1
  <2>3. <<>> = [k \in From(0) |-> Hop(V, k, <<>>)]
    BY <2>2
  <2>4. QED BY <2>3
<1>2. ASSUME NEW i \in Nat, Known(i) PROVE Known(i + 1)
  <2>1. PICK g : g = [k \in From(i) |-> Hop(V, k, g)]
    BY <1>2
  <2> DEFINE new == [k \in From(i + 1) |-> IF k \in From(i) THEN g[k] ELSE Hop(V, k, g)]
  <2>2. ASSUME NEW k \in From(i + 1), Target!Candidates(V, k) # {}
        PROVE  /\ Target!SelectNextTarget(V, k).code \in From(i)
               /\ new[Target!SelectNextTarget(V, k).code] = g[Target!SelectNextTarget(V, k).code]
    <3> DEFINE t == Target!SelectNextTarget(V, k)
    <3>1. k \in Nat /\ k + (i + 1) > m
      OBVIOUS
    <3>2. t \in V /\ t.code \in Nat /\ t.code > k
      BY <2>2, <3>1, TargetOf
    <3> HIDE DEF t
    <3>3. t.code \in From(i) /\ t.code \in From(i + 1)
      BY <3>1, <3>2
    <3>4. new[t.code] = g[t.code]
      BY <3>3
    <3>5. QED BY <3>3, <3>4 DEF t
  <2>3. ASSUME NEW k \in From(i + 1) PROVE Hop(V, k, new) = Hop(V, k, g)
    <3> HIDE DEF new, From
    <3>1. QED BY <2>2, <2>3 DEF Hop
  <2>4. ASSUME NEW k \in From(i + 1) PROVE new[k] = Hop(V, k, new)
    <3>1. new[k] = IF k \in From(i) THEN g[k] ELSE Hop(V, k, g)
      OBVIOUS
    <3>2. k \in From(i) => g[k] = Hop(V, k, g)
      <4> HIDE DEF new, From
      <4>1. QED BY <2>1
    <3>3. QED
      <4> HIDE DEF new, From
      <4>1. QED BY <2>3, <2>4, <3>1, <3>2
  <2>5. new = [k \in From(i + 1) |-> Hop(V, k, new)]
    <3>1. new = [k \in From(i + 1) |-> new[k]]
      OBVIOUS
    <3> HIDE DEF new, From
    <3>2. QED BY <2>4, <3>1
  <2> HIDE DEF new
  <2>6. QED BY <2>5
<1>3. S = {}
  <2> SUFFICES ASSUME S # {} PROVE FALSE
    OBVIOUS
  <2> HIDE DEF Known
  <2>1. PICK i \in S : \A j \in S : i <= j
    BY LeastNumber
  <2>2. i \in Nat /\ ~Known(i) /\ i # 0
    BY <1>1, <2>1
  <2>3. i - 1 \in Nat /\ ~(i - 1 \in S)
    BY <2>1, <2>2
  <2>4. Known(i - 1)
    BY <2>3
  <2>5. Known((i - 1) + 1)
    BY <1>2, <2>3, <2>4
  <2>6. QED BY <2>2, <2>5
<1>4. Known(m + 1)
  <2> HIDE DEF Known
  <2>1. QED BY <1>3
<1>5. From(m + 1) = D
  <2>1. \A k \in D : k + (m + 1) > m
    BY <1>0
  <2>2. QED BY <2>1
<1>6. QED
  <2>1. \E g : g = [k \in From(m + 1) |-> Hop(V, k, g)]
    BY <1>4
  <2> HIDE DEF From
  <2>2. QED BY <1>5, <2>1

(* It is what its definition says. *)
LEMMA HopsOf ==
    ASSUME NEW V, NEW n, Index(V, n), NEW D \in SUBSET Nat, NEW m \in Nat, \A k \in D : k <= m,
           \A v \in V : v.code \in D
    PROVE  \A k \in D : Target!Hops(V, D)[k] = Hop(V, k, Target!Hops(V, D))
<1> DEFINE P == Target!Hops(V, D)
<1>1. \E g : g = [k \in D |-> Hop(V, k, g)]
  BY HopsExist
<1>2. P = CHOOSE g : g = [k \in D |-> Hop(V, k, g)]
  BY Zenon DEF Target!Hops, Hop
<1>3. P = [k \in D |-> Hop(V, k, P)]
  <2> HIDE DEF P
  <2>1. QED BY <1>1, <1>2, Zenon
<1> HIDE DEF P
<1>4. \A k \in D : P[k] = Hop(V, k, P)
  BY <1>3
<1>5. QED BY <1>4 DEF P

(* The code of the head, and the clients that are offered something at every code below
   it. *)
HeadCode(V) == Target!FindHead(V).code

Covered(V, c) == \A x \in c .. HeadCode(V) - 1 : Target!Candidates(V, x) # {}

(* The head is the highest release that may be installed (FindHead). *)
LEMMA HeadOf ==
    ASSUME NEW V, NEW n, Index(V, n), Target!Installable(V) # {}
    PROVE  /\ Target!FindHead(V) \in V /\ ~Target!FindHead(V).yanked /\ HeadCode(V) \in Nat
           /\ \A w \in V : ~w.yanked => w.code <= HeadCode(V)
<1> DEFINE W == Target!Installable(V)
<1>1. W \in SUBSET V /\ W # {}
  BY DEF Target!Installable
<1>2. Target!Highest(W) \in W /\ \A w \in W : w.code <= Target!Highest(W).code
  <2> HIDE DEF W
  <2>1. QED BY <1>1, HighestOf
<1>3. QED BY <1>2 DEF HeadCode, Target!FindHead, Target!Installable, Index, Version

(* Nothing is offered at the head or above it (Candidates). *)
LEMMA NothingAboveHead ==
    ASSUME NEW V, NEW n, Index(V, n), Target!Installable(V) # {}, NEW k \in Nat, HeadCode(V) <= k
    PROVE  Target!Candidates(V, k) = {}
<1>1. HeadCode(V) \in Nat /\ \A w \in V : ~w.yanked => w.code <= HeadCode(V)
  BY HeadOf
<1>2. \A w \in V : w.code \in Nat
  BY DEF Index, Version
<1>3. ASSUME NEW w \in Target!Candidates(V, k) PROVE FALSE
  <2>1. w \in V /\ ~w.yanked /\ w.code > k
    BY DEF Target!Candidates
  <2>2. QED BY <1>1, <1>2, <2>1
<1>4. QED BY <1>3

(* A hop misses no gap: whoever stands between its two ends may take it too
   (SelectNextTarget). *)
LEMMA HopMissesNoGap ==
    ASSUME NEW V, NEW n, Index(V, n), Target!Installable(V) # {}, NEW k \in Nat,
           Target!Candidates(V, k) # {}
    PROVE  LET t == Target!SelectNextTarget(V, k) IN
           /\ k < HeadCode(V) /\ t.code <= HeadCode(V)
           /\ Covered(V, k) <=> Covered(V, t.code)
<1> DEFINE t == Target!SelectNextTarget(V, k)
<1>1. t \in V /\ ~t.yanked /\ t.code \in Nat /\ t.code > k /\ t.minFrom \in Nat /\ t.minFrom <= k
  BY TargetOf
<1> HIDE DEF t
<1>2. HeadCode(V) \in Nat /\ \A w \in V : ~w.yanked => w.code <= HeadCode(V)
  BY HeadOf
<1>3. t.code <= HeadCode(V) /\ k < HeadCode(V)
  BY <1>1, <1>2
<1>4. ASSUME NEW x \in k .. t.code - 1 PROVE Target!Candidates(V, x) # {}
  <2>1. x \in Int /\ t.minFrom <= x /\ t.code > x
    BY <1>1
  <2>2. t \in Target!Candidates(V, x)
    BY <1>1, <2>1 DEF Target!Candidates
  <2>3. QED BY <2>2
<1>5. ASSUME Covered(V, t.code), NEW x \in k .. HeadCode(V) - 1
      PROVE  Target!Candidates(V, x) # {}
  <2>1. x \in k .. t.code - 1 \/ x \in t.code .. HeadCode(V) - 1
    BY <1>1, <1>2
  <2>2. QED BY <1>4, <1>5, <2>1 DEF Covered
<1>6. ASSUME Covered(V, k), NEW x \in t.code .. HeadCode(V) - 1
      PROVE  Target!Candidates(V, x) # {}
  <2>1. x \in k .. HeadCode(V) - 1
    BY <1>1, <1>2
  <2>2. QED BY <1>6, <2>1 DEF Covered
<1>7. Covered(V, k) <=> Covered(V, t.code)
  BY <1>5, <1>6 DEF Covered
<1>8. QED BY <1>3, <1>7 DEF t

(* What one wants of the hops from a code. *)
LeadsUp(V, P, k) ==
    /\ P[k] \in Seq(V)
    /\ (P[k] # <<>> /\ P[k][Len(P[k])].code = HeadCode(V)) <=> (k < HeadCode(V) /\ Covered(V, k))

(* Hops from a code lead up if those from the next one do (ResolveUpgradePath). *)
LEMMA HopLeadsUp ==
    ASSUME NEW V, NEW n, Index(V, n), Target!Installable(V) # {}, NEW P, NEW k \in Nat,
           P[k] = Hop(V, k, P),
           Target!Candidates(V, k) # {} =>
               LET t == Target!SelectNextTarget(V, k)
               IN  /\ LeadsUp(V, P, t.code)
                   /\ Target!Candidates(V, t.code) = {} => P[t.code] = <<>>
                   /\ HeadCode(V) <= t.code => P[t.code] = <<>>
    PROVE  LeadsUp(V, P, k)
<1> DEFINE h == HeadCode(V)
           t == Target!SelectNextTarget(V, k)
<1>1. h \in Nat
  BY HeadOf
<1>2. CASE Target!Candidates(V, k) = {}
  <2>1. P[k] = <<>>
    BY <1>2 DEF Hop
  <2>2. ~(k < h /\ Covered(V, k))
    <3>1. k < h => k \in k .. h - 1
      BY <1>1
    <3>2. QED BY <1>2, <3>1 DEF Covered
  <2>3. <<>> \in Seq(V)
    OBVIOUS
  <2>4. QED BY <2>1, <2>2, <2>3 DEF LeadsUp
<1>3. CASE Target!Candidates(V, k) # {}
  <2>1. t \in V /\ t.code \in Nat
    BY <1>3, TargetOf
  <2>2. k < h /\ t.code <= h /\ (Covered(V, k) <=> Covered(V, t.code))
    BY <1>3, HopMissesNoGap
  <2>3. P[k] = <<t>> \o P[t.code]
    BY <1>3 DEF Hop
  <2>4. LeadsUp(V, P, t.code) /\ (h <= t.code => P[t.code] = <<>>)
    BY <1>3
  <2> HIDE DEF t, h
  <2> DEFINE s == P[t.code]
  <2>5. s \in Seq(V)
    BY <2>4 DEF LeadsUp
  <2>6. P[k] \in Seq(V) /\ P[k] # <<>> /\ Len(P[k]) = 1 + Len(s)
    <3> HIDE DEF s
    <3>1. P[k] = <<t>> \o s
      BY <2>3 DEF s
    <3>2. <<t>> \in Seq(V) /\ Len(<<t>>) = 1
      BY <2>1
    <3>3. QED BY <2>5, <3>1, <3>2
  <2>7. CASE s = <<>>
    <3>1. P[k] = <<t>>
      BY <2>3, <2>7
    <3>2. P[k][Len(P[k])] = t
      BY <3>1
    <3>3. t.code = h => Covered(V, t.code)
      <4>1. t.code = h => t.code .. h - 1 = {}
        BY <1>1
      <4>2. QED BY <4>1 DEF Covered, h
    <3>4. ~(t.code < h /\ Covered(V, t.code))
      BY <2>4, <2>7 DEF LeadsUp, h
    <3>5. t.code = h <=> Covered(V, k)
      BY <1>1, <2>1, <2>2, <3>3, <3>4
    <3>6. QED BY <2>2, <2>6, <3>2, <3>5 DEF LeadsUp, h
  <2>8. CASE s # <<>>
    <3>1. t.code < h
      BY <1>1, <2>1, <2>2, <2>4, <2>8
    <3>2. P[k][Len(P[k])] = s[Len(s)]
      <4> HIDE DEF s
      <4>1. P[k] = <<t>> \o s
        BY <2>3 DEF s
      <4>2. Len(s) \in Nat /\ Len(s) >= 1
        BY <2>5, <2>8
      <4>3. QED BY <2>5, <2>6, <4>1, <4>2
    <3>3. s[Len(s)].code = h <=> Covered(V, t.code)
      BY <2>4, <2>8, <3>1 DEF LeadsUp, h
    <3>4. QED BY <2>2, <2>6, <3>2, <3>3 DEF LeadsUp, h
  <2>9. QED BY <2>7, <2>8
<1>4. QED BY <1>2, <1>3

(* The hops from a code end at the head if and only if something is offered at every code
   from there to the head (ResolveUpgradePath, SPEC 10.1). *)
LEMMA HopsLeadUp ==
    ASSUME NEW V, NEW n, Index(V, n), Target!Installable(V) # {}, NEW D \in SUBSET Nat,
           NEW m \in Nat, \A k \in D : k <= m, \A v \in V : v.code \in D
    PROVE  \A k \in D : LeadsUp(V, Target!Hops(V, D), k)
<1> DEFINE P == Target!Hops(V, D)
           S == {m - k : k \in {x \in D : ~LeadsUp(V, P, x)}}
<1>1. \A k \in D : P[k] = Hop(V, k, P)
  BY HopsOf
<1> HIDE DEF P
<1>2. \A k \in D : k \in Nat /\ m - k \in Nat
  OBVIOUS
<1>3. S = {}
  <2> SUFFICES ASSUME S # {} PROVE FALSE
    OBVIOUS
  <2>1. S \in SUBSET Nat
    BY <1>2
  <2>2. PICK i \in S : \A j \in S : i <= j
    BY <2>1, LeastNumber
  <2>3. PICK k \in D : i = m - k /\ ~LeadsUp(V, P, k)
    BY <2>2
  <2>4. ASSUME NEW x \in D, x > k PROVE LeadsUp(V, P, x)
    <3> SUFFICES ASSUME ~LeadsUp(V, P, x) PROVE FALSE
      OBVIOUS
    <3>1. m - x \in S
      BY <2>4
    <3>2. i <= m - x
      BY <2>2, <3>1
    <3>3. QED BY <1>2, <2>3, <2>4, <3>2
  <2>5. ASSUME Target!Candidates(V, k) # {}
        PROVE  LET t == Target!SelectNextTarget(V, k)
               IN  /\ LeadsUp(V, P, t.code)
                   /\ Target!Candidates(V, t.code) = {} => P[t.code] = <<>>
                   /\ HeadCode(V) <= t.code => P[t.code] = <<>>
    <3> DEFINE t == Target!SelectNextTarget(V, k)
    <3>1. t \in V /\ t.code \in Nat /\ t.code > k
      BY <1>2, <2>5, TargetOf
    <3> HIDE DEF t
    <3>2. t.code \in D
      BY <3>1
    <3>3. LeadsUp(V, P, t.code)
      BY <2>4, <3>1, <3>2
    <3>4. Target!Candidates(V, t.code) = {} => P[t.code] = <<>>
      BY <1>1, <3>2 DEF Hop
    <3>5. HeadCode(V) <= t.code => Target!Candidates(V, t.code) = {}
      BY <3>1, NothingAboveHead
    <3>6. QED BY <3>3, <3>4, <3>5 DEF t
  <2>6. P[k] = Hop(V, k, P) /\ k \in Nat
    BY <1>1, <1>2
  <2>7. LeadsUp(V, P, k)
    BY <2>5, <2>6, HopLeadsUp
  <2>8. QED BY <2>3, <2>7
<1>4. \A k \in D : LeadsUp(V, P, k)
  BY <1>3
<1>5. QED BY <1>4 DEF P

(* Whether the head is reached is decided by the gaps (ReachesHead). *)
LEMMA ReachesByGaps ==
    ASSUME NEW V, NEW n, Index(V, n), Target!Installable(V) # {}, NEW c \in Nat
    PROVE  Target!ReachesHead(V, c) <=> c < HeadCode(V) /\ Covered(V, c)
<1> DEFINE D == {c} \cup {v.code : v \in V}
           P == Target!Hops(V, D)
<1>1. n \in Nat /\ \A v \in V : v.code \in Nat /\ v.code <= n
  BY DEF Index, Version
<1>2. D \in SUBSET Nat /\ c + n \in Nat /\ c \in D
  BY <1>1
<1>3. \A k \in D : k <= c + n
  BY <1>1
<1>4. \A v \in V : v.code \in D
  OBVIOUS
<1>5. LeadsUp(V, P, c)
  <2> HIDE DEF D
  <2>1. QED BY <1>2, <1>3, <1>4, HopsLeadUp
<1>6. Target!ResolveUpgradePath(V, c) = P[c]
  BY DEF Target!ResolveUpgradePath
<1> HIDE DEF P
<1>7. Target!ReachesHead(V, c) <=> P[c] # <<>> /\ P[c][Len(P[c])].code = HeadCode(V)
  BY <1>6, Zenon DEF Target!ReachesHead, HeadCode, Target!Len, Len
<1>8. QED BY <1>5, <1>7 DEF LeadsUp

(* The reference: the codes that some chain of at most i legal installs leads to. *)
Nearby(c, i, g) ==
    IF i = 0 THEN {c}
    ELSE g[i - 1] \cup {v.code : v \in {w \in versions : \E k \in g[i - 1] : Target!LegalHop(k, w)}}

(* A function with this recursion exists, and Within is one: each step needs the one
   before it only. *)
LEMMA WithinExists ==
    ASSUME NEW c
    PROVE  \E g : g = [i \in 0 .. MaxVersions |-> Nearby(c, i, g)]
<1> DEFINE Known(i) == \E g : g = [j \in 0 .. i |-> Nearby(c, j, g)]
           S == {i \in Nat : ~Known(i)}
<1>1. Known(0)
  <2> DEFINE g0 == [j \in 0 .. 0 |-> {c}]
  <2>1. \A j \in 0 .. 0 : Nearby(c, j, g0) = {c}
    BY DEF Nearby
  <2>2. g0 = [j \in 0 .. 0 |-> Nearby(c, j, g0)]
    <3> DEFINE N(j) == Nearby(c, j, g0)
    <3>1. \A j \in 0 .. 0 : N(j) = {c}
      BY <2>1
    <3> HIDE DEF N
    <3>2. g0 = [j \in 0 .. 0 |-> N(j)]
      BY <3>1
    <3>3. QED BY <3>2 DEF N
  <2> HIDE DEF g0
  <2>3. QED BY <2>2
<1>2. ASSUME NEW i \in Nat, Known(i) PROVE Known(i + 1)
  <2>1. PICK g : g = [j \in 0 .. i |-> Nearby(c, j, g)]
    BY <1>2
  <2> DEFINE new == [j \in 0 .. i + 1 |-> IF j <= i THEN g[j] ELSE Nearby(c, j, g)]
  <2>2. \A j \in 0 .. i : g[j] = Nearby(c, j, g) /\ new[j] = g[j]
    <3>1. \A j \in 0 .. i : g[j] = Nearby(c, j, g)
      BY <2>1
    <3>2. \A j \in 0 .. i : j \in 0 .. i + 1 /\ j <= i
      OBVIOUS
    <3>3. \A j \in 0 .. i : new[j] = g[j]
      BY <3>2
    <3>4. QED BY <3>1, <3>3
  <2>3. ASSUME NEW j \in 0 .. i + 1 PROVE Nearby(c, j, new) = Nearby(c, j, g)
    <3>1. j # 0 => j - 1 \in 0 .. i
      OBVIOUS
    <3>2. j # 0 => new[j - 1] = g[j - 1]
      BY <2>2, <3>1
    <3> HIDE DEF new
    <3>3. QED BY <3>2 DEF Nearby
  <2>4. ASSUME NEW j \in 0 .. i + 1 PROVE new[j] = Nearby(c, j, new)
    <3>1. new[j] = IF j <= i THEN g[j] ELSE Nearby(c, j, g)
      OBVIOUS
    <3>2. j <= i => j \in 0 .. i
      OBVIOUS
    <3> HIDE DEF new
    <3>3. QED BY <2>2, <2>3, <3>1, <3>2
  <2>5. new = [j \in 0 .. i + 1 |-> Nearby(c, j, new)]
    <3>1. new = [j \in 0 .. i + 1 |-> new[j]]
      OBVIOUS
    <3> HIDE DEF new
    <3>2. QED BY <2>4, <3>1
  <2> HIDE DEF new
  <2>6. QED BY <2>5
<1>3. S = {}
  <2> SUFFICES ASSUME S # {} PROVE FALSE
    OBVIOUS
  <2> HIDE DEF Known
  <2>1. PICK i \in S : \A j \in S : i <= j
    BY LeastNumber
  <2>2. i \in Nat /\ ~Known(i) /\ i # 0
    BY <1>1, <2>1
  <2>3. i - 1 \in Nat /\ ~(i - 1 \in S)
    BY <2>1, <2>2
  <2>4. Known(i - 1)
    BY <2>3
  <2>5. Known((i - 1) + 1)
    BY <1>2, <2>3, <2>4
  <2>6. QED BY <2>2, <2>5
<1>4. Known(MaxVersions)
  <2> HIDE DEF Known
  <2>1. QED BY <1>3, CodesAssumption
<1>5. QED BY <1>4

(* So each step of the reference adds the installs that are legal from the step before. *)
LEMMA WithinOf ==
    ASSUME NEW c
    PROVE  \A i \in 0 .. MaxVersions : Target!Within(c)[i] = Nearby(c, i, Target!Within(c))
<1> DEFINE W == Target!Within(c)
<1>1. \E g : g = [i \in 0 .. MaxVersions |-> Nearby(c, i, g)]
  BY WithinExists
<1>2. W = CHOOSE g : g = [i \in 0 .. MaxVersions |-> Nearby(c, i, g)]
  BY Zenon DEF Target!Within, Nearby
<1>3. W = [i \in 0 .. MaxVersions |-> Nearby(c, i, W)]
  <2> HIDE DEF W
  <2>1. QED BY <1>1, <1>2, Zenon
<1> HIDE DEF W
<1>4. \A i \in 0 .. MaxVersions : W[i] = Nearby(c, i, W)
  BY <1>3
<1>5. QED BY <1>4 DEF W

(* What is known of the index of the model. *)
TargetInv ==
    /\ versions \subseteq Target!Universe
    /\ IsFiniteSet(versions) /\ Cardinality(versions) <= MaxVersions
    /\ \E n \in Nat : Index(versions, n)
    /\ minSupported \in Codes \cup {Target!NoMinSupported}

(* What a chain of legal installs leads to has no gap below it (LegalHop). *)
LEMMA NoGapBelow ==
    ASSUME TargetInv, NEW c \in Nat, NEW i \in 0 .. MaxVersions
    PROVE  \A k \in Target!Within(c)[i] :
               k \in Nat /\ c <= k /\ \A x \in c .. k - 1 : Target!Candidates(versions, x) # {}
<1> DEFINE W == Target!Within(c)
           Good(k) == k \in Nat /\ c <= k /\ \A x \in c .. k - 1 : Target!Candidates(versions, x) # {}
           S == {j \in Nat : j <= MaxVersions /\ ~\A k \in W[j] : Good(k)}
<1>1. \A j \in 0 .. MaxVersions : W[j] = Nearby(c, j, W)
  BY WithinOf
<1> HIDE DEF W
<1>2. MaxVersions \in Nat
  BY CodesAssumption
<1>3. \A v \in versions : v.code \in Nat /\ v.minFrom \in Nat
  BY DEF TargetInv, Index, Version
<1>4. Good(c)
  OBVIOUS
<1>5. ASSUME NEW k \in Nat, Good(k), NEW v \in versions, Target!LegalHop(k, v) PROVE Good(v.code)
  <2>1. ~v.yanked /\ k < v.code /\ k >= v.minFrom /\ v.code \in Nat /\ v.minFrom \in Nat
    BY <1>3, <1>5 DEF Target!LegalHop
  <2>2. ASSUME NEW x \in c .. v.code - 1 PROVE Target!Candidates(versions, x) # {}
    <3>1. x \in c .. k - 1 \/ (x \in Int /\ k <= x /\ x < v.code)
      BY <1>5, <2>1
    <3>2. CASE x \in c .. k - 1
      BY <1>5, <3>2
    <3>3. CASE x \in Int /\ k <= x /\ x < v.code
      <4>1. v.code > x /\ v.minFrom <= x
        BY <2>1, <3>3
      <4>2. v \in Target!Candidates(versions, x)
        BY <2>1, <4>1 DEF Target!Candidates
      <4>3. QED BY <4>2
    <3>4. QED BY <3>1, <3>2, <3>3
  <2>3. c <= v.code
    BY <1>5, <2>1
  <2>4. QED BY <2>1, <2>2, <2>3
<1>6. S = {}
  <2> SUFFICES ASSUME S # {} PROVE FALSE
    OBVIOUS
  <2>1. PICK j \in S : \A j2 \in S : j <= j2
    BY LeastNumber
  <2>2. j \in Nat /\ j <= MaxVersions /\ j \in 0 .. MaxVersions
    BY <1>2, <2>1
  <2>3. PICK k \in W[j] : ~Good(k)
    BY <2>1
  <2>4. W[j] = Nearby(c, j, W)
    BY <1>1, <2>2
  <2> HIDE DEF Good
  <2>5. j # 0
    BY <1>4, <2>3, <2>4 DEF Nearby
  <2>6. \A k2 \in W[j - 1] : Good(k2)
    <3>1. j - 1 \in Nat /\ j - 1 <= MaxVersions /\ ~(j - 1 \in S)
      BY <1>2, <2>1, <2>2, <2>5
    <3>2. QED BY <3>1
  <2>7. k \in W[j - 1] \/ \E v \in versions : k = v.code /\ \E k2 \in W[j - 1] : Target!LegalHop(k2, v)
    BY <2>3, <2>4, <2>5 DEF Nearby
  <2>8. \A k2 \in W[j - 1] : k2 \in Nat
    BY <2>6 DEF Good
  <2>9. QED BY <1>5, <2>3, <2>6, <2>7, <2>8
<1>7. QED
  <2>1. i \in Nat /\ i <= MaxVersions
    BY <1>2
  <2>2. \A k \in W[i] : Good(k)
    BY <1>6, <2>1
  <2>3. QED BY <2>2 DEF W

(* The releases above a code, up to another. *)
Passed(c, k) == {v \in versions : c < v.code /\ v.code <= k}

(* Without a gap, every round of the reference goes further, until it is at the head. *)
LEMMA EveryRoundGoesFurther ==
    ASSUME TargetInv, Target!Installable(versions) # {}, NEW c \in Nat, c < HeadCode(versions),
           Covered(versions, c), NEW i \in 0 .. MaxVersions
    PROVE  \/ HeadCode(versions) \in Target!Within(c)[i]
           \/ \E k \in Target!Within(c)[i] :
                  k \in Nat /\ c <= k /\ k < HeadCode(versions) /\ Cardinality(Passed(c, k)) >= i
<1> DEFINE W == Target!Within(c)
           h == HeadCode(versions)
           Far(j) == \/ h \in W[j]
                     \/ \E k \in W[j] : k \in Nat /\ c <= k /\ k < h /\ Cardinality(Passed(c, k)) >= j
           S == {j \in Nat : j <= MaxVersions /\ ~Far(j)}
<1>1. \A j \in 0 .. MaxVersions : W[j] = Nearby(c, j, W)
  BY WithinOf
<1>2. MaxVersions \in Nat /\ h \in Nat /\ \A w \in versions : ~w.yanked => w.code <= h
  BY HeadOf, CodesAssumption DEF TargetInv
<1>3. \A v \in versions : v.code \in Nat /\ v.minFrom \in Nat
  BY DEF TargetInv, Index, Version
<1>4. \A k : IsFiniteSet(Passed(c, k)) /\ Cardinality(Passed(c, k)) \in Nat
  <2> SUFFICES ASSUME NEW k PROVE IsFiniteSet(Passed(c, k)) /\ Cardinality(Passed(c, k)) \in Nat
    OBVIOUS
  <2>1. Passed(c, k) \subseteq versions /\ IsFiniteSet(versions)
    BY DEF Passed, TargetInv
  <2>2. IsFiniteSet(Passed(c, k))
    BY <2>1, FS_Subset
  <2>3. QED BY <2>2, FS_CardinalityType
<1> HIDE DEF W, h
<1>5. Far(0)
  <2>1. W[0] = {c}
    <3>1. 0 \in 0 .. MaxVersions
      BY <1>2
    <3>2. W[0] = Nearby(c, 0, W)
      BY <1>1, <3>1
    <3>3. QED BY <3>2 DEF Nearby
  <2>2. Cardinality(Passed(c, c)) >= 0
    BY <1>4
  <2>3. QED BY <2>1, <2>2 DEF h
<1>6. ASSUME NEW j \in Nat, j + 1 <= MaxVersions, Far(j) PROVE Far(j + 1)
  <2>1. W[j + 1] = W[j] \cup {v.code : v \in {w \in versions : \E k \in W[j] : Target!LegalHop(k, w)}}
    <3>1. j + 1 \in 0 .. MaxVersions /\ j + 1 # 0 /\ (j + 1) - 1 = j
      BY <1>2, <1>6
    <3>2. W[j + 1] = Nearby(c, j + 1, W)
      BY <1>1, <3>1
    <3>3. QED BY <3>1, <3>2 DEF Nearby
  <2>2. CASE h \in W[j]
    BY <2>1, <2>2
  <2>3. CASE \E k \in W[j] : k \in Nat /\ c <= k /\ k < h /\ Cardinality(Passed(c, k)) >= j
    <3>1. PICK k \in W[j] : k \in Nat /\ c <= k /\ k < h /\ Cardinality(Passed(c, k)) >= j
      BY <2>3
    <3>2. k \in c .. h - 1
      BY <1>2, <3>1
    <3>3. PICK v \in Target!Candidates(versions, k) : TRUE
      BY <3>2 DEF Covered, h
    <3>4. v \in versions /\ ~v.yanked /\ v.code > k /\ v.minFrom <= k /\ v.code \in Nat
      BY <1>3, <3>3 DEF Target!Candidates
    <3>5. Target!LegalHop(k, v)
      BY <1>3, <3>1, <3>4 DEF Target!LegalHop
    <3>6. v.code \in W[j + 1]
      BY <2>1, <3>1, <3>4, <3>5
    <3>7. v.code <= h /\ c <= v.code
      BY <1>2, <3>1, <3>4
    <3>8. Passed(c, k) \cup {v} \subseteq Passed(c, v.code) /\ ~(v \in Passed(c, k))
      BY <1>3, <3>1, <3>4 DEF Passed
    <3>9. Cardinality(Passed(c, v.code)) >= j + 1
      <4>1. /\ IsFiniteSet(Passed(c, k) \cup {v})
            /\ Cardinality(Passed(c, k) \cup {v}) = Cardinality(Passed(c, k)) + 1
        BY <1>4, <3>8, FS_AddElement
      <4>2. Cardinality(Passed(c, k) \cup {v}) <= Cardinality(Passed(c, v.code))
        BY <1>4, <3>8, FS_Subset
      <4>3. QED BY <1>4, <3>1, <4>1, <4>2
    <3>10. v.code = h \/ v.code < h
      BY <1>2, <3>4, <3>7
    <3>11. QED BY <3>4, <3>6, <3>7, <3>9, <3>10
  <2>4. QED BY <1>6, <2>2, <2>3
<1>7. S = {}
  <2> SUFFICES ASSUME S # {} PROVE FALSE
    OBVIOUS
  <2> HIDE DEF Far
  <2>1. PICK j \in S : \A j2 \in S : j <= j2
    BY LeastNumber
  <2>2. j \in Nat /\ j <= MaxVersions /\ ~Far(j) /\ j # 0
    BY <1>5, <2>1
  <2>3. j - 1 \in Nat /\ ~(j - 1 \in S) /\ (j - 1) + 1 = j /\ j - 1 <= MaxVersions
    BY <1>2, <2>1, <2>2
  <2>4. Far(j - 1)
    BY <2>3
  <2>5. Far((j - 1) + 1)
    BY <1>6, <2>2, <2>3, <2>4
  <2>6. QED BY <2>2, <2>3, <2>5
<1>8. QED
  <2>1. i \in Nat /\ i <= MaxVersions
    BY <1>2
  <2>2. Far(i)
    <3> HIDE DEF Far
    <3>1. QED BY <1>7, <2>1
  <2>3. QED BY <2>2 DEF W, h

(* Some chain of legal installs leads to the head if and only if there is no gap below
   it: preferring the highest target loses nothing (SelectNextTarget). *)
LEMMA ServedByGaps ==
    ASSUME TargetInv, Target!Installable(versions) # {}, NEW c \in Nat
    PROVE  Target!Served(c) <=> c >= HeadCode(versions) \/ Covered(versions, c)
<1> DEFINE h == HeadCode(versions)
           W == Target!Within(c)
<1>1. h \in Nat /\ Target!FindHead(versions) \in versions /\ MaxVersions \in Nat
  BY HeadOf, CodesAssumption DEF TargetInv
<1>2. Target!Served(c) <=> c >= h \/ h \in W[MaxVersions]
  BY Zenon DEF Target!Served, HeadCode
<1>3. MaxVersions \in 0 .. MaxVersions
  BY <1>1
<1>4. ASSUME h \in W[MaxVersions] PROVE Covered(versions, c)
  BY <1>3, <1>4, NoGapBelow DEF Covered
<1>5. ASSUME c < h, Covered(versions, c) PROVE h \in W[MaxVersions]
  <2> SUFFICES ASSUME ~(h \in W[MaxVersions]) PROVE FALSE
    OBVIOUS
  <2>1. PICK k \in W[MaxVersions] :
            k \in Nat /\ c <= k /\ k < h /\ Cardinality(Passed(c, k)) >= MaxVersions
    BY <1>3, <1>5, EveryRoundGoesFurther
  <2> DEFINE v == Target!FindHead(versions)
  <2>2. v \in versions /\ v.code = h
    BY <1>1 DEF HeadCode
  <2> HIDE DEF v, h, W
  <2>3. Passed(c, k) \cup {v} \subseteq versions /\ ~(v \in Passed(c, k))
    BY <1>1, <2>1, <2>2 DEF Passed
  <2>4. IsFiniteSet(versions) /\ Cardinality(versions) <= MaxVersions /\ Cardinality(versions) \in Nat
    BY FS_CardinalityType DEF TargetInv
  <2>5. IsFiniteSet(Passed(c, k)) /\ Cardinality(Passed(c, k)) \in Nat
    BY <2>3, <2>4, FS_Subset, FS_CardinalityType
  <2>6. Cardinality(Passed(c, k) \cup {v}) = Cardinality(Passed(c, k)) + 1
    BY <2>3, <2>5, FS_AddElement
  <2>7. Cardinality(Passed(c, k) \cup {v}) <= Cardinality(versions)
    BY <2>3, <2>4, FS_Subset
  <2>8. QED BY <1>1, <2>1, <2>4, <2>5, <2>6, <2>7
<1>6. QED BY <1>1, <1>2, <1>4, <1>5

(* The index of the model starts empty. *)
LEMMA TargetStarts == Target!Init => TargetInv
<1> SUFFICES ASSUME Target!Init PROVE TargetInv
  OBVIOUS
<1>1. versions = {} /\ minSupported = Target!NoMinSupported
  BY DEF Target!Init
<1>2. Index(versions, 0)
  BY <1>1 DEF Index
<1>3. IsFiniteSet(versions) /\ Cardinality(versions) <= MaxVersions
  BY <1>1, FS_EmptySet, CodesAssumption
<1>4. QED BY <1>1, <1>2, <1>3 DEF TargetInv

(* It grows one release at a time, and keeps within its bound. *)
LEMMA TargetStep == TargetInv /\ Target!Next => TargetInv'
<1>1. ASSUME TargetInv, NEW v \in Target!Universe, Target!List(v) PROVE TargetInv'
  <2>1. /\ ~(v \in versions) /\ Cardinality(versions) < MaxVersions
        /\ versions' = versions \cup {v} /\ minSupported' = minSupported
    BY <1>1 DEF Target!List, Target!Cardinality, Cardinality
  <2>2. IsFiniteSet(versions) /\ Cardinality(versions) \in Nat
    BY <1>1, FS_CardinalityType DEF TargetInv
  <2>3. IsFiniteSet(versions') /\ Cardinality(versions') <= MaxVersions
    BY <2>1, <2>2, FS_AddElement, CodesAssumption
  <2>4. \E n \in Nat : Index(versions', n)
    <3>1. PICK n \in Nat : Index(versions, n)
      BY <1>1 DEF TargetInv
    <3>2. v \in Version
      BY CodesAssumption DEF Target!Universe, Version
    <3>3. v.code \in Nat /\ \A w \in versions : w.code \in Nat /\ w.code <= n
      BY <3>1, <3>2 DEF Index, Version
    <3>4. \A w \in versions' : w.code <= n + v.code
      BY <2>1, <3>3
    <3>5. Index(versions', n + v.code)
      BY <2>1, <3>1, <3>2, <3>3, <3>4 DEF Index
    <3>6. QED BY <3>3, <3>5
  <2>5. QED BY <1>1, <2>1, <2>3, <2>4 DEF TargetInv
<1>2. ASSUME TargetInv, NEW c \in Codes, Target!Support(c) PROVE TargetInv'
  BY <1>2 DEF Target!Support, TargetInv, Index
<1>3. QED BY <1>1, <1>2 DEF Target!Next

(* The verdict of the publisher on an index is what happens to its clients
   (ValidateReachability, UnreachableStartCodes). *)
LEMMA VerdictFollows == TargetInv => VerdictIsExact
<1> SUFFICES ASSUME TargetInv, Target!Installable(versions) # {} PROVE VerdictIsExact
  BY DEF VerdictIsExact, Target!VerdictIsExact
<1> DEFINE h == HeadCode(versions)
           offered == {v.code : v \in versions}
           codes == (offered \cup {minSupported}) \ {Target!NoMinSupported}
           stranded == {x \in Nat : x < h /\ ~Covered(versions, x)}
<1>1. h \in Nat /\ \A v \in versions : v.code \in Nat
  BY HeadOf DEF TargetInv, Index, Version
<1>2. minSupported \in Nat \/ minSupported = Target!NoMinSupported
  BY CodesAssumption DEF TargetInv
<1>3. ~(Target!NoMinSupported \in Nat) /\ Codes \subseteq Nat /\ 0 \in Nat
  BY CodesAssumption DEF Target!NoMinSupported
<1>4. offered \subseteq Nat /\ codes \subseteq Nat
  BY <1>1, <1>2, <1>3
<1>5. \A c \in Nat : Target!ReachesHead(versions, c) <=> c < h /\ Covered(versions, c)
  BY ReachesByGaps DEF TargetInv
<1>6. \A c \in Nat : Target!Served(c) <=> c >= h \/ Covered(versions, c)
  BY ServedByGaps
<1>7. \A c \in Nat : ~Target!Served(c) <=> c \in stranded
  BY <1>1, <1>6
<1>8. \A c \in Nat : c < h /\ ~Target!ReachesHead(versions, c) <=> c \in stranded
  BY <1>1, <1>5
<1>9. \A c \in Codes : Target!ReachesHead(versions, c) <=> c < h /\ Target!Served(c)
  BY <1>1, <1>3, <1>5, <1>6
<1>10. Target!ZeroUnreachable(versions) <=> ~Target!Served(0)
  BY <1>1, <1>3, <1>7, <1>8 DEF Target!ZeroUnreachable, HeadCode
<1> HIDE DEF stranded, h
<1>11. Target!UnreachableStartCodes(versions, minSupported) = {c \in codes \cup {0} : ~Target!Served(c)}
  <2> DEFINE starts == {0} \cup offered
                       \cup (IF minSupported = Target!NoMinSupported THEN {} ELSE {minSupported})
  <2>1. starts = codes \cup {0}
    BY <1>1, <1>3
  <2>2. Target!UnreachableStartCodes(versions, minSupported)
            = {c \in starts : c < h /\ ~Target!ReachesHead(versions, c)}
    BY DEF Target!UnreachableStartCodes, HeadCode, h
  <2> HIDE DEF starts, codes
  <2>3. QED BY <1>3, <1>4, <1>7, <1>8, <2>1, <2>2
<1>12. (\A c \in codes : Target!Served(c)) <=>
           Target!ReachabilityErrors(versions, minSupported)
               \cap {"unreachable", "min-supported-unreachable"} = {}
  <2> DEFINE unreachable == IF \E c \in offered : c < h /\ ~Target!ReachesHead(versions, c)
                            THEN {"unreachable"} ELSE {}
             minimum == IF minSupported = Target!NoMinSupported THEN {}
                        ELSE IF minSupported > h THEN {"min-supported-above-head"}
                        ELSE IF minSupported < h /\ ~Target!ReachesHead(versions, minSupported)
                        THEN {"min-supported-unreachable"} ELSE {}
             both == {"unreachable", "min-supported-unreachable"}
  <2>1. PICK duplicate \in {{}, {"duplicate-code"}} :
            Target!ReachabilityErrors(versions, minSupported) = duplicate \cup unreachable \cup minimum
    BY DEF Target!ReachabilityErrors, HeadCode, h
  <2>2. unreachable \cap both = {} <=> \A c \in offered : ~(c \in stranded)
    BY <1>4, <1>8
  <2>3. minimum \cap both = {}
            <=> minSupported = Target!NoMinSupported \/ ~(minSupported \in stranded)
    <3>1. CASE minSupported = Target!NoMinSupported
      BY <3>1
    <3>2. CASE minSupported \in Nat
      <4>1. minSupported # Target!NoMinSupported
        BY <1>3, <3>2
      <4>2. minSupported < h /\ ~Target!ReachesHead(versions, minSupported) <=> minSupported \in stranded
        BY <1>8, <3>2
      <4>3. minSupported > h => ~(minSupported < h)
        BY <1>1, <3>2
      <4>4. QED BY <4>1, <4>2, <4>3
    <3>3. QED BY <1>2, <3>1, <3>2
  <2>4. duplicate \cap both = {}
    BY <2>1
  <2> HIDE DEF unreachable, minimum
  <2>5. Target!ReachabilityErrors(versions, minSupported) \cap both = {}
            <=> unreachable \cap both = {} /\ minimum \cap both = {}
    BY <2>1, <2>4
  <2>6. (\A c \in codes : ~(c \in stranded))
            <=> /\ \A c \in offered : ~(c \in stranded)
                /\ minSupported = Target!NoMinSupported \/ ~(minSupported \in stranded)
    BY <1>2, <1>3, <1>4
  <2>7. (\A c \in codes : Target!Served(c)) <=> \A c \in codes : ~(c \in stranded)
    BY <1>4, <1>7
  <2>8. QED BY <2>2, <2>3, <2>5, <2>6, <2>7
<1>13. QED
  BY <1>9, <1>10, <1>11, <1>12, Zenon DEF VerdictIsExact, Target!VerdictIsExact, HeadCode, h

-----------------------------------------------------------------------------
(* All readers. *)

IInv ==
    /\ SiteInv /\ DownloadInv /\ TargetInv
    /\ Patient => ChanceInv
    /\ AllServe => CheckInv
    /\ reader = "release" => VerifyInv
    /\ reader = "panel" => PanelInv

(* The initial states satisfy the invariant. *)
LEMMA InitIInv == Init => IInv
<1> SUFFICES ASSUME Init PROVE IInv
  OBVIOUS
<1>1. DownloadInv /\ ChanceInv
  BY DEF Init, Artifact!DownloadInit, DownloadInv, ChanceInv, Trying
<1>2. QED
  BY <1>1, SiteStarts, CheckStarts, TargetStarts, VerifyStarts, PanelStarts
     DEF Init, IInv

(* What nobody works with stays as good as it was. *)
LEMMA Unwatched ==
    ASSUME IInv, reader' = reader
    PROVE  /\ UNCHANGED siteVars => SiteInv'
           /\ UNCHANGED artifactVars => DownloadInv' /\ (Patient => ChanceInv')
           /\ UNCHANGED checkVars => (AllServe => CheckInv')
           /\ UNCHANGED targetVars => TargetInv'
           /\ UNCHANGED releaseVars => (reader' = "release" => VerifyInv')
           /\ UNCHANGED panelVars => (reader' = "panel" => PanelInv')
<1>1. ASSUME UNCHANGED siteVars PROVE SiteInv'
  BY <1>1 DEF siteVars, IInv, SiteInv, Site!SiteOK, Site!Dump, Site!guardCompleteSnapshot,
              Site!onPage, Passes
<1>2. ASSUME UNCHANGED artifactVars PROVE DownloadInv' /\ (Patient => ChanceInv')
  BY <1>2 DEF artifactVars, IInv, DownloadInv, Artifact!Whole, ChanceInv, Trying, FewErrors,
              HonestAhead, LateFew, Patience, Clean, Artifact!url
<1>3. ASSUME UNCHANGED checkVars, AllServe PROVE CheckInv'
  <2>1. CheckInv /\ UNCHANGED <<directory, index, job, jobs, saved, seen, check, answer>>
    BY <1>3 DEF checkVars, IInv
  <2>2. DirectoryInv' BY <2>1, ClientOnly
  <2>3. OnlyNewer
    BY <2>1 DEF OnlyNewer, CheckInv, DirectoryInv, Indexes, Check!Document
  <2>4. QED BY <2>1, <2>2, <2>3, PublishBeside
<1>4. ASSUME UNCHANGED releaseVars, reader' = "release" PROVE VerifyInv'
  BY <1>4 DEF releaseVars, IInv, VerifyInv, VerifierOK, ReadIsServed, Quiet, FindsNothing,
              FindsIndexes, Began, Done, HasIndex, HasManifest, HasProfile, Listed,
              Release!Committed
<1>5. ASSUME UNCHANGED panelVars, reader' = "panel" PROVE PanelInv'
  BY <1>5 DEF panelVars, IInv, PanelInv, PanelState, ShowsItsUser, CallFits, Tokens, Cookies,
              Views
<1>6. ASSUME UNCHANGED targetVars PROVE TargetInv'
  BY <1>6 DEF targetVars, IInv, TargetInv, Index
<1>7. QED BY <1>1, <1>2, <1>3, <1>4, <1>5, <1>6

(* Every step preserves it: one part moves, the others are untouched. *)
LEMMA NextIInv == IInv /\ [Next]_vars => IInv'
<1> SUFFICES ASSUME IInv, [Next]_vars PROVE IInv'
  OBVIOUS
<1>1. CASE UNCHANGED vars
  BY <1>1, Unwatched DEF vars, IInv
<1>2. CASE RebuildSite
  BY <1>2, Unwatched, SiteStep DEF RebuildSite, IInv
<1>3. CASE CheckForUpdate
  BY <1>3, Unwatched, CheckStep DEF CheckForUpdate, IInv
<1>4. CASE GrowIndex
  BY <1>4, Unwatched, TargetStep DEF GrowIndex, IInv
<1>5. CASE FetchArtifact
  BY <1>5, Unwatched, DownloadStep, ChanceStep DEF FetchArtifact, IInv
<1>6. CASE VerifyRelease
  BY <1>6, Unwatched, VerifyStep DEF VerifyRelease, IInv
<1>7. CASE UsePanel
  BY <1>7, Unwatched, PanelStep DEF UsePanel, IInv
<1>8. QED BY <1>1, <1>2, <1>3, <1>4, <1>5, <1>6, <1>7 DEF Next

(* The invariants of the readers hold, for every value of the parameters. *)
THEOREM Invariance == Spec => []IInv
<1>1. QED BY InitIInv, NextIInv, PTL DEF Spec

(* A write of the panel is done by the user that its page shows, or by nobody,
   however its pages, handlers and lost answers interleave (requireAPIAuth). *)
THEOREM PanelActsAsShown == Spec => []ActsAsShown
<1>1. IInv => ActsAsShown
  BY PanelSafe DEF IInv, ActsAsShown
<1>2. QED BY <1>1, Invariance, PTL

(* A release that is answered as verified is served by every target, and one
   is refused for nothing but a reason while nothing else is written
   (RunReleased). *)
THEOREM VerdictIsKept == Spec => []VerdictHolds
<1>1. IInv => VerdictHolds
  BY VerdictIsTrue DEF IInv, VerdictHolds
<1>2. QED BY <1>1, Invariance, PTL

(* A check that could fetch what it asked for finds a directory and an index, if
   every target is a service: a re-signed directory that names fewer may strand
   a client (checkIndex). *)
THEOREM CheckFindsASource == ASSUME AllServe PROVE Spec => []CheckAnswers
<1>1. IInv => CheckAnswers
  BY DEF IInv, CheckAnswers, CheckInv
<1>2. QED BY <1>1, Invariance, PTL

(* What the publisher is told of an index is what happens to the clients of it, however
   many releases it lists: the hop it prefers misses no head, and nobody who is not
   named as stranded is (SelectNextTarget, ValidateReachability). *)
THEOREM ClientsAreNotStranded == Spec => []VerdictIsExact
<1>1. IInv => VerdictIsExact
  BY VerdictFollows DEF IInv
<1>2. QED BY <1>1, Invariance, PTL

(* A download that is reported as done left the artifact at its place,
   whatever goroutines and processes left behind (Verify, Rename). *)
THEOREM SuccessIsWhole == Spec => [](phase = "ok" => dest = "right")
<1>1. IInv => (phase = "ok" => dest = "right")
  BY DEF IInv, DownloadInv
<1>2. QED BY <1>1, Invariance, PTL

(* A download ends with the artifact in its place if one mirror is honest, for
   every number and order of mirrors, chunks, workers and deaths: three attempts, the
   default of the policy, outlive the leftovers of an earlier process or one
   failed request (DownloadArtifact, downloadParallel). *)
THEOREM ArtifactArrives == ASSUME Patient PROVE Spec => []EndsWithArtifact
<1>1. IInv => EndsWithArtifact
  BY DEF IInv, DownloadInv, ChanceInv, FewErrors, EndsWithArtifact, Artifact!EndsWithArtifact
<1>2. QED BY <1>1, Invariance, PTL

(* No page that is deployed lacks a registered product of the page that was
   reported before (guardCompleteSnapshot, writeMembers). *)
THEOREM ShelfIsKept == Spec => ShelfKeeps
<1> DEFINE Kept == \A s \in Sinks :
                      shown'[s] \notin {shown[s], None} =>
                          \/ promised \cap configured \subseteq Site!onPage(shown'[s])
                          \/ pass.allowEmpty /\ Site!onPage(shown'[s]) = {}
<1>1. IInv /\ [Next]_vars => [Kept]_Site!vars
  <2> SUFFICES ASSUME IInv, [Next]_vars PROVE [Kept]_Site!vars
    OBVIOUS
  <2>1. CASE RebuildSite
    BY <2>1, PageIsComplete DEF RebuildSite, IInv
  <2>2. CASE UNCHANGED siteVars
    BY <2>2 DEF siteVars, Site!vars, Site!files
  <2>3. QED
    BY <2>1, <2>2 DEF Next, vars, CheckForUpdate, GrowIndex, FetchArtifact, VerifyRelease,
                      UsePanel
<1>2. QED BY <1>1, Invariance, PTL DEF Spec, ShelfKeeps, Site!ShelfKeeps

=============================================================================

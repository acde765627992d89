------------------------------ MODULE SiteRebuild ------------------------------
(***************************************************************************)
(* A pass of the site rebuild (internal/site/site.go Rebuild): collect the *)
(* web documents of every configured product, refuse a dump that lost one, *)
(* deploy it to the sinks unless the fingerprint says they have it, and    *)
(* record fingerprint and members.  siteMu lets one pass run at a time;    *)
(* publishes go on meanwhile, and a pass may end at every step.            *)
(***************************************************************************)
EXTENDS Naturals, FiniteSets

CONSTANTS
    None,
    Products, Sinks,
    Shelf,        \* products a site that already runs shows at the start
    MaxDocs       \* bound: generations of a product's documents

VARIABLES
    docs,         \* newest generation of the web documents of a product
    configured,   \* registered products
    shown,        \* what a sink serves: a dump, or None for something between two
    recorded,     \* dump.sha256
    members,      \* members.json
    pass,         \* the running pass, or None
    promised      \* products on the page of the last pass that reported success

files == <<recorded, members>>
vars  == <<docs, configured, shown, files, pass, promised>>

(* A dump holds for every product the generation that was read, 0 when the
   product is not in it. *)
Dump       == [Products -> 0 .. MaxDocs]
onPage(d)  == {p \in Products : d[p] > 0}
hashDump(d, dests) == [dump |-> d, sinks |-> dests]

SiteInit ==
    /\ docs = [p \in Products |-> IF p \in Shelf THEN 1 ELSE 0]
    /\ configured = Products
    /\ shown = [s \in Sinks |-> docs]
    /\ recorded = hashDump(docs, Sinks)
    /\ members = Shelf /\ promised = Shelf
    /\ pass = None

-----------------------------------------------------------------------------
(* A publish, or an unpublish: documents carry their time. *)
Write(p) ==
    /\ p \in configured /\ docs[p] < MaxDocs
    /\ docs' = [docs EXCEPT ![p] = @ + 1]
    /\ UNCHANGED <<configured, shown, files, pass, promised>>

Retire(p) ==
    /\ p \in configured
    /\ configured' = configured \ {p}
    /\ UNCHANGED <<docs, shown, files, pass, promised>>

-----------------------------------------------------------------------------
(* The products and the site configuration of the moment. *)
Rebuild(dests, allowEmpty) ==
    /\ pass = None
    /\ pass' = [phase |-> "collect", products |-> configured, left |-> configured,
                dump |-> [p \in Products |-> 0], sinks |-> dests, allowEmpty |-> allowEmpty]
    /\ UNCHANGED <<docs, configured, shown, files, promised>>

In(phase) == pass # None /\ pass.phase = phase

(* The first backend with documents counts, and one that does not answer is
   passed over (firstGet): the mirror read may be behind, or have none, and
   then the product is left out. *)
collect(p) ==
    /\ In("collect") /\ pass.left # {} /\ p = CHOOSE q \in pass.left : TRUE
    /\ \E seen \in 0 .. docs[p] : pass' = [pass EXCEPT !.left = @ \ {p}, !.dump[p] = seen]
    /\ UNCHANGED <<docs, configured, shown, files, promised>>

guardCompleteSnapshot ==
    \/ pass.allowEmpty /\ onPage(pass.dump) = {}
    \/ members \cap pass.products \subseteq onPage(pass.dump)

Unchanged == recorded = hashDump(pass.dump, pass.sinks)

(* Mutant: an unchanged dump leaves the members as they were recorded. *)
Build_LeavesMembers ==
    /\ In("collect") /\ pass.left = {}
    /\ pass.allowEmpty \/ onPage(pass.dump) # {}
    /\ guardCompleteSnapshot
    /\ IF Unchanged THEN pass' = None /\ promised' = onPage(pass.dump)
       ELSE pass' = [pass EXCEPT !.phase = "deploy", !.left = pass.sinks] /\ UNCHANGED promised
    /\ UNCHANGED <<docs, configured, shown, files>>

Build ==
    /\ In("collect") /\ pass.left = {}
    /\ pass.allowEmpty \/ onPage(pass.dump) # {}
    /\ guardCompleteSnapshot
    /\ pass' = IF Unchanged THEN [pass EXCEPT !.phase = "members"]
               ELSE [pass EXCEPT !.phase = "deploy", !.left = pass.sinks]
    /\ UNCHANGED <<docs, configured, shown, files, promised>>

(* A directory is swapped, a backend written key by key. *)
Deploy(s) ==
    /\ In("deploy") /\ pass.left # {} /\ s = CHOOSE t \in pass.left : TRUE
    /\ shown' = [shown EXCEPT ![s] = pass.dump]
    /\ pass' = [pass EXCEPT !.left = @ \ {s}]
    /\ UNCHANGED <<docs, configured, files, promised>>

(* Or it fails, or the agent dies in it, having done all, nothing or a part. *)
DeployFails(s) ==
    /\ In("deploy") /\ pass.left # {} /\ s = CHOOSE t \in pass.left : TRUE
    /\ \E d \in {shown[s], pass.dump, None} : shown' = [shown EXCEPT ![s] = d]
    /\ pass' = None
    /\ UNCHANGED <<docs, configured, files, promised>>

Record ==
    /\ In("deploy") /\ pass.left = {}
    /\ recorded' = hashDump(pass.dump, pass.sinks)
    /\ pass' = [pass EXCEPT !.phase = "members"]
    /\ UNCHANGED <<docs, configured, shown, members, promised>>

writeMembers ==
    /\ In("members")
    /\ members' = onPage(pass.dump) /\ promised' = onPage(pass.dump)
    /\ pass' = None
    /\ UNCHANGED <<docs, configured, shown, recorded>>

(* A document or a file cannot be read or written, the dump is refused, or the
   agent dies between two steps. *)
PassEnds ==
    /\ pass # None
    /\ pass' = None
    /\ UNCHANGED <<docs, configured, shown, files, promised>>

SiteNext ==
    \/ \E p \in Products : Write(p) \/ Retire(p) \/ collect(p)
    \/ \E dests \in (SUBSET Sinks) \ {{}}, allowEmpty \in BOOLEAN : Rebuild(dests, allowEmpty)
    \/ \E s \in Sinks : Deploy(s) \/ DeployFails(s)
    \/ Build \/ Record \/ writeMembers \/ PassEnds

SiteSpec == SiteInit /\ [][SiteNext]_vars

-----------------------------------------------------------------------------
SiteOK ==
    /\ docs \in Dump /\ configured \subseteq Products
    /\ members \subseteq Products /\ promised \subseteq Products
    /\ shown \in [Sinks -> Dump \cup {None}]
    /\ pass # None => pass.dump \in Dump /\ pass.sinks \subseteq Sinks

(* A product that was on the page a successful pass reported is on every page
   that is deployed while it stays registered, unless the shelf is emptied on
   purpose: wherever passes failed between sinks, fingerprint and members, and
   whichever mirror answers without it (guardCompleteSnapshot, writeMembers). *)
ShelfKeeps ==
    [][\A s \in Sinks :
          shown'[s] \notin {shown[s], None} =>
              \/ promised \cap configured \subseteq onPage(shown'[s])
              \/ pass.allowEmpty /\ onPage(shown'[s]) = {}]_vars

=============================================================================

----------------------------- MODULE AgentRequests -----------------------------
(***************************************************************************)
(* The write requests of one product at the publish agent                  *)
(* (cmd/relkit-agent/server.go, unpublish.go) and the site rebuild they    *)
(* trigger.                                                                *)
(*                                                                         *)
(* Handlers run concurrently.  A staged upload replaces the tree of a      *)
(* version and then records its digest; a publish compares the digest it   *)
(* was given with the recorded one and looks for a remembered answer, both *)
(* before it takes the product lock, then publishes whatever tree is       *)
(* there; an unpublish takes a version off the index.  The agent may die   *)
(* at any point, and every handler may fail where the code returns early.  *)
(*                                                                         *)
(* Abstractions.  A tree stands for its digest and for the release made of *)
(* it.  A publish carries the digest of a tree and the idempotency key     *)
(* made of it, as internal/agentpublish sends them, so the digest stands   *)
(* for the key.  publish.Run is the read of the index, the check of the    *)
(* code and the pointer write; module ReleasePublish has its steps.  Every *)
(* request names all backends, so once a pointer reached only some of them *)
(* the others disagree and every later job is refused.  Of the web         *)
(* documents it is known only whether some of them lag behind.  Backfill,  *)
(* dry runs and retention are left out.                                    *)
(***************************************************************************)
EXTENDS Naturals, FiniteSets

CONSTANTS
    Requests,   \* the requests of a behaviour; each is made at most once
    Trees,      \* staged archives, by content
    Versions,   \* version strings
    Version,    \* Version[t]: the version tree t is staged as
    Code,       \* Code[t]: the release code it carries
    Workers,    \* goroutines that may rebuild the site
    MaxPanics,  \* bound: rebuilds that panic
    MaxCrashes, \* bound: deaths of the agent
    None        \* nothing there

ASSUME TreesAssumption ==
    /\ Version \in [Trees -> Versions]
    /\ Code \in [Trees -> Nat]
    /\ None \notin Trees \cup Requests
ASSUME WorkersAssumption ==
    /\ IsFiniteSet(Workers)
    /\ MaxPanics \in Nat /\ MaxCrashes \in Nat
    /\ Cardinality(Workers) > MaxPanics   \* a goroutine is always to be had

VARIABLES
    tree,      \* tree[v]: what the staging directory of version v holds
    sha,       \* sha[v]: the digest recorded for it
    lock,      \* the request that holds the product lock
    saved,     \* saved[t]: the release the remembered answer for t reports
    told,      \* history: releases a caller was told are published, and that no
               \* unpublish has taken off since
    listed,    \* the releases of the signed index, on any backend
    diverged,  \* the backends serve different indexes
    stale,     \* the web documents of some backend are not those of its index
    removed,   \* history: releases an unpublish took off the index
    req,       \* req[r]: the handler of request r
    crashes,   \* deaths of the agent so far
    pending,   \* sitePending: somebody asked for a rebuild
    running,   \* siteRunning: somebody looks after the requests
    worker,    \* worker[w]: where goroutine w is
    snap,      \* the releases the rebuild under way has read, None if it may have
               \* read documents that are stale
    site,      \* the releases the site shows
    behind,    \* history: no rebuild read and deployed what is listed since one did
               \* not or the agent died
    panics,    \* rebuilds that panicked so far
    asked,     \* history: rebuilds asked for since the agent started
    seen       \* history: the value of asked when the last rebuild began

staging == <<tree, sha>>
answers == <<saved, told>>
index   == <<listed, diverged, stale, removed>>
trigger == <<pending, running, worker, asked>>
rebuilt == <<snap, site, behind, panics, seen>>
vars    == <<tree, sha, lock, saved, told, listed, diverged, stale, removed, req, crashes,
             pending, running, worker, snap, site, behind, panics, asked, seen>>

-----------------------------------------------------------------------------
(* Handlers. *)

Points  == {"new", "extract", "record",                        \* staged upload
            "matched", "missed", "loaded", "planned", "listed", "remembered",
            "remove", "removed",                               \* unpublish
            "done"}
Locked  == {"extract", "record", "loaded", "planned", "listed", "remembered",
            "remove", "removed"}
Answers == {"none", "ok", "replayed", "conflict", "failed", "lost"}

Handlers == [kind   : {"none", "put", "publish", "unpublish"},
             tree   : Trees \cup {None},      \* the archive, or the digest asked for
             version: Versions \cup {None},
             at     : Points,
             staged : Trees \cup {None},      \* publish: the tree it loaded
             plan   : SUBSET Trees,           \* the index it read
             answer : Answers]

New == [kind |-> "none", tree |-> None, version |-> None, at |-> "new",
        staged |-> None, plan |-> {}, answer |-> "none"]

Kind(kind, t) == [New EXCEPT !.kind = kind, !.tree = t, !.version = Version[t]]

(* Of a handler that returned only its answer matters. *)
Answered(answer) == [New EXCEPT !.at = "done", !.answer = answer]

Reached(r, point) == req' = [req EXCEPT ![r].at = point]

(* The handler returns: the answer goes out, the deferred unlock runs. *)
Answer(r, answer) ==
    /\ req' = [req EXCEPT ![r] = Answered(answer)]
    /\ lock' = None

-----------------------------------------------------------------------------
(* The agent starts on the staging directory an earlier run left. *)
Init ==
    /\ tree \in {f \in [Versions -> Trees \cup {None}] :
                    \A v \in Versions : f[v] # None => Version[f[v]] = v}
    /\ sha = tree
    /\ lock = None
    /\ saved = [t \in Trees |-> None] /\ told = {}
    /\ listed = {} /\ diverged = FALSE /\ stale = FALSE /\ removed = {}
    /\ req = [r \in Requests |-> New]
    /\ crashes = 0
    /\ pending = FALSE /\ running = FALSE
    /\ worker = [w \in Workers |-> "off"]
    /\ snap = {} /\ site = {} /\ behind = FALSE
    /\ panics = 0 /\ asked = 0 /\ seen = 0

-----------------------------------------------------------------------------
(* triggerSiteRebuild. *)

(* A goroutine is started unless one looks after the requests already. *)
Wake(work) ==
    /\ pending' = TRUE
    /\ running' = TRUE
    /\ worker' = IF running THEN work
                 ELSE [work EXCEPT ![CHOOSE w \in Workers : work[w] = "off"] = "loop"]

(* Mutant: a rebuild under way is taken to cover the request. *)
TriggerSiteRebuild_WhenIdle ==
    /\ IF running THEN UNCHANGED <<pending, running, worker>> ELSE Wake(worker)
    /\ asked' = asked + 1

TriggerSiteRebuild ==
    /\ Wake(worker)
    /\ asked' = asked + 1

(* The loop of the goroutine: it leaves when nothing is pending. *)
BeginRebuild(w) ==
    /\ worker[w] = "loop"
    /\ IF pending
       THEN /\ worker' = [worker EXCEPT ![w] = "rebuild"]
            /\ pending' = FALSE
            /\ snap' = IF stale THEN None ELSE listed
            /\ seen' = asked
            /\ UNCHANGED running
       ELSE /\ worker' = [worker EXCEPT ![w] = "off"]
            /\ running' = FALSE
            /\ UNCHANGED <<pending, snap, seen>>
    /\ UNCHANGED <<staging, lock, answers, index, req, crashes, site, behind, panics, asked>>

(* The dump is deployed, or the rebuild reports an error, which is logged.
   What it shows after stale documents were read is left open. *)
EndRebuild(w) ==
    /\ worker[w] = "rebuild"
    /\ \/ snap # None /\ site' = snap /\ behind' = FALSE
       \/ site' \in {site, snap} \ {None} /\ behind' = TRUE
    /\ worker' = [worker EXCEPT ![w] = "loop"]
    /\ UNCHANGED <<staging, lock, answers, index, req, crashes,
                   pending, running, snap, panics, asked, seen>>

(* Mutant: the recovery leaves siteRunning as it is. *)
Panic_StillRunning(w) ==
    /\ worker[w] = "rebuild"
    /\ panics < MaxPanics
    /\ panics' = panics + 1
    /\ behind' = TRUE
    /\ worker' = [worker EXCEPT ![w] = "off"]
    /\ UNCHANGED <<staging, lock, answers, index, req, crashes,
                   pending, running, snap, site, asked, seen>>

(* A rebuild panics: the deferred recovery gives up its place and asks again
   if a request came in meanwhile. *)
Panic(w) ==
    /\ worker[w] = "rebuild"
    /\ panics < MaxPanics
    /\ panics' = panics + 1
    /\ behind' = TRUE
    /\ running' = FALSE
    /\ worker' = [worker EXCEPT ![w] = IF pending THEN "restart" ELSE "off"]
    /\ UNCHANGED <<staging, lock, answers, index, req, crashes,
                   pending, snap, site, asked, seen>>

Restart(w) ==
    /\ worker[w] = "restart"
    /\ Wake([worker EXCEPT ![w] = "off"])
    /\ UNCHANGED <<staging, lock, answers, index, req, crashes, rebuilt, asked>>

-----------------------------------------------------------------------------
(* PUT /v1/staged: installStagedArchive. *)

(* Any request of a product that is busy is turned away. *)
Conflict(r, t, kind) ==
    /\ req[r].at = "new"
    /\ lock # None
    /\ req' = [req EXCEPT ![r] = Answered("conflict")]
    /\ UNCHANGED <<staging, lock, answers, index, crashes, trigger, rebuilt>>

(* The old tree is removed first. *)
BeginPut(r, t) ==
    /\ req[r].at = "new"
    /\ lock = None
    /\ lock' = r
    /\ req' = [req EXCEPT ![r] = [Kind("put", t) EXCEPT !.at = "extract"]]
    /\ tree' = [tree EXCEPT ![Version[t]] = None]
    /\ UNCHANGED <<sha, answers, index, crashes, trigger, rebuilt>>

Extract(r) ==
    /\ req[r].at = "extract"
    /\ tree' = [tree EXCEPT ![req[r].version] = req[r].tree]
    /\ Reached(r, "record")
    /\ UNCHANGED <<sha, lock, answers, index, crashes, trigger, rebuilt>>

(* Mutant: an early return without the unlock. *)
ExtractFails_KeepsLock(r) ==
    /\ req[r].at = "extract"
    /\ req' = [req EXCEPT ![r] = Answered("failed")]
    /\ UNCHANGED <<staging, lock, answers, index, crashes, trigger, rebuilt>>

(* The archive is broken or is not a release of this server: what was
   extracted is removed, the digest of the tree it replaced stays. *)
ExtractFails(r) ==
    /\ req[r].at = "extract"
    /\ Answer(r, "failed")
    /\ UNCHANGED <<staging, answers, index, crashes, trigger, rebuilt>>

(* writeStagedSHA comes last. *)
Record(r) ==
    /\ req[r].at = "record"
    /\ sha' = [sha EXCEPT ![req[r].version] = req[r].tree]
    /\ Answer(r, "ok")
    /\ UNCHANGED <<tree, answers, index, crashes, trigger, rebuilt>>

(* It removes the old digest before it renames the new one into place. *)
RecordFails(r) ==
    /\ req[r].at = "record"
    /\ tree' = [tree EXCEPT ![req[r].version] = None]
    /\ sha' \in {sha, [sha EXCEPT ![req[r].version] = None]}
    /\ Answer(r, "failed")
    /\ UNCHANGED <<answers, index, crashes, trigger, rebuilt>>

-----------------------------------------------------------------------------
(* POST /v1/publish: handlePublish. *)

(* The digest of the request against the recorded one. *)
MatchStaged(r, t) ==
    /\ req[r].at = "new"
    /\ req' = [req EXCEPT ![r] =
           IF sha[Version[t]] = t
           THEN [Kind("publish", t) EXCEPT !.at = "matched"]
           ELSE Answered("failed")]
    /\ UNCHANGED <<staging, lock, answers, index, crashes, trigger, rebuilt>>

(* loadIdempotent: a remembered answer is given again, with a rebuild, even
   if the release was unpublished meanwhile. *)
Replay(r) ==
    /\ req[r].at = "matched"
    /\ IF saved[req[r].tree] # None
       THEN /\ req' = [req EXCEPT ![r] = Answered("replayed")]
            /\ told' = told \cup ({saved[req[r].tree]} \ removed)
            /\ TriggerSiteRebuild
       ELSE Reached(r, "missed") /\ UNCHANGED <<told, trigger>>
    /\ UNCHANGED <<staging, lock, saved, index, crashes, rebuilt>>

(* Mutant: TryLock is not consulted. *)
LockAndLoad_Unlocked(r) ==
    /\ req[r].at = "missed"
    /\ tree[req[r].version] # None
    /\ lock' = r
    /\ req' = [req EXCEPT ![r].at = "loaded", ![r].staged = tree[req[r].version]]
    /\ UNCHANGED <<staging, answers, index, crashes, trigger, rebuilt>>

(* TryLock, then the tree that is staged by now is loaded. *)
LockAndLoad(r) ==
    /\ req[r].at = "missed"
    /\ IF lock # None
       THEN /\ req' = [req EXCEPT ![r] = Answered("conflict")]
            /\ UNCHANGED lock
       ELSE IF tree[req[r].version] = None
       THEN Answer(r, "failed")
       ELSE /\ lock' = r
            /\ req' = [req EXCEPT ![r].at = "loaded", ![r].staged = tree[req[r].version]]
    /\ UNCHANGED <<staging, answers, index, crashes, trigger, rebuilt>>

(* publish.Run reads the index and accepts only a code above every listed
   one. *)
Publishable(t) == ~diverged /\ \A u \in listed : Code[u] < Code[t]

Plan(r) ==
    /\ req[r].at = "loaded"
    /\ Publishable(req[r].staged)
    /\ req' = [req EXCEPT ![r].at = "planned", ![r].plan = listed]
    /\ UNCHANGED <<staging, lock, answers, index, crashes, trigger, rebuilt>>

(* The profile, the plan or an upload is refused. *)
PlanFails(r) ==
    /\ req[r].at \in {"loaded", "planned"}
    /\ Answer(r, "failed")
    /\ UNCHANGED <<staging, answers, index, crashes, trigger, rebuilt>>

Listing(r) ==
    /\ listed' = req[r].plan \cup {req[r].staged}
    /\ removed' = removed \ {req[r].staged}

(* The web documents follow the pointer; one that cannot be written is a warning. *)
Commit(r) ==
    /\ req[r].at = "planned"
    /\ Listing(r)
    /\ stale' \in BOOLEAN
    /\ Reached(r, "listed")
    /\ UNCHANGED <<staging, lock, answers, diverged, crashes, trigger, rebuilt>>

(* release.partial_commit: some backends have the new pointer and documents. *)
CommitFails(r) ==
    /\ req[r].at = "planned"
    /\ Listing(r)
    /\ diverged' = TRUE /\ stale' = TRUE
    /\ Answer(r, "failed")
    /\ UNCHANGED <<staging, answers, crashes, trigger, rebuilt>>

(* The directory is published, the release verified from outside, and the
   answer remembered; a write of the answer that fails is ignored. *)
Remember(r) ==
    /\ req[r].at = "listed"
    /\ saved' \in {saved, [saved EXCEPT ![req[r].tree] = req[r].staged]}
    /\ Reached(r, "remembered")
    /\ UNCHANGED <<staging, lock, told, index, crashes, trigger, rebuilt>>

(* release.directory_partial, release.verify_failed: the index is committed,
   the caller gets an error, nothing is remembered and no rebuild asked for. *)
ConfirmFails(r) ==
    /\ req[r].at = "listed"
    /\ Answer(r, "failed")
    /\ UNCHANGED <<staging, answers, index, crashes, trigger, rebuilt>>

AnswerPublish(r) ==
    /\ req[r].at = "remembered"
    /\ Answer(r, "ok")
    /\ told' = told \cup {req[r].staged}
    /\ TriggerSiteRebuild
    /\ UNCHANGED <<staging, saved, index, crashes, rebuilt>>

-----------------------------------------------------------------------------
(* POST /v1/unpublish: handleUnpublish. *)

BeginUnpublish(r, t) ==
    /\ req[r].at = "new"
    /\ lock = None
    /\ lock' = r
    /\ req' = [req EXCEPT ![r] = [Kind("unpublish", t) EXCEPT !.at = "remove", !.plan = listed]]
    /\ UNCHANGED <<staging, answers, index, crashes, trigger, rebuilt>>

Kept(r) == {t \in req[r].plan : Version[t] # req[r].version}

(* The version must be listed, once, and not be the only one; a pointer that
   failed on some backends, and a web document on any, is a warning of an answer
   that says ok. *)
Remove(r) ==
    /\ req[r].at = "remove"
    /\ ~diverged
    /\ Kept(r) # {}
    /\ Cardinality(req[r].plan \ Kept(r)) = 1
    /\ listed' = Kept(r)
    /\ removed' = removed \cup (req[r].plan \ Kept(r))
    /\ told' = told \ (req[r].plan \ Kept(r))
    /\ diverged' \in BOOLEAN /\ stale' \in BOOLEAN
    /\ diverged' => stale'
    /\ Reached(r, "removed")
    /\ UNCHANGED <<staging, lock, saved, crashes, trigger, rebuilt>>

RemoveFails(r) ==
    /\ req[r].at = "remove"
    /\ Answer(r, "failed")
    /\ UNCHANGED <<staging, answers, index, crashes, trigger, rebuilt>>

AnswerUnpublish(r) ==
    /\ req[r].at = "removed"
    /\ Answer(r, "ok")
    /\ TriggerSiteRebuild
    /\ UNCHANGED <<staging, answers, index, crashes, rebuilt>>

-----------------------------------------------------------------------------
(* The agent dies and starts again: handlers, the lock and the rebuild are
   gone, files stay.  A half-extracted tree is refused like none at all, or
   has the documents of the release and is as good as whole; a digest may have
   been removed and not yet replaced.  A pointer loop that is cut short leaves
   what CommitFails leaves. *)
Installing(v, point) ==
    lock # None /\ req[lock].at = point /\ req[lock].version = v

Crash ==
    /\ crashes < MaxCrashes
    /\ crashes' = crashes + 1
    /\ req' = [r \in Requests |-> IF req[r].at \in {"new", "done"} THEN req[r]
                                  ELSE Answered("lost")]
    /\ tree' \in {tree, [v \in Versions |-> IF Installing(v, "extract")
                                            THEN req[lock].tree ELSE tree[v]]}
    /\ sha' \in {sha, [v \in Versions |-> IF Installing(v, "record")
                                          THEN None ELSE sha[v]]}
    /\ lock' = None
    /\ pending' = FALSE /\ running' = FALSE
    /\ worker' = [w \in Workers |-> "off"]
    /\ behind' = TRUE
    /\ asked' = 0 /\ seen' = 0
    /\ UNCHANGED <<answers, index, snap, site, panics>>

Put(r) ==
    \/ \E t \in Trees : BeginPut(r, t)
    \/ Extract(r) \/ ExtractFails(r)
    \/ Record(r) \/ RecordFails(r)

Publish(r) ==
    \/ \E t \in Trees : MatchStaged(r, t)
    \/ Replay(r)
    \/ LockAndLoad(r)
    \/ Plan(r) \/ PlanFails(r)
    \/ Commit(r) \/ CommitFails(r)
    \/ Remember(r) \/ ConfirmFails(r)
    \/ AnswerPublish(r)

Unpublish(r) ==
    \/ \E t \in Trees : BeginUnpublish(r, t)
    \/ Remove(r) \/ RemoveFails(r)
    \/ AnswerUnpublish(r)

Rebuild(w) == BeginRebuild(w) \/ EndRebuild(w) \/ Panic(w) \/ Restart(w)

Next ==
    \/ \E r \in Requests :
          \/ \E t \in Trees, kind \in {"put", "unpublish"} : Conflict(r, t, kind)
          \/ Put(r) \/ Publish(r) \/ Unpublish(r)
    \/ \E w \in Workers : Rebuild(w)
    \/ Crash

Spec == Init /\ [][Next]_vars

(* The Go scheduler runs every goroutine that can run. *)
FairSpec == Spec /\ \A w \in Workers : WF_vars(Rebuild(w))

-----------------------------------------------------------------------------
(* Properties. *)

FilesOK ==
    /\ tree \in [Versions -> Trees \cup {None}]
    /\ sha \in [Versions -> Trees \cup {None}]
    /\ saved \in [Trees -> Trees \cup {None}]
    /\ listed \subseteq Trees /\ removed \subseteq Trees /\ told \subseteq Trees
    /\ diverged \in BOOLEAN /\ stale \in BOOLEAN
    /\ crashes \in Nat

HandlersOK ==
    /\ req \in [Requests -> Handlers]
    /\ lock \in Requests \cup {None}
    /\ \A r \in Requests : req[r].at \in Locked <=> lock = r

SiteOK ==
    /\ pending \in BOOLEAN /\ running \in BOOLEAN /\ behind \in BOOLEAN
    /\ worker \in [Workers -> {"off", "loop", "rebuild", "restart"}]
    /\ snap \in (SUBSET Trees) \cup {None} /\ site \subseteq Trees
    /\ panics \in Nat /\ asked \in Nat /\ seen \in 0 .. asked

(* The types of the state; the lock is held exactly while a handler is between
   its TryLock and its return, so no early return keeps it. *)
TypeOK == FilesOK /\ HandlersOK /\ SiteOK

(* A release whose publish was answered ok stays listed until an unpublish
   names its version, whatever other requests are under way (publish-agent.md
   section 4: requests of one product are serialised). *)
ToldIsListed == told \subseteq listed

(* Why: a handler has a kind that fits its place, the index it read is still
   the one that is served when it replaces it, and releases that are reported,
   remembered or about to be stay listed or are removed by name. *)
Fits(h) ==
    /\ h.at \in {"extract", "record"} =>
           h.kind = "put" /\ h.tree \in Trees /\ h.version \in Versions
    /\ h.at \in {"matched", "missed", "loaded", "planned", "listed", "remembered"} =>
           h.kind = "publish" /\ h.tree \in Trees /\ h.version \in Versions
    /\ h.at \in {"loaded", "planned", "listed", "remembered"} => h.staged \in Trees
    /\ h.at \in {"remove", "removed"} => h.kind = "unpublish" /\ h.version \in Versions
    /\ h.answer # "none" => h.at = "done"

HandlerInv(h) ==
    /\ Fits(h)
    /\ h.at \in {"planned", "remove"} => h.plan = listed
    /\ h.at \in {"listed", "remembered"} => h.staged \in listed

RequestInv ==
    /\ \A r \in Requests : HandlerInv(req[r])
    /\ \A t \in Trees : saved[t] # None => saved[t] \in listed \cup removed
    /\ ToldIsListed

(* Once no rebuild is asked for or under way, and the last one could deploy what
   the documents of every backend list, the site shows every release a caller
   was told is published, and none that is not listed, unless an unpublish of it
   has not answered yet. *)
Shows(releases) ==
    /\ told \subseteq releases
    /\ releases \subseteq listed \/ \E r \in Requests : req[r].at = "removed"

SiteShowsAnswered ==
    ~pending /\ ~running /\ ~behind /\ (\A w \in Workers : worker[w] = "off")
    => Shows(site)

(* "guaranteeing one more pass" (server.go): a rebuild asked for is followed by
   one that begins later, unless the agent dies, even if rebuilds panic. *)
TriggerIsServed ==
    \A n \in 1 .. Cardinality(Requests) : asked >= n ~> (seen >= n \/ asked < n)

=============================================================================

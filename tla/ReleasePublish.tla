---------------------------- MODULE ReleasePublish ----------------------------
(***************************************************************************)
(* Publishing and unpublishing the releases of one product on several      *)
(* storage backends (internal/publish), beside the garbage collector of    *)
(* the self-hosted store (cmd/relkit-store/gc.go).                         *)
(*                                                                         *)
(* The publish agent holds one lock per product, so one job is under way   *)
(* at a time, but every write of the job is a remote call of its own: it   *)
(* may be refused, it may take effect and report an error, and the agent   *)
(* may die before the next one.  Collectors of the stores and uploads of   *)
(* content-addressed blobs by CI run in between.                           *)
(*                                                                         *)
(* Abstractions.  A build has one artifact.  A manifest is identified by   *)
(* the attempt that wrote it (each attempt stamps a new releasedAt), so    *)
(* the node of an index, which carries the digest of a manifest, is the    *)
(* same value as the manifest it was made for.  Signing, the handshake,    *)
(* the changelog and dry runs change no published state and are left out.  *)
(***************************************************************************)
EXTENDS UpgradeChain

CONSTANTS
    Backends,        \* storage backends of the product
    Builds,          \* staged trees an operator may publish
    Versions,        \* version strings
    Channels,        \* release channels
    Blobs,           \* artifact contents
    Version,         \* Version[x]: the version of build x
    Code,            \* Code[x]: its release code
    MaxCode,         \* the largest release code (an int64 in the documents)
    MinFrom,         \* MinFrom[x]: the lowest code that may install it directly
    Channel,         \* Channel[x]: its channel
    Blob,            \* Blob[x]: the content of its artifact
    Bundled,         \* builds whose staged tree still holds the artifact file
    TargetSets,      \* sets of backends a request may name ("to" or publishTo)
    DefaultChannel,  \* the only channel unpublish works on
    RetainVersions,  \* releases an index keeps; 0 keeps every one
    AllowBackfill,   \* requests may pass --allow-backfill
    GCBackends,      \* backends that run the store's garbage collector
    OtherProducts,   \* those stores also hold the indexes of other products
    ReadsMayFail,    \* a read of the sweep may fail
    MaxJobs,         \* bound: publish and unpublish jobs of one behaviour
    None             \* no object at a key

ASSUME BackendsAssumption == Backends # {} /\ IsFiniteSet(Backends)
ASSUME BuildsAssumption ==
    /\ Version \in [Builds -> Versions]
    /\ Code \in [Builds -> 0 .. MaxCode]
    /\ MinFrom \in [Builds -> Nat]
    /\ Channel \in [Builds -> Channels]
    /\ Blob \in [Builds -> Blobs]
    /\ Bundled \subseteq Builds
ASSUME TargetsAssumption == TargetSets \subseteq ((SUBSET Backends) \ {{}})
ASSUME ParametersAssumption ==
    /\ DefaultChannel \in Channels
    /\ RetainVersions \in Nat
    /\ AllowBackfill \in BOOLEAN
    /\ GCBackends \subseteq Backends
    /\ OtherProducts \in BOOLEAN
    /\ ReadsMayFail \in BOOLEAN
    /\ MaxJobs \in Nat
    /\ MaxCode \in Nat

VARIABLES
    index,     \* index[b][ch]: the signed index document served by b
    manifest,  \* manifest[b][v]: the manifest at manifest/<product>/<v> on b
    artifact,  \* artifact[b][v]: the content below artifact/<product>/<v>/ on b
    cas,       \* cas[b]: the contents at cas/<sha256> on b
    latest,    \* latest[b][ch]: the release the fixed "latest" links advertise
    channel,   \* channel[b][ch]: the releases the history page lists
    release,   \* release[b][ch]: versions with a release detail document
    job,       \* the job that holds the product lock
    att,       \* jobs begun so far
    gc,        \* gc[b]: what the collector of b decided to keep, or None
    listed     \* listed[b][ch]: every node an index of b has ever listed

store == <<index, manifest, artifact, cas>>
web   == <<latest, channel, release>>
vars  == <<index, manifest, artifact, cas, latest, channel, release,
           job, att, gc, listed>>

-----------------------------------------------------------------------------
(* Documents. *)

(* The manifest of one publish attempt, and the index node that names it:
   urls are the backends whose copies the manifest and the node list. *)
Nodes == [build : Builds, att : 1 .. MaxJobs, urls : SUBSET Backends]

ASSUME NoneAssumption == None \notin Nodes

(* An index document; gen is the attempt that signed it, so two documents
   signed by different attempts differ. *)
Indexes == [seq : Nat, nodes : SUBSET Nodes, gen : 0 .. MaxJobs]

NoIndex == [seq |-> 0, nodes |-> {}, gen |-> 0]

VersionsOf(nodes) == {Version[n.build] : n \in nodes}
CodesOf(nodes)    == {Code[n.build] : n \in nodes}

(* What the chain algorithms see of a node; publishing never yanks. *)
Entry(n) == [code |-> Code[n.build], minFrom |-> MinFrom[n.build], yanked |-> FALSE]
Entries(nodes) == {Entry(n) : n \in nodes}

Valid(nodes) == ReachabilityErrors(Entries(nodes), NoMinSupported) = {}

(* The node of the highest code. *)
HighestNode(nodes) ==
    CHOOSE n \in nodes : \A m \in nodes : Code[m.build] <= Code[n.build]

(* A node replaces the one of its code and nothing else. *)
MergeNode(nodes, node) ==
    {n \in nodes : Code[n.build] # Code[node.build]} \cup {node}

(* Mutant: the new release does not count towards the window. *)
ApplyRetain_OneLess(nodes) ==
    IF RetainVersions = 0
    THEN nodes
    ELSE {n \in nodes :
             Cardinality({m \in nodes : Code[m.build] >= Code[n.build]}) < RetainVersions}

(* The RetainVersions nodes of the highest codes. *)
ApplyRetain(nodes) ==
    IF RetainVersions = 0
    THEN nodes
    ELSE {n \in nodes :
             Cardinality({m \in nodes : Code[m.build] > Code[n.build]}) < RetainVersions}

-----------------------------------------------------------------------------
(* Jobs. *)

Phases == {"idle", "artifacts", "manifest", "index", "release", "web", "sweep", "done"}

Jobs == [kind      : {"none", "publish", "unpublish"},
         phase     : Phases,
         node      : Nodes \cup {None},     \* publish: the new node
         gone      : Versions \cup {None},  \* unpublish: the version removed
         ch        : Channels,
         targets   : SUBSET Backends,
         source    : Backends \cup {None},  \* the ingest backend
         todo      : SUBSET Backends,       \* left to visit in this phase
         committed : SUBSET Backends,       \* pointer writes that succeeded
         doc       : Indexes,               \* the index to be written
         pruned    : SUBSET Nodes,          \* nodes retention dropped
         failed    : BOOLEAN,               \* the caller gets an error
         warned    : BOOLEAN]               \* the log has a warning

Idle == [kind |-> "none", phase |-> "idle", node |-> None, gone |-> None,
         ch |-> DefaultChannel, targets |-> {}, source |-> None, todo |-> {},
         committed |-> {}, doc |-> NoIndex, pruned |-> {},
         failed |-> FALSE, warned |-> FALSE]

(* Mutant: the pointer is written before the manifest it names. *)
NextPhase_PointerFirst(j) ==
    CASE j.phase = "artifacts" -> "index"
      [] j.phase = "index"     -> IF j.committed = {} THEN "done"
                                  ELSE IF j.kind = "publish" THEN "web" ELSE "release"
      [] j.phase = "release"   -> "web"
      [] OTHER                 -> "done"

(* The phase after the last backend of a phase was visited.  A pointer that
   reached no backend ends the job; web documents are written to the backends
   that committed; the sweep runs after a publish without a failed pointer
   that dropped releases. *)
NextPhase(j) ==
    CASE j.phase = "artifacts" -> "manifest"
      [] j.phase = "manifest"  -> "index"
      [] j.phase = "index"     -> IF j.committed = {} THEN "done"
                                  ELSE IF j.kind = "publish" THEN "web" ELSE "release"
      [] j.phase = "release"   -> "web"
      [] j.phase = "web"       -> IF j.kind = "publish" /\ ~j.failed /\ j.pruned # {}
                                  THEN "sweep" ELSE "done"
      [] OTHER                 -> "done"

(* Mutant: web documents go to every target, committed or not. *)
Enter_WebEverywhere(j, phase) ==
    [j EXCEPT !.phase = phase,
              !.todo  = IF phase = "done" THEN {} ELSE j.targets,
              !.failed = @ \/ (j.phase = "index" /\ j.committed = {})]

(* Mutant: the manifest is uploaded to the ingest backend only. *)
Enter_ManifestOnSource(j, phase) ==
    [j EXCEPT !.phase = phase,
              !.todo  = CASE phase = "manifest" -> {j.source}
                          [] phase = "index"    -> j.targets
                          [] phase \in {"release", "web", "sweep"} -> j.committed
                          [] OTHER              -> {},
              !.failed = @ \/ (j.phase = "index" /\ j.committed = {})]

Enter(j, phase) ==
    [j EXCEPT !.phase = phase,
              !.todo  = CASE phase \in {"manifest", "index"}       -> j.targets
                          [] phase \in {"release", "web", "sweep"} -> j.committed
                          [] OTHER                                 -> {},
              !.failed = @ \/ (j.phase = "index" /\ j.committed = {})]

(* Backend b has been dealt with. *)
Visited(j, b) ==
    LET k == [j EXCEPT !.todo = @ \ {b}]
    IN  IF k.todo = {} THEN Enter(k, NextPhase(k)) ELSE k

(* The job returns an error at once. *)
Abort(j) == [j EXCEPT !.phase = "done", !.todo = {}, !.failed = TRUE]

At(phase, b) == job.phase = phase /\ b \in job.todo

-----------------------------------------------------------------------------
Init ==
    /\ index    = [b \in Backends |-> [ch \in Channels |-> NoIndex]]
    /\ manifest = [b \in Backends |-> [v \in Versions |-> None]]
    /\ artifact = [b \in Backends |-> [v \in Versions |-> None]]
    /\ cas      = [b \in Backends |-> {}]
    /\ latest   = [b \in Backends |-> [ch \in Channels |-> None]]
    /\ channel  = [b \in Backends |-> [ch \in Channels |-> {}]]
    /\ release  = [b \in Backends |-> [ch \in Channels |-> {}]]
    /\ job      = Idle
    /\ att      = 0
    /\ gc       = [b \in Backends |-> None]
    /\ listed   = [b \in Backends |-> [ch \in Channels |-> {}]]

(* Mutant: divergence is not checked at all. *)
Agree_Unchecked(T, ch) == TRUE

(* Two backends agree when they serve the same index bytes; a missing index
   on one of them counts as a disagreement. *)
Agree(T, ch) == \A a, b \in T : index[a][ch] = index[b][ch]

Current(T, ch) == index[CHOOSE b \in T : TRUE][ch]

(* New codes must exceed every listed one, unless the request backfills. *)
CodeMonotonic(x, nodes) == AllowBackfill \/ \A n \in nodes : Code[n.build] < Code[x]

(* A publish of build x to the targets T: read the current index of every
   target, refuse a divergent or invalid state, plan the new index.  The
   targets are an ordered list and its first backend is the source. *)
BeginPublish(x, T, source) ==
    LET ch     == Channel[x]
        base   == Current(T, ch)
        node   == [build |-> x, att |-> att + 1, urls |-> T]
        merged == MergeNode(base.nodes, node)
        kept   == ApplyRetain(merged)
    IN  /\ job = Idle
        /\ att < MaxJobs
        /\ Agree(T, ch)
        /\ CodeMonotonic(x, base.nodes)
        /\ Valid(kept)
        /\ job' = [Idle EXCEPT !.kind = "publish", !.phase = "artifacts",
                               !.node = node, !.ch = ch, !.targets = T,
                               !.source = source, !.todo = T,
                               !.doc = [seq |-> base.seq + 1, nodes |-> kept, gen |-> att + 1],
                               !.pruned = merged \ kept]
        /\ att' = att + 1
        /\ UNCHANGED <<store, web, gc, listed>>

(* The source takes the artifact through its content-addressed key: a blob
   that is already there is promoted, a missing one is uploaded from the staged
   tree.  A replica gets a copy of the staged file or of the source's blob. *)
HasContent(b) ==
    \/ job.node.build \in Bundled
    \/ Blob[job.node.build] \in cas[job.source]

SourceFirst(b) == b = job.source \/ job.source \notin job.todo

StoredBlob(b) == IF b = job.source
                 THEN [cas EXCEPT ![b] = @ \cup {Blob[job.node.build]}]
                 ELSE cas

StoredArtifact(b) ==
    [artifact EXCEPT ![b][Version[job.node.build]] = Blob[job.node.build]]

PutArtifact(b) ==
    /\ At("artifacts", b)
    /\ SourceFirst(b)
    /\ HasContent(b)
    /\ cas' = StoredBlob(b)
    /\ artifact' = StoredArtifact(b)
    /\ job' = Visited(job, b)
    /\ UNCHANGED <<index, manifest, web, att, gc, listed>>

(* The upload or the promotion is refused, or takes effect and reports an
   error, or there is no content to send: the publish returns. *)
ArtifactFails(b) ==
    /\ At("artifacts", b)
    /\ SourceFirst(b)
    /\ \/ UNCHANGED <<cas, artifact>>
       \/ HasContent(b) /\ cas' = StoredBlob(b) /\ UNCHANGED artifact
       \/ HasContent(b) /\ cas' = StoredBlob(b) /\ artifact' = StoredArtifact(b)
    /\ job' = Abort(job)
    /\ UNCHANGED <<index, manifest, web, att, gc, listed>>

(* The manifest key of the version is overwritten, whatever it held. *)
StoredManifest(b) == [manifest EXCEPT ![b][Version[job.node.build]] = job.node]

PutManifest(b) ==
    /\ At("manifest", b)
    /\ manifest' = StoredManifest(b)
    /\ job' = Visited(job, b)
    /\ UNCHANGED <<index, artifact, cas, web, att, gc, listed>>

ManifestFails(b) ==
    /\ At("manifest", b)
    /\ manifest' \in {manifest, StoredManifest(b)}
    /\ job' = Abort(job)
    /\ UNCHANGED <<index, artifact, cas, web, att, gc, listed>>

StoredIndex(b) ==
    /\ index' = [index EXCEPT ![b][job.ch] = job.doc]
    /\ listed' = [listed EXCEPT ![b][job.ch] = @ \cup job.doc.nodes]

(* The commit point, one backend after another. *)
PutIndex(b) ==
    /\ At("index", b)
    /\ StoredIndex(b)
    /\ job' = Visited([job EXCEPT !.committed = @ \cup {b}], b)
    /\ UNCHANGED <<manifest, artifact, cas, web, att, gc>>

(* Mutant: a pointer that one backend refused is only a warning. *)
IndexFails_Tolerated(b) ==
    /\ At("index", b)
    /\ StoredIndex(b) \/ UNCHANGED <<index, listed>>
    /\ job' = Visited([job EXCEPT !.warned = TRUE], b)
    /\ UNCHANGED <<manifest, artifact, cas, web, att, gc>>

(* A failed pointer write does not stop the loop.  It makes a publish fail
   in the end; an unpublish only reports a warning. *)
IndexFails(b) ==
    /\ At("index", b)
    /\ StoredIndex(b) \/ UNCHANGED <<index, listed>>
    /\ job' = Visited([job EXCEPT !.failed = @ \/ job.kind = "publish",
                                  !.warned = @ \/ job.kind = "unpublish"], b)
    /\ UNCHANGED <<manifest, artifact, cas, web, att, gc>>

-----------------------------------------------------------------------------
(* An unpublish of version v: the default channel only, never the last one,
   and only when every target lists it. *)
Removable(v, nodes) ==
    /\ Cardinality({n \in nodes : Version[n.build] = v}) = 1
    /\ \E n \in nodes : Version[n.build] # v

UnpublishAdmitted(v, T) ==
    LET nodes == Current(T, DefaultChannel).nodes
        kept  == {n \in nodes : Version[n.build] # v}
    IN  /\ Agree(T, DefaultChannel)
        /\ Removable(v, nodes)
        /\ Valid(kept)

BeginUnpublish(v, T) ==
    LET base == Current(T, DefaultChannel)
        kept == {n \in base.nodes : Version[n.build] # v}
    IN  /\ job = Idle
        /\ att < MaxJobs
        /\ UnpublishAdmitted(v, T)
        /\ job' = [Idle EXCEPT !.kind = "unpublish", !.phase = "index", !.gone = v,
                               !.targets = T, !.todo = T,
                               !.doc = [seq |-> base.seq + 1, nodes |-> kept, gen |-> att + 1]]
        /\ att' = att + 1
        /\ UNCHANGED <<store, web, gc, listed>>

(* The release detail of the removed version is deleted; a delete that fails
   is a warning. *)
DeleteRelease(b) ==
    /\ At("release", b)
    /\ \E done, clean \in BOOLEAN :
          /\ clean => done
          /\ release' = IF done THEN [release EXCEPT ![b][job.ch] = @ \ {job.gone}]
                        ELSE release
          /\ job' = Visited([job EXCEPT !.warned = @ \/ ~clean], b)
    /\ UNCHANGED <<store, latest, channel, att, gc, listed>>

(* The release the "latest" links will name: a publish advertises the build
   it published, an unpublish the highest node that remains, whose manifest
   it must be able to read on a backend that committed. *)
LatestAvailable ==
    \/ job.kind = "publish"
    \/ \E c \in job.committed : manifest[c][Version[HighestNode(job.doc.nodes).build]] # None

LatestNode == IF job.kind = "publish" THEN job.node ELSE HighestNode(job.doc.nodes)

WebDocs == {"latest", "channel"} \cup (IF job.kind = "publish" THEN {"release"} ELSE {})

(* The derived documents of one backend; any of them may fail, which is a
   warning only. *)
WriteWeb(b) ==
    /\ At("web", b)
    /\ \E written \in SUBSET WebDocs, clean \in BOOLEAN :
          /\ clean => written = WebDocs
          /\ "latest" \in written => LatestAvailable
          /\ latest' = IF "latest" \in written
                       THEN [latest EXCEPT ![b][job.ch] = LatestNode] ELSE latest
          /\ channel' = IF "channel" \in written
                        THEN [channel EXCEPT ![b][job.ch] = job.doc.nodes] ELSE channel
          /\ release' = IF "release" \in written
                        THEN [release EXCEPT ![b][job.ch] = @ \cup {Version[job.node.build]}]
                        ELSE release
          /\ job' = Visited([job EXCEPT !.warned = @ \/ ~clean], b)
    /\ UNCHANGED <<store, att, gc, listed>>

(* Mutant: only the channel that was published counts as live. *)
SweepCAS_OneChannel(b) ==
    /\ At("sweep", b)
    /\ \E deleted \in SUBSET {Blob[n.build] : n \in job.pruned} :
          /\ deleted \cap {Blob[n.build] : n \in job.doc.nodes} = {}
          /\ cas' = [cas EXCEPT ![b] = @ \ deleted]
    /\ job' = Visited(job, b)
    /\ UNCHANGED <<index, manifest, artifact, web, att, gc, listed>>

(* Blobs the manifests of the given versions name on b, those unread aside. *)
NamedBlobs(b, versions) ==
    {Blob[manifest[b][v].build] : v \in {w \in versions : manifest[b][w] # None}}

(* Delete the blobs of dropped releases that nothing else names: the build
   just published, the new index, and the product's other channels as they read
   on this backend.  A document that cannot be read names nothing. *)
SweepCAS(b) ==
    /\ At("sweep", b)
    /\ \E noChannel \in (IF ReadsMayFail THEN SUBSET (Channels \ {job.ch}) ELSE {{}}),
          noVersion \in (IF ReadsMayFail THEN SUBSET Versions ELSE {{}}) :
          LET others == UNION {index[b][ch].nodes : ch \in Channels \ ({job.ch} \cup noChannel)}
              live == {Blob[job.node.build]}
                        \cup NamedBlobs(b, VersionsOf(job.doc.nodes \cup others) \ noVersion)
              dropped == NamedBlobs(b, VersionsOf(job.pruned) \ noVersion)
          IN  \E deleted \in SUBSET (dropped \ live) :
                  cas' = [cas EXCEPT ![b] = @ \ deleted]
    /\ job' = Visited(job, b)
    /\ UNCHANGED <<index, manifest, artifact, web, att, gc, listed>>

(* The answer goes out and the product lock is released. *)
Reply ==
    /\ job.phase = "done"
    /\ job' = Idle
    /\ UNCHANGED <<store, web, att, gc, listed>>

(* The agent dies; nothing of the job survives it. *)
Crash ==
    /\ job.phase \notin {"idle", "done"}
    /\ job' = Idle
    /\ UNCHANGED <<store, web, att, gc, listed>>

-----------------------------------------------------------------------------
(* CI uploads the artifact of a build that is staged without it, whenever it
   does not find it there. *)
UploadBlob(b, x) ==
    /\ x \notin Bundled
    /\ Blob[x] \notin cas[b]
    /\ cas' = [cas EXCEPT ![b] = @ \cup {Blob[x]}]
    /\ UNCHANGED <<index, manifest, artifact, web, job, att, gc, listed>>

(* Mutant: the latest documents are not consulted. *)
GCScan_IndexOnly(b) ==
    LET nodes    == UNION {index[b][ch].nodes : ch \in Channels}
        versions == VersionsOf(nodes)
    IN  /\ gc[b] = None
        /\ versions # {} \/ OtherProducts
        /\ \A v \in versions : manifest[b][v] # None
        /\ gc' = [gc EXCEPT ![b] = [manifests |-> versions, artifacts |-> versions,
                                    blobs |-> NamedBlobs(b, versions), seen |-> nodes,
                                    linked |-> {latest[b][ch] : ch \in Channels} \ {None}]]
        /\ UNCHANGED <<store, web, job, att, listed>>

(* A round of the store's collector first reads what is named: the manifests
   the published indexes list, the artifacts of those manifests and of the
   latest documents, the blobs of those manifests.  A named manifest that is
   missing, or nothing to keep at all, aborts the round. *)
GCScan(b) ==
    LET nodes    == UNION {index[b][ch].nodes : ch \in Channels}
        versions == VersionsOf(nodes)
        linked   == {latest[b][ch] : ch \in Channels} \ {None}
    IN  /\ gc[b] = None
        /\ versions # {} \/ OtherProducts
        /\ \A v \in versions : manifest[b][v] # None
        /\ gc' = [gc EXCEPT ![b] = [manifests |-> versions,
                                    artifacts |-> versions \cup VersionsOf(linked),
                                    blobs     |-> NamedBlobs(b, versions),
                                    seen      |-> nodes,
                                    linked    |-> linked]]
        /\ UNCHANGED <<store, web, job, att, listed>>

(* It then walks the three prefixes and removes what it did not mark.  A blob
   may also be protected by an upload lease or its grace period; manifests
   and artifacts have neither. *)
GCSweep(b) ==
    /\ gc[b] # None
    /\ manifest' = [manifest EXCEPT ![b] =
           [v \in Versions |-> IF v \in gc[b].manifests THEN @[v] ELSE None]]
    /\ artifact' = [artifact EXCEPT ![b] =
           [v \in Versions |-> IF v \in gc[b].artifacts THEN @[v] ELSE None]]
    /\ \E expired \in SUBSET (cas[b] \ gc[b].blobs) :
           cas' = [cas EXCEPT ![b] = @ \ expired]
    /\ gc' = [gc EXCEPT ![b] = None]
    /\ UNCHANGED <<index, web, job, att, listed>>

-----------------------------------------------------------------------------
JobStep(b) ==
    \/ PutArtifact(b) \/ ArtifactFails(b)
    \/ PutManifest(b) \/ ManifestFails(b)
    \/ PutIndex(b)    \/ IndexFails(b)
    \/ DeleteRelease(b)
    \/ WriteWeb(b)
    \/ SweepCAS(b)

Next ==
    \/ \E x \in Builds, T \in TargetSets : \E source \in T : BeginPublish(x, T, source)
    \/ \E v \in Versions, T \in TargetSets : BeginUnpublish(v, T)
    \/ \E b \in Backends : JobStep(b)
    \/ Reply
    \/ Crash
    \/ \E b \in Backends, x \in Builds : UploadBlob(b, x)
    \/ \E b \in GCBackends : GCScan(b) \/ GCSweep(b)

Spec == Init /\ [][Next]_vars

-----------------------------------------------------------------------------
(* Properties. *)

GCMarks == [manifests : SUBSET Versions, artifacts : SUBSET Versions,
            blobs : SUBSET Blobs, seen : SUBSET Nodes, linked : SUBSET Nodes]

(* The types of the state. *)
TypeOK ==
    /\ index \in [Backends -> [Channels -> Indexes]]
    /\ manifest \in [Backends -> [Versions -> Nodes \cup {None}]]
    /\ artifact \in [Backends -> [Versions -> Blobs \cup {None}]]
    /\ cas \in [Backends -> SUBSET Blobs]
    /\ latest \in [Backends -> [Channels -> Nodes \cup {None}]]
    /\ channel \in [Backends -> [Channels -> SUBSET Nodes]]
    /\ release \in [Backends -> [Channels -> SUBSET Versions]]
    /\ job \in Jobs
    /\ att \in 0 .. MaxJobs
    /\ gc \in [Backends -> GCMarks \cup {None}]
    /\ listed \in [Backends -> [Channels -> SUBSET Nodes]]

(* A client that trusts the signed index of b finds on b, for every release
   it lists, the very manifest whose digest the index carries and the
   artifact that manifest describes (SPEC 1, SPEC 13: what no index names
   yet is invisible, what an index names is complete). *)
Served(n, b) ==
    /\ manifest[b][Version[n.build]] = n
    /\ artifact[b][Version[n.build]] = Blob[n.build]

ListedIsServedBy(b) ==
    \A ch \in Channels : \A n \in index[b][ch].nodes : Served(n, b)

ListedIsServed == \A b \in Backends : ListedIsServedBy(b)

(* The same for every mirror a node names, whichever backend the client read
   the index from. *)
EveryMirrorServes ==
    \A b \in Backends, ch \in Channels :
        \A n \in index[b][ch].nodes : \A u \in n.urls : Served(n, u)

(* The human-readable documents advertise only releases that an index of the
   same backend has listed: they never run ahead of the signed index, whatever
   pointer failed and wherever the agent died. *)
WebNeverAhead ==
    \A b \in Backends, ch \in Channels :
        /\ latest[b][ch] # None => latest[b][ch] \in listed[b][ch]
        /\ channel[b][ch] \subseteq listed[b][ch]
        /\ release[b][ch] \subseteq VersionsOf(listed[b][ch])

(* Two mirrors never serve different indexes under one sequence number: a
   client that moves between them compares sequences only. *)
SequenceNamesOneIndex ==
    \A a, b \in Backends, ch \in Channels :
        index[a][ch].seq = index[b][ch].seq => index[a][ch] = index[b][ch]

(* What the caller may conclude from an answer without error.  A publish is
   listed on every target, all of which serve one index; if there was no
   warning either, the web documents show it.  An unpublish without warnings
   left the version in no document of any target. *)
AnswerIsTrue ==
    job.phase = "done" /\ ~job.failed =>
        \A b \in job.targets :
            /\ job.kind = "publish" =>
                   /\ job.node \in index[b][job.ch].nodes
                   /\ Agree(job.targets, job.ch)
                   /\ ~job.warned =>
                          /\ latest[b][job.ch] = HighestNode(index[b][job.ch].nodes)
                          /\ channel[b][job.ch] = index[b][job.ch].nodes
                          /\ Version[job.node.build] \in release[b][job.ch]
            /\ job.kind = "unpublish" /\ ~job.warned =>
                   /\ job.gone \notin VersionsOf(index[b][job.ch].nodes)
                   /\ job.gone \notin VersionsOf(channel[b][job.ch])
                   /\ job.gone \notin release[b][job.ch]
                   /\ job.gone # Version[latest[b][job.ch].build]

(* A client accepts an index only if its sequence grew: a backend never
   replaces its index without raising the sequence. *)
SequenceGrows ==
    [][\A b \in Backends, ch \in Channels :
          index'[b][ch] # index[b][ch] => index'[b][ch].seq > index[b][ch].seq]_vars

(* A release leaves an index in three ways only: an unpublish names its
   version, RetainVersions releases of higher codes stay, or a backfilled build
   takes its code. *)
ReleaseLeavesOnPurpose ==
    [][\A b \in Backends, ch \in Channels :
          \A n \in index[b][ch].nodes \ index'[b][ch].nodes :
              \/ job.kind = "unpublish" /\ Version[n.build] = job.gone
              \/ /\ RetainVersions > 0
                 /\ RetainVersions <=
                       Cardinality({m \in index'[b][ch].nodes : Code[m.build] > Code[n.build]})
              \/ AllowBackfill /\ Code[n.build] \in CodesOf(index'[b][ch].nodes)]_vars

(* The sweep after a publish takes no blob from a release whose manifest is in
   place and that an index of the backend still names, on any channel. *)
SweepKeepsNamed ==
    [][\A b \in Backends : gc'[b] = gc[b] =>
          \A blob \in cas[b] \ cas'[b], ch \in Channels :
              \A n \in index[b][ch].nodes : Served(n, b) => Blob[n.build] # blob]_vars

(* A collection takes nothing from a release that was listed when the round
   began and still is, nor from one the latest links advertise all along. *)
CollectorKeepsSettled ==
    [][\A b \in Backends : gc[b] # None /\ gc'[b] = None =>
          /\ \A ch \in Channels : \A n \in index[b][ch].nodes \cap gc[b].seen :
                 /\ manifest'[b][Version[n.build]] = manifest[b][Version[n.build]]
                 /\ artifact'[b][Version[n.build]] = artifact[b][Version[n.build]]
                 /\ Blob[n.build] \in cas[b] /\ Served(n, b) => Blob[n.build] \in cas'[b]
          /\ \A ch \in Channels : latest[b][ch] \in gc[b].linked =>
                 artifact'[b][Version[latest[b][ch].build]]
                     = artifact[b][Version[latest[b][ch].build]]]_vars

-----------------------------------------------------------------------------
(* What every step of a job relies on.  The conjuncts hold together: the
   plan stays valid because the product lock keeps other jobs away from the
   index between the read and the pointer. *)

(* Backends whose pointer the job has still to write. *)
Unwritten(j) ==
    CASE j.phase \in {"artifacts", "manifest"} -> j.targets
      [] j.phase = "index"                     -> j.todo
      [] OTHER                                 -> {}

(* The record of a job fits its kind and phase. *)
WellFormed(j) ==
    /\ j.todo \subseteq j.targets
    /\ j.committed \subseteq j.targets
    /\ j.phase \in {"release", "web", "sweep"} => j.todo \subseteq j.committed
    /\ j.kind = "none" => j.phase = "idle"
    /\ j.phase \in {"artifacts", "manifest", "sweep"} => j.kind = "publish"
    /\ j.phase = "release" => j.kind = "unpublish"
    /\ j.kind = "publish" =>
          /\ j.node \in Nodes
          /\ j.ch = Channel[j.node.build] /\ j.source \in j.targets
    /\ j.kind = "unpublish" => j.gone \in Versions /\ j.doc.nodes # {}

JobShape == WellFormed(job)

(* The planned index continues the one each unwritten target still serves. *)
PlanIsCurrent ==
    \A b \in Unwritten(job) :
        /\ job.doc.seq = index[b][job.ch].seq + 1
        /\ \A n \in job.doc.nodes :
              n \in index[b][job.ch].nodes \/ (job.kind = "publish" /\ n = job.node)

(* No target lists the version of a publish before its pointer is written. *)
VersionIsNew ==
    job.phase \in {"artifacts", "manifest"} =>
        \A b \in job.targets, ch \in Channels : \A n \in index[b][ch].nodes :
            Version[n.build] # Version[job.node.build]

(* The uploads a publish has behind it are still there. *)
UploadsAreKept(b) ==
    job.kind = "publish" /\ b \in job.targets =>
        LET v == Version[job.node.build]
        IN  /\ job.phase = "artifacts" /\ b \notin job.todo =>
                   artifact[b][v] = Blob[job.node.build]
            /\ job.phase = "manifest" =>
                   /\ artifact[b][v] = Blob[job.node.build]
                   /\ b \notin job.todo => manifest[b][v] = job.node
            /\ job.phase = "index" => Served(job.node, b)

(* An index lists the builds of its channel. *)
ChannelsAreSeparate ==
    \A b \in Backends, ch \in Channels :
        \A n \in index[b][ch].nodes : Channel[n.build] = ch

(* A publish plans to list its release, and a pointer that was written lists
   what was planned. *)
CommittedIsListed ==
    /\ job.kind = "publish" => job.node \in job.doc.nodes
    /\ \A b \in job.committed : job.doc.nodes \subseteq listed[b][job.ch]

=============================================================================

------------------------- MODULE ReleasePublishProofs -------------------------
(***************************************************************************)
(* Theorems about ReleasePublish, for every value of its constants.        *)
(***************************************************************************)
EXTENDS ReleasePublish, WellFoundedInduction, FiniteSetTheorems, TLAPS

-----------------------------------------------------------------------------
(* The operators on jobs. *)

(* Closing a visit only moves the phase, the agenda and the error flag. *)
LEMMA VisitedFrame ==
    ASSUME NEW j \in Jobs, NEW b
    PROVE  LET k == Visited(j, b)
           IN  /\ k \in Jobs
               /\ k.kind = j.kind /\ k.node = j.node /\ k.gone = j.gone /\ k.ch = j.ch
               /\ k.targets = j.targets /\ k.source = j.source
               /\ k.committed = j.committed /\ k.doc = j.doc /\ k.pruned = j.pruned
               /\ k.warned = j.warned
               /\ j.todo \ {b} # {} => k.phase = j.phase /\ k.todo = j.todo \ {b}
               /\ j.todo \ {b} = {} =>
                     /\ k.phase = NextPhase([j EXCEPT !.todo = {}])
                     /\ k.todo = CASE k.phase \in {"manifest", "index"} -> j.targets
                                   [] k.phase \in {"release", "web", "sweep"} -> j.committed
                                   [] OTHER -> {}
<1> DEFINE r == [j EXCEPT !.todo = @ \ {b}]
<1>1. /\ r \in Jobs
      /\ r.kind = j.kind /\ r.phase = j.phase /\ r.node = j.node /\ r.gone = j.gone
      /\ r.ch = j.ch /\ r.targets = j.targets /\ r.source = j.source
      /\ r.todo = j.todo \ {b} /\ r.committed = j.committed /\ r.doc = j.doc
      /\ r.pruned = j.pruned /\ r.failed = j.failed /\ r.warned = j.warned
    BY DEF Jobs
<1>2. NextPhase(r) \in Phases
    BY DEF NextPhase, Phases
<1>3. ASSUME r.todo = {}
      PROVE  NextPhase([j EXCEPT !.todo = {}]) = NextPhase(r)
    BY <1>1, <1>3 DEF NextPhase, Jobs
<1>4. ASSUME NEW p \in Phases
      PROVE  /\ Enter(r, p) \in Jobs
             /\ Enter(r, p).kind = j.kind /\ Enter(r, p).node = j.node
             /\ Enter(r, p).gone = j.gone /\ Enter(r, p).ch = j.ch
             /\ Enter(r, p).targets = j.targets /\ Enter(r, p).source = j.source
             /\ Enter(r, p).committed = j.committed /\ Enter(r, p).doc = j.doc
             /\ Enter(r, p).pruned = j.pruned /\ Enter(r, p).warned = j.warned
             /\ Enter(r, p).phase = p
             /\ Enter(r, p).todo = CASE p \in {"manifest", "index"} -> j.targets
                                     [] p \in {"release", "web", "sweep"} -> j.committed
                                     [] OTHER -> {}
    <2>1. (r.failed \/ (r.phase = "index" /\ r.committed = {})) \in BOOLEAN
        OBVIOUS
    <2>2. CASE p \in {"manifest", "index"}
        BY <1>1, <2>1, <2>2 DEF Enter, Jobs
    <2>3. CASE p \in {"release", "web", "sweep"}
        BY <1>1, <2>1, <2>3 DEF Enter, Jobs
    <2>4. CASE p \notin {"manifest", "index", "release", "web", "sweep"}
        BY <1>1, <2>1, <2>4 DEF Enter, Jobs
    <2> QED BY <2>2, <2>3, <2>4
<1>5. CASE r.todo = {}
    <2>1. Visited(j, b) = Enter(r, NextPhase(r))
        BY <1>5 DEF Visited
    <2> QED BY <1>1, <1>2, <1>3, <1>4, <1>5, <2>1
<1>6. CASE r.todo # {}
    <2>1. Visited(j, b) = r
        BY <1>6 DEF Visited
    <2> QED BY <1>1, <1>6, <2>1
<1> QED BY <1>5, <1>6

(* Updating one entry of a table of tables. *)
LEMMA UpdateEntry ==
    ASSUME NEW A, NEW B, NEW C, NEW f \in [A -> [B -> C]],
           NEW a \in A, NEW b \in B, NEW c \in C
    PROVE  LET g == [f EXCEPT ![a][b] = c]
           IN  /\ g \in [A -> [B -> C]]
               /\ g[a][b] = c
               /\ \A x \in A, y \in B : x # a \/ y # b => g[x][y] = f[x][y]
<1>1. [f[a] EXCEPT ![b] = c] \in [B -> C]
    OBVIOUS
<1>2. [f EXCEPT ![a][b] = c] = [f EXCEPT ![a] = [f[a] EXCEPT ![b] = c]]
    OBVIOUS
<1> QED BY <1>1, <1>2

(* The visit of a backend leaves a job a job. *)
LEMMA VisitedType ==
    ASSUME NEW j \in Jobs, NEW b
    PROVE  Visited(j, b) \in Jobs
BY VisitedFrame

(* A job that gives up is a job. *)
LEMMA AbortFrame ==
    ASSUME NEW j \in Jobs
    PROVE  Abort(j) \in Jobs
BY DEF Abort, Jobs, Phases

(* The idle job is a job. *)
LEMMA IdleType == Idle \in Jobs
BY ParametersAssumption DEF Idle, Jobs, Phases, NoIndex, Indexes

(* Planning a document over a well-typed index. *)
LEMMA CurrentType ==
    ASSUME index \in [Backends -> [Channels -> Indexes]],
           NEW T \in TargetSets, NEW ch \in Channels
    PROVE  /\ Current(T, ch) \in Indexes
           /\ Agree(T, ch) => \A b \in T : index[b][ch] = Current(T, ch)
<1>1. T \subseteq Backends /\ T # {}
    BY TargetsAssumption
<1>2. \E b \in T : TRUE
    BY <1>1
<1>3. (CHOOSE b \in T : TRUE) \in T
    BY <1>2, Zenon
<1> QED BY <1>1, <1>3 DEF Current, Agree

(* Merging a node and applying retention give sets of nodes. *)
LEMMA PlanType ==
    ASSUME NEW nodes \in SUBSET Nodes, NEW node \in Nodes
    PROVE  /\ MergeNode(nodes, node) \in SUBSET Nodes
           /\ ApplyRetain(nodes) \in SUBSET nodes
BY DEF MergeNode, ApplyRetain

-----------------------------------------------------------------------------
(* Codes are bounded, so a set of nodes that is not empty has a highest one. *)
LEMMA HighestNodeExists ==
    ASSUME NEW nodes \in SUBSET Nodes, nodes # {}
    PROVE  /\ HighestNode(nodes) \in nodes
           /\ \A m \in nodes : Code[m.build] <= Code[HighestNode(nodes).build]
<1> DEFINE room == {MaxCode - Code[n.build] : n \in nodes}
<1>1. \A n \in nodes : n.build \in Builds /\ Code[n.build] \in 0 .. MaxCode
    BY BuildsAssumption DEF Nodes
<1>2. room \subseteq Nat /\ room # {}
    BY <1>1, ParametersAssumption
<1>3. PICK r \in room : \A s \in room : ~(<<s, r>> \in OpToRel(<, Nat))
    BY <1>2, NatLessThanWellFounded, WFMin, Zenon
<1>4. \A s \in room : r <= s
    <2> SUFFICES ASSUME NEW s \in room PROVE r <= s
        OBVIOUS
    <2>1. s < r => <<s, r>> \in OpToRel(<, Nat)
        BY <1>2 DEF OpToRel
    <2>2. r \in Nat /\ s \in Nat
        BY <1>2
    <2>3. ~(<<s, r>> \in OpToRel(<, Nat))
        BY <1>3
    <2>4. ~(s < r)
        BY <2>1, <2>3, Zenon
    <2> QED BY <2>2, <2>4
<1>5. PICK n \in nodes : r = MaxCode - Code[n.build]
    BY <1>3
<1>6. \A m \in nodes : Code[m.build] <= Code[n.build]
    <2> SUFFICES ASSUME NEW m \in nodes PROVE Code[m.build] <= Code[n.build]
        OBVIOUS
    <2>1. MaxCode - Code[m.build] \in room
        OBVIOUS
    <2>2. r <= MaxCode - Code[m.build]
        BY <1>4, <2>1
    <2> QED BY <1>1, <1>5, <2>2, ParametersAssumption
<1> QED BY <1>6, Zenon DEF HighestNode

-----------------------------------------------------------------------------
(* Type correctness, with the shape of the job that it needs. *)

LEMMA TypeStep ==
    ASSUME TypeOK, JobShape, [Next]_vars
    PROVE  TypeOK'
<1> USE DEF TypeOK, store, web
<1>1. ASSUME NEW x \in Builds, NEW T \in TargetSets, NEW source \in T,
             BeginPublish(x, T, source)
      PROVE  TypeOK'
    <2> DEFINE base == Current(T, Channel[x])
               node == [build |-> x, att |-> att + 1, urls |-> T]
    <2>1. Channel[x] \in Channels /\ T \subseteq Backends
        BY BuildsAssumption, TargetsAssumption
    <2>2. base \in Indexes
        BY <2>1, CurrentType
    <2>3. att + 1 \in 1 .. MaxJobs /\ att + 1 \in 0 .. MaxJobs
        BY <1>1, ParametersAssumption DEF BeginPublish
    <2>4. node \in Nodes
        BY <2>1, <2>3 DEF Nodes
    <2>5. base.nodes \in SUBSET Nodes /\ base.seq \in Nat
        BY <2>2 DEF Indexes
    <2>6. /\ MergeNode(base.nodes, node) \in SUBSET Nodes
          /\ ApplyRetain(MergeNode(base.nodes, node)) \in SUBSET Nodes
        BY <2>4, <2>5, PlanType
    <2>7. [seq |-> base.seq + 1, nodes |-> ApplyRetain(MergeNode(base.nodes, node)),
           gen |-> att + 1] \in Indexes
        BY <2>3, <2>5, <2>6 DEF Indexes
    <2>8. job' \in Jobs
        BY <1>1, <2>1, <2>4, <2>6, <2>7, IdleType DEF BeginPublish, Jobs, Phases
    <2> QED BY <1>1, <2>3, <2>8 DEF BeginPublish
<1>2. ASSUME NEW v \in Versions, NEW T \in TargetSets, BeginUnpublish(v, T)
      PROVE  TypeOK'
    <2> DEFINE base == Current(T, DefaultChannel)
    <2>1. DefaultChannel \in Channels /\ T \subseteq Backends
        BY ParametersAssumption, TargetsAssumption
    <2>2. base \in Indexes
        BY <2>1, CurrentType
    <2>3. att + 1 \in 0 .. MaxJobs
        BY <1>2, ParametersAssumption DEF BeginUnpublish
    <2>4. [seq |-> base.seq + 1, nodes |-> {n \in base.nodes : Version[n.build] # v},
           gen |-> att + 1] \in Indexes
        BY <2>2, <2>3 DEF Indexes
    <2>5. job' \in Jobs
        BY <1>2, <2>1, <2>4, IdleType DEF BeginUnpublish, Jobs, Phases
    <2> QED BY <1>2, <2>3, <2>5 DEF BeginUnpublish
<1>3. ASSUME NEW b \in Backends, PutArtifact(b) \/ ArtifactFails(b)
      PROVE  TypeOK'
    <2>1. At("artifacts", b) /\ (job' = Visited(job, b) \/ job' = Abort(job))
        BY <1>3 DEF PutArtifact, ArtifactFails
    <2>2. job' \in Jobs
        <3>1. job \in Jobs
            OBVIOUS
        <3> QED BY <2>1, <3>1, VisitedType, AbortFrame
    <2>3. job.node \in Nodes /\ Blob[job.node.build] \in Blobs
        BY <2>1, BuildsAssumption DEF At, JobShape, WellFormed, Nodes
    <2>4. cas' \in {cas, StoredBlob(b)} /\ artifact' \in {artifact, StoredArtifact(b)}
        BY <1>3 DEF PutArtifact, ArtifactFails
    <2>5. StoredBlob(b) \in [Backends -> SUBSET Blobs]
        BY <2>3 DEF StoredBlob
    <2>6. StoredArtifact(b) \in [Backends -> [Versions -> Blobs \cup {None}]]
        BY <2>3 DEF StoredArtifact
    <2> QED BY <1>3, <2>2, <2>4, <2>5, <2>6 DEF PutArtifact, ArtifactFails
<1>4. ASSUME NEW b \in Backends, PutManifest(b) \/ ManifestFails(b)
      PROVE  TypeOK'
    <2>1. At("manifest", b) /\ (job' = Visited(job, b) \/ job' = Abort(job))
        BY <1>4 DEF PutManifest, ManifestFails
    <2>2. job' \in Jobs
        <3>1. job \in Jobs
            OBVIOUS
        <3> QED BY <2>1, <3>1, VisitedType, AbortFrame
    <2>3. job.node \in Nodes
        BY <2>1 DEF At, JobShape, WellFormed
    <2>4. manifest' \in {manifest, StoredManifest(b)}
        BY <1>4 DEF PutManifest, ManifestFails
    <2>5. StoredManifest(b) \in [Backends -> [Versions -> Nodes \cup {None}]]
        BY <2>3 DEF StoredManifest
    <2> QED BY <1>4, <2>2, <2>4, <2>5 DEF PutManifest, ManifestFails
<1>5. ASSUME NEW b \in Backends, PutIndex(b) \/ IndexFails(b)
      PROVE  TypeOK'
    <2>1. \E j \in Jobs : job' = Visited(j, b)
        <3>1. CASE PutIndex(b)
            <4>1. [job EXCEPT !.committed = @ \cup {b}] \in Jobs
                BY DEF Jobs
            <4> QED BY <3>1, <4>1 DEF PutIndex
        <3>2. CASE IndexFails(b)
            <4>1. [job EXCEPT !.failed = @ \/ job.kind = "publish",
                              !.warned = @ \/ job.kind = "unpublish"] \in Jobs
                BY DEF Jobs
            <4> QED BY <3>2, <4>1 DEF IndexFails
        <3> QED BY <1>5, <3>1, <3>2
    <2>2. job' \in Jobs
        BY <2>1, VisitedType
    <2>3. job.doc \in Indexes /\ job.doc.nodes \subseteq Nodes /\ job.ch \in Channels
        BY DEF Jobs, Indexes
    <2>4. /\ index' \in [Backends -> [Channels -> Indexes]]
          /\ listed' \in [Backends -> [Channels -> SUBSET Nodes]]
        <3>1. StoredIndex(b) \/ UNCHANGED <<index, listed>>
            BY <1>5 DEF PutIndex, IndexFails
        <3>2. [index EXCEPT ![b][job.ch] = job.doc] \in [Backends -> [Channels -> Indexes]]
            BY <2>3, UpdateEntry
        <3>3. [listed EXCEPT ![b][job.ch] = @ \cup job.doc.nodes]
                  \in [Backends -> [Channels -> SUBSET Nodes]]
            <4>1. listed[b][job.ch] \cup job.doc.nodes \in SUBSET Nodes
                BY <2>3
            <4> QED BY <2>3, <4>1, UpdateEntry
        <3> QED BY <3>1, <3>2, <3>3 DEF StoredIndex
    <2> QED BY <1>5, <2>2, <2>4 DEF PutIndex, IndexFails
<1>6. ASSUME NEW b \in Backends, DeleteRelease(b)
      PROVE  TypeOK'
    <2>1. PICK clean \in BOOLEAN :
              job' = Visited([job EXCEPT !.warned = @ \/ ~clean], b)
        BY <1>6 DEF DeleteRelease
    <2>2. [job EXCEPT !.warned = @ \/ ~clean] \in Jobs
        BY DEF Jobs
    <2>3. job' \in Jobs
        BY <2>1, <2>2, VisitedType
    <2>4. release' \in [Backends -> [Channels -> SUBSET Versions]]
        <3>1. job.ch \in Channels
            BY DEF Jobs
        <3>2. release[b][job.ch] \ {job.gone} \in SUBSET Versions
            BY <3>1
        <3>3. [release EXCEPT ![b][job.ch] = @ \ {job.gone}]
                  \in [Backends -> [Channels -> SUBSET Versions]]
            BY <3>1, <3>2, UpdateEntry
        <3> QED BY <1>6, <3>3 DEF DeleteRelease
    <2> QED BY <1>6, <2>3, <2>4 DEF DeleteRelease
<1>7. ASSUME NEW b \in Backends, WriteWeb(b)
      PROVE  TypeOK'
    <2>1. PICK clean \in BOOLEAN :
              job' = Visited([job EXCEPT !.warned = @ \/ ~clean], b)
        BY <1>7 DEF WriteWeb
    <2>2. [job EXCEPT !.warned = @ \/ ~clean] \in Jobs
        BY DEF Jobs
    <2>3. job' \in Jobs
        BY <2>1, <2>2, VisitedType
    <2>4. job.ch \in Channels /\ job.doc.nodes \in SUBSET Nodes
        BY DEF Jobs, Indexes
    <2>5. LatestNode \in Nodes
        BY <1>7, <2>4, HighestNodeExists
           DEF WriteWeb, At, LatestNode, JobShape, WellFormed, Jobs
    <2>6. latest' \in [Backends -> [Channels -> Nodes \cup {None}]]
        <3>1. [latest EXCEPT ![b][job.ch] = LatestNode]
                  \in [Backends -> [Channels -> Nodes \cup {None}]]
            BY <2>4, <2>5, UpdateEntry
        <3> QED BY <1>7, <3>1 DEF WriteWeb
    <2>7. channel' \in [Backends -> [Channels -> SUBSET Nodes]]
        <3>1. [channel EXCEPT ![b][job.ch] = job.doc.nodes]
                  \in [Backends -> [Channels -> SUBSET Nodes]]
            BY <2>4, UpdateEntry
        <3> QED BY <1>7, <3>1 DEF WriteWeb
    <2>8. release' \in [Backends -> [Channels -> SUBSET Versions]]
        <3>1. CASE job.kind = "publish"
            <4>1. Version[job.node.build] \in Versions
                BY <3>1, BuildsAssumption DEF JobShape, WellFormed, Nodes
            <4>2. release[b][job.ch] \cup {Version[job.node.build]} \in SUBSET Versions
                BY <2>4, <4>1
            <4>3. [release EXCEPT ![b][job.ch] = @ \cup {Version[job.node.build]}]
                      \in [Backends -> [Channels -> SUBSET Versions]]
                BY <2>4, <4>2, UpdateEntry
            <4> QED BY <1>7, <4>3 DEF WriteWeb
        <3>2. CASE job.kind # "publish"
            BY <1>7, <3>2 DEF WriteWeb, WebDocs
        <3> QED BY <3>1, <3>2
    <2> QED BY <1>7, <2>3, <2>6, <2>7, <2>8 DEF WriteWeb
<1>8. ASSUME NEW b \in Backends, SweepCAS(b)
      PROVE  TypeOK'
    <2>1. job' \in Jobs
        BY <1>8, VisitedType DEF SweepCAS
    <2>2. \E deleted : cas' = [cas EXCEPT ![b] = @ \ deleted]
        BY <1>8 DEF SweepCAS
    <2>3. cas' \in [Backends -> SUBSET Blobs]
        BY <2>2
    <2> QED BY <1>8, <2>1, <2>3 DEF SweepCAS
<1>9. ASSUME Reply \/ Crash
      PROVE  TypeOK'
    BY <1>9, IdleType DEF Reply, Crash
<1>10. ASSUME NEW b \in Backends, NEW x \in Builds, UploadBlob(b, x)
       PROVE  TypeOK'
    BY <1>10, BuildsAssumption DEF UploadBlob
<1>11. ASSUME NEW b \in GCBackends, GCScan(b)
       PROVE  TypeOK'
    <2>1. PICK m : gc' = [gc EXCEPT ![b] = m] /\ m \in GCMarks
        <3> DEFINE nodes == UNION {index[b][ch].nodes : ch \in Channels}
                   linked == {latest[b][ch] : ch \in Channels} \ {None}
                   versions == VersionsOf(nodes)
        <3>1. b \in Backends
            BY ParametersAssumption
        <3>2. nodes \subseteq Nodes /\ linked \subseteq Nodes
            BY <3>1 DEF Indexes
        <3>3. versions \subseteq Versions /\ VersionsOf(linked) \subseteq Versions
            BY <3>2, BuildsAssumption DEF VersionsOf, Nodes
        <3>4. NamedBlobs(b, versions) \subseteq Blobs
            <4>1. ASSUME NEW v \in versions, manifest[b][v] # None
                  PROVE  Blob[manifest[b][v].build] \in Blobs
                <5>1. manifest[b] \in [Versions -> Nodes \cup {None}]
                    BY <3>1
                <5>2. v \in Versions
                    BY <3>3
                <5>3. manifest[b][v] \in Nodes
                    BY <4>1, <5>1, <5>2
                <5> QED BY <5>3, BuildsAssumption DEF Nodes
            <4> QED BY <4>1 DEF NamedBlobs
        <3>5. [manifests |-> versions, artifacts |-> versions \cup VersionsOf(linked),
               blobs |-> NamedBlobs(b, versions), seen |-> nodes, linked |-> linked]
                  \in GCMarks
            BY <3>2, <3>3, <3>4 DEF GCMarks
        <3> QED BY <1>11, <3>5 DEF GCScan
    <2> QED BY <1>11, <2>1, ZenonT(60) DEF GCScan
<1>12. ASSUME NEW b \in GCBackends, GCSweep(b)
       PROVE  TypeOK'
    <2>0. b \in Backends
        BY ParametersAssumption
    <2>1. manifest' \in [Backends -> [Versions -> Nodes \cup {None}]]
        <3>1. [v \in Versions |-> IF v \in gc[b].manifests THEN manifest[b][v] ELSE None]
                  \in [Versions -> Nodes \cup {None}]
            BY <2>0
        <3> QED BY <1>12, <2>0, <3>1 DEF GCSweep
    <2>2. artifact' \in [Backends -> [Versions -> Blobs \cup {None}]]
        <3>1. [v \in Versions |-> IF v \in gc[b].artifacts THEN artifact[b][v] ELSE None]
                  \in [Versions -> Blobs \cup {None}]
            BY <2>0
        <3> QED BY <1>12, <2>0, <3>1 DEF GCSweep
    <2>3. cas' \in [Backends -> SUBSET Blobs]
        BY <1>12 DEF GCSweep
    <2> QED BY <1>12, <2>1, <2>2, <2>3 DEF GCSweep
<1>13. CASE UNCHANGED vars
    BY <1>13 DEF vars
<1> QED BY <1>1, <1>2, <1>3, <1>4, <1>5, <1>6, <1>7, <1>8, <1>9, <1>10,
           <1>11, <1>12, <1>13 DEF Next, JobStep

-----------------------------------------------------------------------------
(* The shape of a job. *)

(* Where a visit leads: to the next backend of the phase or, past the last
   one, to a phase that follows. *)
LEMMA VisitedPhase ==
    ASSUME NEW j \in Jobs, NEW b, WellFormed(j), j.phase \notin {"idle", "done"}
    PROVE  LET k == Visited(j, b)
           IN  \/ k.phase = j.phase /\ k.todo = j.todo \ {b}
               \/ /\ j.todo \ {b} = {}
                  /\ \/ j.phase = "artifacts" /\ k.phase = "manifest" /\ k.todo = j.targets
                     \/ j.phase = "manifest" /\ k.phase = "index" /\ k.todo = j.targets
                     \/ j.phase = "index" /\ k.phase = "web" /\ k.todo = j.committed
                     \/ /\ j.phase = "index" /\ k.phase = "release" /\ k.todo = j.committed
                        /\ j.kind = "unpublish"
                     \/ j.phase = "release" /\ k.phase = "web" /\ k.todo = j.committed
                     \/ /\ j.phase = "web" /\ k.phase = "sweep" /\ k.todo = j.committed
                        /\ j.kind = "publish"
                     \/ k.phase = "done" /\ k.todo = {}
<1> DEFINE k == Visited(j, b)
<1>1. CASE j.todo \ {b} # {}
    BY <1>1, VisitedFrame
<1>2. CASE j.todo \ {b} = {}
    <2> DEFINE i == [j EXCEPT !.todo = {}]
    <2>1. /\ k.phase = NextPhase(i)
          /\ k.todo = CASE k.phase \in {"manifest", "index"} -> j.targets
                        [] k.phase \in {"release", "web", "sweep"} -> j.committed
                        [] OTHER -> {}
        BY <1>2, VisitedFrame
    <2>2. /\ i.phase = j.phase /\ i.kind = j.kind /\ i.committed = j.committed
          /\ i.failed = j.failed /\ i.pruned = j.pruned
        BY DEF Jobs
    <2>3. /\ j.phase = "artifacts" => k.phase = "manifest"
          /\ j.phase = "manifest" => k.phase = "index"
          /\ j.phase = "index" => \/ k.phase = "done"
                                  \/ k.phase = "web"
                                  \/ k.phase = "release" /\ j.kind # "publish"
          /\ j.phase = "release" => k.phase = "web"
          /\ j.phase = "web" => k.phase = "done" \/ (k.phase = "sweep" /\ j.kind = "publish")
          /\ j.phase = "sweep" => k.phase = "done"
        BY <2>1, <2>2 DEF NextPhase
    <2>4. j.phase \in {"artifacts", "manifest", "index", "release", "web", "sweep"}
        BY DEF Jobs, Phases
    <2>5. j.kind # "publish" => j.kind = "unpublish"
        BY DEF WellFormed, Jobs
    <2> QED BY <1>2, <2>1, <2>3, <2>4, <2>5
<1> QED BY <1>1, <1>2

(* The loop over backends keeps the record of a job fitting its kind and phase. *)
LEMMA VisitedWellFormed ==
    ASSUME NEW j \in Jobs, NEW b, WellFormed(j), j.phase \notin {"idle", "done"}
    PROVE  /\ WellFormed(Visited(j, b))
           /\ Visited(j, b).phase # "idle"
<1> DEFINE k == Visited(j, b)
<1>1. /\ k.kind = j.kind /\ k.node = j.node /\ k.gone = j.gone /\ k.ch = j.ch
      /\ k.targets = j.targets /\ k.source = j.source
      /\ k.committed = j.committed /\ k.doc = j.doc
    BY VisitedFrame, ZenonT(60)
<1>2. j.kind # "none"
    BY DEF WellFormed
<1> QED BY <1>1, <1>2, VisitedPhase DEF WellFormed

(* Every step of a job is a visit of one backend, after the job has noted how
   the visit went, or the end of the job. *)
LEMMA JobStepVisits ==
    ASSUME TypeOK, JobShape, NEW b \in Backends, JobStep(b)
    PROVE  /\ job.phase \notin {"idle", "done"}
           /\ b \in job.todo /\ b \in job.targets
           /\ \/ job' = Abort(job)
              \/ \E j \in Jobs :
                    /\ job' = Visited(j, b) /\ WellFormed(j)
                    /\ j.kind = job.kind /\ j.phase = job.phase /\ j.node = job.node
                    /\ j.ch = job.ch /\ j.targets = job.targets /\ j.doc = job.doc
                    /\ j.todo = job.todo
                    /\ \/ j.committed = job.committed
                       \/ PutIndex(b) /\ j.committed = job.committed \cup {b}
<1>0. job \in Jobs /\ WellFormed(job)
    BY DEF TypeOK, JobShape
<1>1. job.phase \notin {"idle", "done"} /\ b \in job.todo /\ b \in job.targets
    BY <1>0 DEF JobStep, PutArtifact, ArtifactFails, PutManifest, ManifestFails,
                PutIndex, IndexFails, DeleteRelease, WriteWeb, SweepCAS, At, WellFormed
<1>2. CASE job' = Abort(job)
    BY <1>1, <1>2
<1>3. CASE job' = Visited(job, b)
    BY <1>0, <1>1, <1>3
<1>4. CASE PutIndex(b)
    <2> DEFINE j == [job EXCEPT !.committed = @ \cup {b}]
    <2>1. /\ j \in Jobs /\ WellFormed(j)
          /\ j.kind = job.kind /\ j.phase = job.phase /\ j.node = job.node
          /\ j.ch = job.ch /\ j.targets = job.targets /\ j.doc = job.doc
          /\ j.todo = job.todo /\ j.committed = job.committed \cup {b}
        BY <1>0, <1>1, <1>4 DEF WellFormed, Jobs, PutIndex, At
    <2>2. job' = Visited(j, b)
        BY <1>4 DEF PutIndex
    <2> QED BY <1>1, <1>4, <2>1, <2>2
<1>5. CASE IndexFails(b)
    <2> DEFINE j == [job EXCEPT !.failed = @ \/ job.kind = "publish",
                                !.warned = @ \/ job.kind = "unpublish"]
    <2>1. /\ j \in Jobs /\ WellFormed(j)
          /\ j.kind = job.kind /\ j.phase = job.phase /\ j.node = job.node
          /\ j.ch = job.ch /\ j.targets = job.targets /\ j.doc = job.doc
          /\ j.todo = job.todo /\ j.committed = job.committed
        BY <1>0, ZenonT(60) DEF WellFormed, Jobs
    <2>2. job' = Visited(j, b)
        BY <1>5 DEF IndexFails
    <2> QED BY <1>1, <2>1, <2>2
<1>6. CASE DeleteRelease(b) \/ WriteWeb(b)
    <2>1. PICK clean \in BOOLEAN :
              job' = Visited([job EXCEPT !.warned = @ \/ ~clean], b)
        BY <1>6 DEF DeleteRelease, WriteWeb
    <2> DEFINE j == [job EXCEPT !.warned = @ \/ ~clean]
    <2>2. /\ j \in Jobs /\ WellFormed(j)
          /\ j.kind = job.kind /\ j.phase = job.phase /\ j.node = job.node
          /\ j.ch = job.ch /\ j.targets = job.targets /\ j.doc = job.doc
          /\ j.todo = job.todo /\ j.committed = job.committed
        BY <1>0 DEF WellFormed, Jobs
    <2> QED BY <1>1, <2>1, <2>2
<1> QED BY <1>2, <1>3, <1>4, <1>5, <1>6
        DEF JobStep, PutArtifact, ArtifactFails, PutManifest, ManifestFails, SweepCAS

(* Every step keeps the record of the job fitting its kind and phase. *)
LEMMA ShapeStep ==
    ASSUME TypeOK, JobShape, [Next]_vars
    PROVE  JobShape'
<1>0. job \in Jobs /\ WellFormed(job)
    BY DEF TypeOK, JobShape
<1>1. ASSUME NEW x \in Builds, NEW T \in TargetSets, NEW source \in T,
             BeginPublish(x, T, source)
      PROVE  WellFormed(job')
    <2> DEFINE node == [build |-> x, att |-> att + 1, urls |-> T]
    <2>1. node \in Nodes
        BY <1>1, TargetsAssumption, ParametersAssumption DEF BeginPublish, Nodes, TypeOK
    <2>2. /\ job'.kind = "publish" /\ job'.phase = "artifacts" /\ job'.node = node
          /\ job'.ch = Channel[x] /\ job'.targets = T /\ job'.source = source
          /\ job'.todo = T /\ job'.committed = {}
        BY <1>1 DEF BeginPublish, Idle
    <2> QED BY <2>1, <2>2 DEF WellFormed
<1>2. ASSUME NEW v \in Versions, NEW T \in TargetSets, BeginUnpublish(v, T)
      PROVE  WellFormed(job')
    <2> DEFINE kept == {n \in Current(T, DefaultChannel).nodes : Version[n.build] # v}
    <2>1. kept # {}
        BY <1>2 DEF BeginUnpublish, UnpublishAdmitted, Removable
    <2>2. /\ job'.kind = "unpublish" /\ job'.phase = "index" /\ job'.gone = v
          /\ job'.targets = T /\ job'.todo = T /\ job'.committed = {}
          /\ job'.doc.nodes = kept
        BY <1>2 DEF BeginUnpublish, Idle
    <2> QED BY <2>1, <2>2 DEF WellFormed
<1>3. ASSUME NEW b \in Backends, JobStep(b)
      PROVE  WellFormed(job')
    <2>1. CASE job' = Abort(job)
        BY <1>0, <1>3, <2>1, JobStepVisits DEF Abort, WellFormed, Jobs
    <2>2. ASSUME NEW j \in Jobs, job' = Visited(j, b), WellFormed(j), j.phase = job.phase
          PROVE  WellFormed(job')
        BY <1>3, <2>2, JobStepVisits, VisitedWellFormed
    <2> QED BY <1>3, <2>1, <2>2, JobStepVisits
<1>4. ASSUME Reply \/ Crash
      PROVE  WellFormed(job')
    BY <1>4 DEF Reply, Crash, Idle, WellFormed
<1>5. ASSUME UNCHANGED job
      PROVE  WellFormed(job')
    BY <1>0, <1>5
<1>6. ASSUME NEW b \in Backends, NEW x \in Builds, UploadBlob(b, x)
      PROVE  UNCHANGED job
    BY <1>6 DEF UploadBlob
<1>7. ASSUME NEW b \in GCBackends, GCScan(b) \/ GCSweep(b)
      PROVE  UNCHANGED job
    BY <1>7 DEF GCScan, GCSweep
<1> QED BY <1>1, <1>2, <1>3, <1>4, <1>5, <1>6, <1>7 DEF Next, JobShape, vars

(* Every variable keeps its type, and the record of the job fits its kind and
   phase. *)
THEOREM TypeCorrect == Spec => [](TypeOK /\ JobShape)
<1>1. Init => TypeOK /\ JobShape
    BY IdleType, ParametersAssumption
       DEF Init, TypeOK, NoIndex, Indexes, JobShape, WellFormed, Idle
<1>2. TypeOK /\ JobShape /\ [Next]_vars => TypeOK' /\ JobShape'
    BY TypeStep, ShapeStep
<1> QED BY <1>1, <1>2, PTL DEF Spec

-----------------------------------------------------------------------------
(* What a step changes.  The invariants below are proved from these effects,
   not from the actions. *)

(* A job keeps its plan; it goes on to the next backend or to a later phase. *)
LEMMA JobEffect ==
    ASSUME TypeOK, JobShape, NEW b \in Backends, JobStep(b)
    PROVE  /\ b \in job.todo /\ b \in job.targets
           /\ job'.kind = job.kind /\ job'.node = job.node /\ job'.ch = job.ch
           /\ job'.targets = job.targets /\ job'.doc = job.doc
           /\ \/ job'.committed = job.committed
              \/ PutIndex(b) /\ job'.committed = job.committed \cup {b}
           /\ \/ job'.phase = job.phase /\ job'.todo = job.todo \ {b}
              \/ /\ job.todo \ {b} = {} /\ job'.todo = job.targets
                 /\ \/ job.phase = "artifacts" /\ job'.phase = "manifest"
                    \/ job.phase = "manifest" /\ job'.phase = "index"
              \/ job'.phase \in {"release", "web", "sweep", "done"}
<1>0. job \in Jobs
    BY DEF TypeOK
<1>1. CASE job' = Abort(job)
    BY <1>0, <1>1, JobStepVisits DEF Abort, Jobs
<1>2. ASSUME NEW j \in Jobs, job' = Visited(j, b), WellFormed(j),
             j.kind = job.kind, j.phase = job.phase, j.node = job.node,
             j.ch = job.ch, j.targets = job.targets, j.doc = job.doc, j.todo = job.todo
      PROVE  /\ job'.kind = job.kind /\ job'.node = job.node /\ job'.ch = job.ch
             /\ job'.targets = job.targets /\ job'.doc = job.doc
             /\ job'.committed = j.committed
             /\ \/ job'.phase = job.phase /\ job'.todo = job.todo \ {b}
                \/ /\ job.todo \ {b} = {} /\ job'.todo = job.targets
                   /\ \/ job.phase = "artifacts" /\ job'.phase = "manifest"
                      \/ job.phase = "manifest" /\ job'.phase = "index"
                \/ job'.phase \in {"release", "web", "sweep", "done"}
    <2>1. /\ job'.kind = j.kind /\ job'.node = j.node /\ job'.ch = j.ch
          /\ job'.targets = j.targets /\ job'.doc = j.doc /\ job'.committed = j.committed
        <3> DEFINE k == Visited(j, b)
        <3>1. /\ k.kind = j.kind /\ k.node = j.node /\ k.ch = j.ch
              /\ k.targets = j.targets /\ k.doc = j.doc /\ k.committed = j.committed
            BY VisitedFrame, ZenonT(60)
        <3> QED BY <1>2, <3>1
    <2>2. j.phase \notin {"idle", "done"}
        BY <1>2, JobStepVisits
    <2> DEFINE k == Visited(j, b)
    <2>3. \/ k.phase = j.phase /\ k.todo = j.todo \ {b}
          \/ /\ j.todo \ {b} = {} /\ k.todo = j.targets
             /\ \/ j.phase = "artifacts" /\ k.phase = "manifest"
                \/ j.phase = "manifest" /\ k.phase = "index"
          \/ k.phase \in {"release", "web", "sweep", "done"}
        BY <1>2, <2>2, VisitedPhase
    <2> QED BY <1>2, <2>1, <2>3
<1> QED BY <1>1, <1>2, JobStepVisits

(* A pointer still to be written was still to be written before, and one that
   was tried in the step is not left over. *)
LEMMA UnwrittenShrinks ==
    ASSUME TypeOK, JobShape, NEW b \in Backends, JobStep(b)
    PROVE  /\ Unwritten(job') \subseteq Unwritten(job)
           /\ job.phase = "index" => b \in Unwritten(job) /\ b \notin Unwritten(job')
<1>1. CASE job'.phase = job.phase /\ job'.todo = job.todo \ {b}
    BY <1>1, JobEffect DEF Unwritten
<1>2. CASE /\ job.todo \ {b} = {} /\ job'.todo = job.targets
           /\ \/ job.phase = "artifacts" /\ job'.phase = "manifest"
              \/ job.phase = "manifest" /\ job'.phase = "index"
    BY <1>2, JobEffect DEF Unwritten
<1>3. CASE job'.phase \in {"release", "web", "sweep", "done"}
    BY <1>3, JobEffect DEF Unwritten
<1> QED BY <1>1, <1>2, <1>3, JobEffect

(* The steps that are no visit: they start a job, drop it, or leave it, the
   indexes and the web documents as they are. *)
LEMMA OtherSteps ==
    ASSUME [Next]_vars
    PROVE  \/ \E x \in Builds, T \in TargetSets : \E source \in T : BeginPublish(x, T, source)
           \/ \E v \in Versions, T \in TargetSets : BeginUnpublish(v, T)
           \/ \E b \in Backends : JobStep(b)
           \/ job' = Idle /\ UNCHANGED <<store, web, listed>>
           \/ UNCHANGED <<job, index, web, listed>>
<1>1. ASSUME Reply \/ Crash
      PROVE  job' = Idle /\ UNCHANGED <<store, web, listed>>
    BY <1>1 DEF Reply, Crash
<1>2. ASSUME NEW b \in Backends, NEW x \in Builds, UploadBlob(b, x)
      PROVE  UNCHANGED <<job, index, web, listed>>
    BY <1>2 DEF UploadBlob, web
<1>3. ASSUME NEW b \in GCBackends, GCScan(b) \/ GCSweep(b)
      PROVE  UNCHANGED <<job, index, web, listed>>
    BY <1>3 DEF GCScan, GCSweep, store, web
<1>4. CASE UNCHANGED vars
    BY <1>4 DEF vars, web
<1> QED BY <1>1, <1>2, <1>3, <1>4 DEF Next

(* Only the pointer of a target that was still to be written changes. *)
LEMMA IndexFrame ==
    ASSUME TypeOK, JobShape, [Next]_vars, NEW c \in Backends, NEW ch \in Channels
    PROVE  \/ index'[c][ch] = index[c][ch] /\ listed'[c][ch] = listed[c][ch]
           \/ /\ JobStep(c) /\ job.phase = "index"
              /\ c \in Unwritten(job) /\ c \notin Unwritten(job')
              /\ ch = job.ch /\ index'[c][ch] = job.doc
              /\ listed'[c][ch] = listed[c][ch] \cup job.doc.nodes
<1>1. ASSUME NEW b \in Backends, JobStep(b)
      PROVE  \/ UNCHANGED <<index, listed>>
             \/ StoredIndex(b) /\ job.phase = "index"
    BY <1>1 DEF JobStep, PutArtifact, ArtifactFails, PutManifest, ManifestFails, PutIndex,
                IndexFails, DeleteRelease, WriteWeb, SweepCAS, At, store, web
<1>2. ASSUME NEW b \in Backends, JobStep(b), StoredIndex(b), job.phase = "index"
      PROVE  \/ index'[c][ch] = index[c][ch] /\ listed'[c][ch] = listed[c][ch]
             \/ /\ c = b /\ ch = job.ch /\ index'[c][ch] = job.doc
                /\ listed'[c][ch] = listed[c][ch] \cup job.doc.nodes
    <2>1. job.ch \in Channels /\ job.doc \in Indexes /\ job.doc.nodes \in SUBSET Nodes
        BY DEF TypeOK, Jobs, Indexes
    <2>2. listed[b][job.ch] \cup job.doc.nodes \in SUBSET Nodes
        BY <2>1 DEF TypeOK
    <2>3. /\ index' = [index EXCEPT ![b][job.ch] = job.doc]
          /\ listed' = [listed EXCEPT ![b][job.ch] = listed[b][job.ch] \cup job.doc.nodes]
        BY <1>2 DEF StoredIndex
    <2>4. /\ index'[b][job.ch] = job.doc
          /\ \A x \in Backends, y \in Channels :
                x # b \/ y # job.ch => index'[x][y] = index[x][y]
        BY <2>1, <2>3, UpdateEntry DEF TypeOK
    <2>5. /\ listed'[b][job.ch] = listed[b][job.ch] \cup job.doc.nodes
          /\ \A x \in Backends, y \in Channels :
                x # b \/ y # job.ch => listed'[x][y] = listed[x][y]
        BY <2>1, <2>2, <2>3, UpdateEntry DEF TypeOK
    <2> QED BY <2>4, <2>5
<1>3. CASE \E b \in Backends : JobStep(b)
    BY <1>1, <1>2, <1>3, UnwrittenShrinks
<1>4. CASE UNCHANGED <<index, listed>>
    BY <1>4
<1>5. ASSUME NEW x \in Builds, NEW T \in TargetSets, NEW source \in T, BeginPublish(x, T, source)
      PROVE  UNCHANGED <<index, listed>>
    BY <1>5 DEF BeginPublish, store
<1>6. ASSUME NEW v \in Versions, NEW T \in TargetSets, BeginUnpublish(v, T)
      PROVE  UNCHANGED <<index, listed>>
    BY <1>6 DEF BeginUnpublish, store
<1> QED BY <1>3, <1>4, <1>5, <1>6, OtherSteps DEF store

-----------------------------------------------------------------------------
(* The plan of a job and the sequence numbers. *)

(* What a fresh plan holds. *)
LEMMA PublishPlan ==
    ASSUME TypeOK, NEW x \in Builds, NEW T \in TargetSets, NEW source \in T,
           BeginPublish(x, T, source)
    PROVE  LET node == [build |-> x, att |-> att + 1, urls |-> T]
               base == Current(T, Channel[x])
           IN  /\ job'.kind = "publish" /\ job'.phase = "artifacts" /\ job'.node = node
               /\ job'.ch = Channel[x] /\ Channel[x] \in Channels
               /\ job'.targets = T /\ job'.todo = T /\ job'.committed = {}
               /\ T \subseteq Backends /\ node \in Nodes /\ base \in Indexes
               /\ job'.doc.seq = base.seq + 1
               /\ job'.doc.nodes = ApplyRetain(MergeNode(base.nodes, node))
               /\ \A b \in T : index[b][Channel[x]] = base
               /\ UNCHANGED <<store, web, listed>>
<1> DEFINE node == [build |-> x, att |-> att + 1, urls |-> T]
           base == Current(T, Channel[x])
<1>1. Channel[x] \in Channels /\ T \subseteq Backends
    BY BuildsAssumption, TargetsAssumption
<1>2. base \in Indexes /\ \A b \in T : index[b][Channel[x]] = base
    BY <1>1, CurrentType DEF BeginPublish, TypeOK
<1>3. node \in Nodes
    BY <1>1, ParametersAssumption DEF BeginPublish, Nodes, TypeOK
<1>4. /\ job'.kind = "publish" /\ job'.phase = "artifacts" /\ job'.node = node
      /\ job'.ch = Channel[x] /\ job'.targets = T /\ job'.todo = T /\ job'.committed = {}
      /\ job'.doc.seq = base.seq + 1
      /\ job'.doc.nodes = ApplyRetain(MergeNode(base.nodes, node))
    BY DEF BeginPublish, Idle
<1>5. UNCHANGED <<store, web, listed>>
    BY DEF BeginPublish
<1> QED BY <1>1, <1>2, <1>3, <1>4, <1>5

(* What BeginUnpublish plans: the index without the version, one sequence on. *)
LEMMA UnpublishPlan ==
    ASSUME TypeOK, NEW v \in Versions, NEW T \in TargetSets, BeginUnpublish(v, T)
    PROVE  LET base == Current(T, DefaultChannel)
           IN  /\ job'.kind = "unpublish" /\ job'.phase = "index"
               /\ job'.ch = DefaultChannel /\ job'.targets = T /\ job'.todo = T
               /\ job'.committed = {} /\ T \subseteq Backends
               /\ job'.doc.seq = base.seq + 1
               /\ job'.doc.nodes \subseteq base.nodes
               /\ \A b \in T : index[b][DefaultChannel] = base
               /\ UNCHANGED <<store, web, listed>>
<1> DEFINE base == Current(T, DefaultChannel)
<1>1. DefaultChannel \in Channels /\ T \subseteq Backends
    BY ParametersAssumption, TargetsAssumption
<1>2. \A b \in T : index[b][DefaultChannel] = base
    BY <1>1, CurrentType DEF BeginUnpublish, UnpublishAdmitted, TypeOK
<1>3. /\ job'.kind = "unpublish" /\ job'.phase = "index" /\ job'.ch = DefaultChannel
      /\ job'.targets = T /\ job'.todo = T /\ job'.committed = {}
      /\ job'.doc.seq = base.seq + 1
      /\ job'.doc.nodes = {n \in base.nodes : Version[n.build] # v}
    BY DEF BeginUnpublish, Idle
<1>4. UNCHANGED <<store, web, listed>>
    BY DEF BeginUnpublish
<1> QED BY <1>1, <1>2, <1>3, <1>4

(* Every step keeps the plan a continuation of what the unwritten targets serve. *)
LEMMA PlanStep ==
    ASSUME TypeOK, JobShape, PlanIsCurrent, [Next]_vars
    PROVE  PlanIsCurrent'
<1>1. ASSUME NEW x \in Builds, NEW T \in TargetSets, NEW source \in T, BeginPublish(x, T, source)
      PROVE  PlanIsCurrent'
    <2> DEFINE node == [build |-> x, att |-> att + 1, urls |-> T]
               base == Current(T, Channel[x])
    <2>1. /\ job'.kind = "publish" /\ job'.node = node /\ job'.ch = Channel[x]
          /\ job'.doc.seq = base.seq + 1 /\ index' = index
          /\ job'.doc.nodes = ApplyRetain(MergeNode(base.nodes, node))
          /\ \A b \in T : index[b][Channel[x]] = base
          /\ Unwritten(job') = T
        BY <1>1, PublishPlan DEF store, Unwritten
    <2>2. job'.doc.nodes \subseteq base.nodes \cup {node}
        BY <2>1 DEF ApplyRetain, MergeNode
    <2> QED BY <2>1, <2>2 DEF PlanIsCurrent
<1>2. ASSUME NEW v \in Versions, NEW T \in TargetSets, BeginUnpublish(v, T)
      PROVE  PlanIsCurrent'
    <2>1. Unwritten(job') = T /\ index' = index
        BY <1>2, UnpublishPlan DEF Unwritten, store
    <2> QED BY <1>2, <2>1, UnpublishPlan DEF PlanIsCurrent
<1>3. ASSUME NEW b \in Backends, JobStep(b)
      PROVE  PlanIsCurrent'
    <2>1. /\ job'.kind = job.kind /\ job'.node = job.node /\ job'.ch = job.ch
          /\ job'.doc = job.doc
        BY <1>3, JobEffect
    <2>2. ASSUME NEW c \in Unwritten(job')
          PROVE  c \in Unwritten(job) /\ index'[c][job.ch] = index[c][job.ch]
        <3>1. c \in Unwritten(job)
            BY <1>3, <2>2, UnwrittenShrinks
        <3>2. c \in Backends /\ job.ch \in Channels
            BY <3>1 DEF Unwritten, TypeOK, Jobs
        <3> QED BY <2>2, <3>1, <3>2, IndexFrame
    <2> QED BY <2>1, <2>2 DEF PlanIsCurrent
<1>4. ASSUME job' = Idle
      PROVE  PlanIsCurrent'
    BY <1>4 DEF PlanIsCurrent, Unwritten, Idle
<1>5. ASSUME UNCHANGED <<job, index>>
      PROVE  PlanIsCurrent'
    BY <1>5 DEF PlanIsCurrent, Unwritten
<1> QED BY <1>1, <1>2, <1>3, <1>4, <1>5, OtherSteps

(* The plan continues what every target still to be written serves. *)
LEMMA PlanInvariant == Spec => [](TypeOK /\ JobShape /\ PlanIsCurrent)
<1>1. Init => PlanIsCurrent
    BY DEF Init, PlanIsCurrent, Unwritten, Idle
<1>2. TypeOK /\ JobShape /\ PlanIsCurrent /\ [Next]_vars => PlanIsCurrent'
    BY PlanStep
<1> QED BY <1>1, <1>2, TypeCorrect, PTL DEF Spec

(* A backend never replaces its index without raising the sequence, so a
   client that keeps the highest sequence it saw accepts every replacement:
   whatever targets the requests name, whatever fails, wherever the agent dies. *)
THEOREM SequencesGrow == Spec => SequenceGrows
<1>1. TypeOK /\ JobShape /\ PlanIsCurrent /\ [Next]_vars
        => [\A b \in Backends, ch \in Channels :
               index'[b][ch] # index[b][ch] => index'[b][ch].seq > index[b][ch].seq]_vars
    <2> SUFFICES ASSUME TypeOK, JobShape, PlanIsCurrent, [Next]_vars,
                        NEW b \in Backends, NEW ch \in Channels,
                        index'[b][ch] # index[b][ch]
                 PROVE  index'[b][ch].seq > index[b][ch].seq
        OBVIOUS
    <2>1. b \in Unwritten(job) /\ ch = job.ch /\ index'[b][ch] = job.doc
        BY IndexFrame
    <2>2. job.doc.seq = index[b][ch].seq + 1
        BY <2>1 DEF PlanIsCurrent
    <2>3. index[b][ch].seq \in Nat
        BY DEF TypeOK, Indexes
    <2> QED BY <2>1, <2>2, <2>3
<1> QED BY <1>1, PlanInvariant, PTL DEF Spec, SequenceGrows

-----------------------------------------------------------------------------
(* Listed releases are served.  Requests do not backfill, and no two builds
   share a version: a rebuilt version overwrites the manifest of the listed
   release, and so does a backfilled one. *)

UniqueVersions == \A x, y \in Builds : Version[x] = Version[y] => x = y

Settled == Backends \ GCBackends

(* What the argument carries along a behaviour. *)
ServedInv ==
    /\ PlanIsCurrent
    /\ VersionIsNew
    /\ ChannelsAreSeparate
    /\ \A b \in Settled : UploadsAreKept(b) /\ ListedIsServedBy(b)

(* On a backend without a collector a step changes at most the manifest and
   the artifact of the version it publishes. *)
LEMMA StoreFrame ==
    ASSUME TypeOK, JobShape, [Next]_vars, NEW b \in Settled, NEW v \in Versions
    PROVE  /\ \/ artifact'[b][v] = artifact[b][v]
              \/ /\ JobStep(b) /\ job.phase = "artifacts" /\ b \in job.todo
                 /\ v = Version[job.node.build]
           /\ \/ manifest'[b][v] = manifest[b][v]
              \/ /\ JobStep(b) /\ job.phase = "manifest" /\ b \in job.todo
                 /\ v = Version[job.node.build]
<1>1. ASSUME NEW c \in Backends, PutArtifact(c) \/ ArtifactFails(c)
      PROVE  /\ manifest' = manifest
             /\ \/ artifact'[b][v] = artifact[b][v]
                \/ b = c /\ v = Version[job.node.build]
    <2>1. job.node \in Nodes /\ Version[job.node.build] \in Versions
        BY <1>1, BuildsAssumption
           DEF PutArtifact, ArtifactFails, At, JobShape, WellFormed, Nodes
    <2>2. artifact' = artifact \/ artifact' = StoredArtifact(c)
        BY <1>1 DEF PutArtifact, ArtifactFails
    <2>3. Blob[job.node.build] \in Blobs
        BY <2>1, BuildsAssumption DEF Nodes
    <2>4. \A x \in Backends, y \in Versions :
              x # c \/ y # Version[job.node.build] => StoredArtifact(c)[x][y] = artifact[x][y]
        BY <2>1, <2>3, UpdateEntry DEF StoredArtifact, TypeOK
    <2> QED BY <1>1, <2>2, <2>4 DEF PutArtifact, ArtifactFails, Settled
<1>2. ASSUME NEW c \in Backends, PutManifest(c) \/ ManifestFails(c)
      PROVE  /\ artifact' = artifact
             /\ \/ manifest'[b][v] = manifest[b][v]
                \/ b = c /\ v = Version[job.node.build]
    <2>1. job.node \in Nodes /\ Version[job.node.build] \in Versions
        BY <1>2, BuildsAssumption
           DEF PutManifest, ManifestFails, At, JobShape, WellFormed, Nodes
    <2>2. manifest' = manifest \/ manifest' = StoredManifest(c)
        BY <1>2 DEF PutManifest, ManifestFails
    <2>3. \A x \in Backends, y \in Versions :
              x # c \/ y # Version[job.node.build] => StoredManifest(c)[x][y] = manifest[x][y]
        BY <2>1, UpdateEntry DEF StoredManifest, TypeOK
    <2> QED BY <1>2, <2>2, <2>3 DEF PutManifest, ManifestFails, Settled
<1>3. ASSUME NEW c \in Backends, JobStep(c)
      PROVE  \/ UNCHANGED <<manifest, artifact>>
             \/ (PutArtifact(c) \/ ArtifactFails(c)) /\ At("artifacts", c)
             \/ (PutManifest(c) \/ ManifestFails(c)) /\ At("manifest", c)
    BY <1>3 DEF JobStep, PutArtifact, ArtifactFails, PutManifest, ManifestFails, PutIndex,
                IndexFails, DeleteRelease, WriteWeb, SweepCAS, store
<1>4. ASSUME NEW c \in GCBackends, GCScan(c) \/ GCSweep(c)
      PROVE  artifact'[b][v] = artifact[b][v] /\ manifest'[b][v] = manifest[b][v]
    BY <1>4 DEF GCScan, GCSweep, store, Settled, TypeOK
<1>5. ASSUME \/ \E x \in Builds, T \in TargetSets : \E source \in T : BeginPublish(x, T, source)
             \/ \E u \in Versions, T \in TargetSets : BeginUnpublish(u, T)
             \/ Reply \/ Crash
             \/ \E c \in Backends, x \in Builds : UploadBlob(c, x)
             \/ UNCHANGED vars
      PROVE  UNCHANGED <<manifest, artifact>>
    BY <1>5 DEF BeginPublish, BeginUnpublish, Reply, Crash, UploadBlob, store, vars
<1>6. CASE \E c \in Backends : JobStep(c)
    BY <1>1, <1>2, <1>3, <1>6 DEF At
<1> QED BY <1>4, <1>5, <1>6 DEF Next

(* The release of a job is a build with its version and its content. *)
LEMMA PublishedBuild ==
    ASSUME TypeOK, JobShape, job.kind = "publish"
    PROVE  /\ job.node \in Nodes /\ job.node.build \in Builds
           /\ Version[job.node.build] \in Versions
           /\ Channel[job.node.build] = job.ch
BY BuildsAssumption DEF JobShape, WellFormed, Nodes

(* An index lists builds of its own channel only, through every step. *)
LEMMA SeparateStep ==
    ASSUME TypeOK, JobShape, PlanIsCurrent, ChannelsAreSeparate, [Next]_vars
    PROVE  ChannelsAreSeparate'
<1> SUFFICES ASSUME NEW b \in Backends, NEW ch \in Channels, NEW n \in index'[b][ch].nodes
             PROVE  Channel[n.build] = ch
    BY DEF ChannelsAreSeparate
<1>1. CASE index'[b][ch] = index[b][ch]
    BY <1>1 DEF ChannelsAreSeparate
<1>2. CASE b \in Unwritten(job) /\ ch = job.ch /\ index'[b][ch] = job.doc
    <2>1. n \in index[b][ch].nodes \/ (job.kind = "publish" /\ n = job.node)
        BY <1>2 DEF PlanIsCurrent
    <2> QED BY <1>2, <2>1, PublishedBuild DEF ChannelsAreSeparate
<1> QED BY <1>1, <1>2, IndexFrame

(* No target lists the version of a publish before its pointer is written. *)
LEMMA VersionStep ==
    ASSUME ~AllowBackfill, UniqueVersions,
           TypeOK, JobShape, VersionIsNew, ChannelsAreSeparate, [Next]_vars
    PROVE  VersionIsNew'
<1>1. ASSUME NEW x \in Builds, NEW T \in TargetSets, NEW source \in T, BeginPublish(x, T, source)
      PROVE  VersionIsNew'
    <2> DEFINE base == Current(T, Channel[x])
               node == [build |-> x, att |-> att + 1, urls |-> T]
    <2>0. /\ job'.node = node /\ job'.targets = T /\ index' = index /\ T \subseteq Backends
          /\ \A b \in T : index[b][Channel[x]] = base
        BY <1>1, PublishPlan DEF store
    <2>1. /\ job'.node.build = x /\ job'.targets = T /\ index' = index /\ T \subseteq Backends
          /\ \A b \in T : index[b][Channel[x]] = base
        BY <2>0
    <2>2. CodeMonotonic(x, base.nodes)
        BY <1>1 DEF BeginPublish
    <2>3. ASSUME NEW b \in T, NEW ch \in Channels, NEW n \in index[b][ch].nodes
          PROVE  Version[n.build] # Version[x]
        <3>1. b \in Backends /\ n \in Nodes /\ n.build \in Builds
            BY <2>1, <2>3 DEF TypeOK, Indexes, Nodes
        <3>2. CASE ch = Channel[x]
            <4>1. Code[n.build] < Code[x]
                BY <2>1, <2>2, <2>3, <3>2 DEF CodeMonotonic
            <4>2. Code[x] \in Nat
                BY BuildsAssumption, ParametersAssumption
            <4>3. n.build # x
                BY <4>1, <4>2
            <4> QED BY <3>1, <4>3 DEF UniqueVersions
        <3>3. CASE ch # Channel[x]
            <4>1. n.build # x
                BY <2>3, <3>1, <3>3 DEF ChannelsAreSeparate
            <4> QED BY <3>1, <4>1 DEF UniqueVersions
        <3> QED BY <3>2, <3>3
    <2> QED BY <2>1, <2>3 DEF VersionIsNew
<1>2. ASSUME NEW v \in Versions, NEW T \in TargetSets, BeginUnpublish(v, T)
      PROVE  VersionIsNew'
    BY <1>2, UnpublishPlan DEF VersionIsNew
<1>3. ASSUME NEW b \in Backends, JobStep(b)
      PROVE  VersionIsNew'
    <2> SUFFICES ASSUME job'.phase \in {"artifacts", "manifest"}
                 PROVE  \A c \in job'.targets, ch \in Channels : \A n \in index'[c][ch].nodes :
                            Version[n.build] # Version[job'.node.build]
        BY DEF VersionIsNew
    <2>1. job'.node = job.node /\ job'.targets = job.targets
        BY <1>3, JobEffect
    <2>2. job.phase \in {"artifacts", "manifest"}
        BY <1>3, JobEffect
    <2>3. \A c \in Backends, ch \in Channels : index'[c][ch] = index[c][ch]
        BY <2>2, IndexFrame
    <2>4. job.targets \subseteq Backends
        BY DEF TypeOK, Jobs
    <2> QED BY <2>1, <2>2, <2>3, <2>4 DEF VersionIsNew
<1>4. ASSUME job' = Idle
      PROVE  VersionIsNew'
    BY <1>4 DEF VersionIsNew, Idle
<1>5. ASSUME UNCHANGED <<job, index>>
      PROVE  VersionIsNew'
    BY <1>5 DEF VersionIsNew
<1> QED BY <1>1, <1>2, <1>3, <1>4, <1>5, OtherSteps

(* Manifest and artifact that a publish has finished at a backend stay there until its pointer. *)
LEMMA UploadsStep ==
    ASSUME TypeOK, JobShape, NEW b \in Settled, UploadsAreKept(b), [Next]_vars
    PROVE  UploadsAreKept(b)'
<1> DEFINE v == Version[job.node.build]
<1>1. ASSUME NEW x \in Builds, NEW T \in TargetSets, NEW source \in T, BeginPublish(x, T, source)
      PROVE  UploadsAreKept(b)'
    BY <1>1, PublishPlan DEF UploadsAreKept
<1>2. ASSUME NEW u \in Versions, NEW T \in TargetSets, BeginUnpublish(u, T)
      PROVE  UploadsAreKept(b)'
    BY <1>2, UnpublishPlan DEF UploadsAreKept
<1>3. ASSUME NEW c \in Backends, JobStep(c)
      PROVE  UploadsAreKept(b)'
    <2> SUFFICES ASSUME job.kind = "publish", b \in job.targets
                 PROVE  UploadsAreKept(b)'
        BY <1>3, JobEffect DEF UploadsAreKept
    <2>1. /\ job'.kind = job.kind /\ job'.node = job.node /\ job'.targets = job.targets
          /\ \/ job'.phase = job.phase /\ job'.todo = job.todo \ {c}
             \/ /\ job.todo \ {c} = {} /\ job'.todo = job.targets
                /\ \/ job.phase = "artifacts" /\ job'.phase = "manifest"
                   \/ job.phase = "manifest" /\ job'.phase = "index"
             \/ job'.phase \in {"release", "web", "sweep", "done"}
        BY <1>3, JobEffect
    <2>2. v \in Versions
        BY PublishedBuild
    <2>3. b \in Backends /\ b \notin GCBackends
        BY DEF Settled
    <2>4. ASSUME job.phase = "artifacts", job'.phase \in {"artifacts", "manifest"},
                 b \notin job.todo \ {c}
          PROVE  artifact'[b][v] = Blob[job.node.build]
        <3>1. CASE b = c
            <4>1. PutArtifact(b)
                BY <1>3, <2>4, <3>1 DEF JobStep, ArtifactFails, PutManifest, ManifestFails,
                   PutIndex, IndexFails, DeleteRelease, WriteWeb, SweepCAS, At, Abort,
                   TypeOK, Jobs
            <4>2. Blob[job.node.build] \in Blobs
                BY PublishedBuild, BuildsAssumption
            <4> QED BY <2>2, <2>3, <4>1, <4>2, UpdateEntry
                    DEF PutArtifact, StoredArtifact, TypeOK
        <3>2. CASE b # c
            <4>1. b \notin job.todo
                BY <2>4, <3>2
            <4>2. artifact[b][v] = Blob[job.node.build]
                BY <2>4, <4>1 DEF UploadsAreKept
            <4> QED BY <2>2, <4>1, <4>2, StoreFrame
        <3> QED BY <3>1, <3>2
    <2>5. ASSUME job.phase = "manifest", job'.phase \in {"manifest", "index"}
          PROVE  artifact'[b][v] = Blob[job.node.build]
        <3>1. artifact[b][v] = Blob[job.node.build]
            BY <2>5 DEF UploadsAreKept
        <3> QED BY <2>2, <2>5, <3>1, StoreFrame
    <2>6. ASSUME job.phase = "manifest", job'.phase \in {"manifest", "index"},
                 b \notin job.todo \ {c}
          PROVE  manifest'[b][v] = job.node
        <3>1. CASE b = c
            <4>1. PutManifest(b)
                BY <1>3, <2>6, <3>1 DEF JobStep, PutArtifact, ArtifactFails, ManifestFails,
                   PutIndex, IndexFails, DeleteRelease, WriteWeb, SweepCAS, At, Abort,
                   TypeOK, Jobs
            <4> QED BY <2>2, <2>3, <4>1, PublishedBuild, UpdateEntry
                    DEF PutManifest, StoredManifest, TypeOK
        <3>2. CASE b # c
            <4>1. b \notin job.todo
                BY <2>6, <3>2
            <4>2. manifest[b][v] = job.node
                BY <2>6, <4>1 DEF UploadsAreKept
            <4> QED BY <2>2, <4>1, <4>2, StoreFrame
        <3> QED BY <3>1, <3>2
    <2>7. CASE job'.phase = "artifacts"
        <3>1. job.phase = "artifacts" /\ job'.todo = job.todo \ {c}
            BY <2>1, <2>7
        <3> QED BY <2>1, <2>4, <2>7, <3>1 DEF UploadsAreKept
    <2>8. CASE job'.phase = "manifest"
        <3>1. CASE job.phase = "artifacts"
            <4>1. job.todo \ {c} = {} /\ job'.todo = job.targets
                BY <2>1, <2>8, <3>1
            <4> QED BY <2>1, <2>4, <2>8, <3>1, <4>1 DEF UploadsAreKept
        <3>2. CASE job.phase = "manifest"
            <4>1. job'.todo = job.todo \ {c}
                BY <2>1, <2>8, <3>2
            <4> QED BY <2>1, <2>5, <2>6, <2>8, <3>2, <4>1 DEF UploadsAreKept
        <3> QED BY <2>1, <2>8, <3>1, <3>2
    <2>9. CASE job'.phase = "index"
        <3>1. CASE job.phase = "manifest"
            <4>1. job.todo \ {c} = {}
                BY <2>1, <2>9, <3>1
            <4> QED BY <2>1, <2>5, <2>6, <2>9, <3>1, <4>1 DEF UploadsAreKept, Served
        <3>2. CASE job.phase = "index"
            <4>1. Served(job.node, b)
                BY <3>2 DEF UploadsAreKept
            <4>2. artifact'[b][v] = artifact[b][v] /\ manifest'[b][v] = manifest[b][v]
                BY <2>2, <3>2, StoreFrame
            <4> QED BY <2>1, <2>9, <4>1, <4>2 DEF UploadsAreKept, Served
        <3> QED BY <2>1, <2>9, <3>1, <3>2
    <2>10. CASE job'.phase \in {"release", "web", "sweep", "done"}
        BY <2>10 DEF UploadsAreKept
    <2>11. job.phase \in {"artifacts", "manifest", "index", "release", "web", "sweep"}
        BY <1>3, JobStepVisits DEF TypeOK, Jobs, Phases
    <2> QED BY <2>1, <2>7, <2>8, <2>9, <2>10, <2>11
<1>4. ASSUME job' = Idle
      PROVE  UploadsAreKept(b)'
    BY <1>4 DEF UploadsAreKept, Idle
<1>5. ASSUME UNCHANGED job, ~(\E c \in Backends : JobStep(c))
      PROVE  UploadsAreKept(b)'
    <2> SUFFICES ASSUME job.kind = "publish", b \in job.targets
                 PROVE  UploadsAreKept(b)'
        BY <1>5 DEF UploadsAreKept
    <2>1. v \in Versions
        BY PublishedBuild
    <2>2. artifact'[b][v] = artifact[b][v] /\ manifest'[b][v] = manifest[b][v]
        BY <1>5, <2>1, StoreFrame DEF Settled
    <2> QED BY <1>5, <2>2 DEF UploadsAreKept, Served
<1> QED BY <1>1, <1>2, <1>3, <1>4, <1>5, OtherSteps

(* Whatever an index lists after a step is served by the backend. *)
LEMMA ServedStep ==
    ASSUME TypeOK, JobShape, ServedInv, NEW b \in Settled, [Next]_vars
    PROVE  ListedIsServedBy(b)'
<1> SUFFICES ASSUME NEW ch \in Channels, NEW n \in index'[b][ch].nodes
             PROVE  Served(n, b)'
    BY DEF ListedIsServedBy
<1>0. b \in Backends
    BY DEF Settled
<1>1. ASSUME n \in index[b][ch].nodes
      PROVE  Served(n, b)'
    <2>1. Served(n, b)
        BY <1>1 DEF ServedInv, ListedIsServedBy
    <2>2. Version[n.build] \in Versions
        BY <1>0, <1>1, BuildsAssumption DEF TypeOK, Indexes, Nodes
    <2>3. job.phase \in {"artifacts", "manifest"} /\ b \in job.todo
              => Version[n.build] # Version[job.node.build]
        <3>1. b \in job.todo => b \in job.targets
            BY DEF JobShape, WellFormed
        <3> QED BY <1>1, <3>1 DEF ServedInv, VersionIsNew
    <2> QED BY <2>1, <2>2, <2>3, StoreFrame DEF Served
<1>2. ASSUME job.phase = "index", job.kind = "publish", b \in Unwritten(job), n = job.node
      PROVE  Served(n, b)'
    <2>1. Served(n, b)
        <3>1. b \in job.targets
            BY <1>2 DEF Unwritten, JobShape, WellFormed
        <3> QED BY <1>2, <3>1 DEF ServedInv, UploadsAreKept
    <2>2. Version[n.build] \in Versions
        BY <1>2, PublishedBuild
    <2> QED BY <1>2, <2>1, <2>2, StoreFrame DEF Served
<1>3. CASE index'[b][ch] = index[b][ch]
    BY <1>1, <1>3
<1>4. CASE /\ job.phase = "index" /\ b \in Unwritten(job)
           /\ ch = job.ch /\ index'[b][ch] = job.doc
    <2>1. n \in index[b][ch].nodes \/ (job.kind = "publish" /\ n = job.node)
        BY <1>4 DEF ServedInv, PlanIsCurrent
    <2> QED BY <1>1, <1>2, <1>4, <2>1
<1> QED BY <1>0, <1>3, <1>4, IndexFrame

(* The inductive invariant behind ListedReleasesAreServed. *)
LEMMA ServedInvariant ==
    ASSUME ~AllowBackfill, UniqueVersions
    PROVE  Spec => [](TypeOK /\ JobShape /\ ServedInv)
<1>1. Init => ServedInv
    BY ParametersAssumption
       DEF Init, ServedInv, PlanIsCurrent, Unwritten, VersionIsNew, ChannelsAreSeparate,
           UploadsAreKept, ListedIsServedBy, Idle, NoIndex, Settled
<1>2. TypeOK /\ JobShape /\ ServedInv /\ [Next]_vars => ServedInv'
    <2> SUFFICES ASSUME TypeOK, JobShape, ServedInv, [Next]_vars
                 PROVE  ServedInv'
        OBVIOUS
    <2>1. PlanIsCurrent'
        BY PlanStep DEF ServedInv
    <2>2. VersionIsNew' /\ ChannelsAreSeparate'
        BY VersionStep, SeparateStep DEF ServedInv
    <2>3. \A b \in Settled : UploadsAreKept(b)' /\ ListedIsServedBy(b)'
        BY UploadsStep, ServedStep DEF ServedInv
    <2> QED BY <2>1, <2>2, <2>3 DEF ServedInv, Settled
<1> QED BY <1>1, <1>2, TypeCorrect, PTL DEF Spec

(* SPEC 1 and SPEC 13: what an index names is complete.  On stores without a
   collector, for every interleaving of publishes, unpublishes, failures,
   crashes and uploads, every release an index lists is there with the manifest
   and the artifact the index vouches for. *)
THEOREM ListedReleasesAreServed ==
    ASSUME ~AllowBackfill, UniqueVersions, GCBackends = {}
    PROVE  Spec => []ListedIsServed
<1>1. ServedInv => ListedIsServed
    BY DEF ServedInv, ListedIsServed, Settled
<1> QED BY <1>1, ServedInvariant, PTL

-----------------------------------------------------------------------------
(* The web documents. *)

LEMMA ListedGrows ==
    ASSUME TypeOK, JobShape, [Next]_vars, NEW b \in Backends, NEW ch \in Channels
    PROVE  listed[b][ch] \subseteq listed'[b][ch]
BY IndexFrame

(* Without backfill the new release has the highest code, so retention keeps
   it. *)
LEMMA NewReleaseIsKept ==
    ASSUME ~AllowBackfill, NEW nodes \in SUBSET Nodes, NEW node \in Nodes,
           CodeMonotonic(node.build, nodes)
    PROVE  node \in ApplyRetain(MergeNode(nodes, node))
<1> DEFINE merged == MergeNode(nodes, node)
           above == {m \in merged : Code[m.build] > Code[node.build]}
<1>1. node \in merged
    BY DEF MergeNode
<1>2. Code[node.build] \in Nat /\ \A n \in nodes : Code[n.build] \in Nat
    BY BuildsAssumption, ParametersAssumption DEF Nodes
<1>3. above = {}
    BY <1>2 DEF MergeNode, CodeMonotonic
<1>4. Cardinality(above) = 0
    BY <1>3, FS_EmptySet
<1> QED BY <1>1, <1>4, ParametersAssumption DEF ApplyRetain

(* A pointer that was written lists what was planned, until the job ends. *)
LEMMA CommittedStep ==
    ASSUME ~AllowBackfill, TypeOK, JobShape, CommittedIsListed, [Next]_vars
    PROVE  CommittedIsListed'
<1>1. ASSUME NEW x \in Builds, NEW T \in TargetSets, NEW source \in T, BeginPublish(x, T, source)
      PROVE  CommittedIsListed'
    <2> DEFINE node == [build |-> x, att |-> att + 1, urls |-> T]
               base == Current(T, Channel[x])
    <2>1. /\ job'.node = node /\ node \in Nodes /\ base \in Indexes /\ job'.committed = {}
          /\ job'.doc.nodes = ApplyRetain(MergeNode(base.nodes, node))
        BY <1>1, PublishPlan
    <2>2. CodeMonotonic(node.build, base.nodes)
        BY <1>1 DEF BeginPublish
    <2>3. base.nodes \in SUBSET Nodes
        BY <2>1 DEF Indexes
    <2>4. node \in job'.doc.nodes
        BY <2>1, <2>2, <2>3, NewReleaseIsKept
    <2> QED BY <2>1, <2>4 DEF CommittedIsListed
<1>2. ASSUME NEW v \in Versions, NEW T \in TargetSets, BeginUnpublish(v, T)
      PROVE  CommittedIsListed'
    BY <1>2, UnpublishPlan DEF CommittedIsListed
<1>3. ASSUME NEW b \in Backends, JobStep(b)
      PROVE  CommittedIsListed'
    <2>1. /\ job'.kind = job.kind /\ job'.node = job.node /\ job'.ch = job.ch
          /\ job'.doc = job.doc
          /\ \/ job'.committed = job.committed
             \/ PutIndex(b) /\ job'.committed = job.committed \cup {b}
        BY <1>3, JobEffect
    <2>2. job.ch \in Channels /\ job.committed \subseteq Backends
        BY DEF TypeOK, Jobs
    <2>3. ASSUME NEW c \in job.committed
          PROVE  job.doc.nodes \subseteq listed'[c][job.ch]
        BY <2>2, ListedGrows DEF CommittedIsListed
    <2>4. ASSUME PutIndex(b)
          PROVE  job.doc.nodes \subseteq listed'[b][job.ch]
        <3>1. listed' = [listed EXCEPT ![b][job.ch] = listed[b][job.ch] \cup job.doc.nodes]
            BY <2>4 DEF PutIndex, StoredIndex
        <3>2. listed[b][job.ch] \cup job.doc.nodes \in SUBSET Nodes
            BY <2>2 DEF TypeOK, Jobs, Indexes
        <3>3. listed'[b][job.ch] = listed[b][job.ch] \cup job.doc.nodes
            BY <2>2, <3>1, <3>2, UpdateEntry DEF TypeOK
        <3> QED BY <3>3
    <2> QED BY <2>1, <2>3, <2>4 DEF CommittedIsListed
<1>4. ASSUME job' = Idle
      PROVE  CommittedIsListed'
    BY <1>4 DEF CommittedIsListed, Idle
<1>5. ASSUME UNCHANGED <<job, listed>>
      PROVE  CommittedIsListed'
    BY <1>5 DEF CommittedIsListed
<1> QED BY <1>1, <1>2, <1>3, <1>4, <1>5, OtherSteps

(* Web documents are written only where the pointer was. *)
LEMMA WebStep ==
    ASSUME TypeOK, JobShape, CommittedIsListed, WebNeverAhead, [Next]_vars
    PROVE  WebNeverAhead'
<1>1. ASSUME UNCHANGED web
      PROVE  WebNeverAhead'
    <2> SUFFICES ASSUME NEW b \in Backends, NEW ch \in Channels
                 PROVE  /\ latest[b][ch] # None => latest[b][ch] \in listed'[b][ch]
                        /\ channel[b][ch] \subseteq listed'[b][ch]
                        /\ release[b][ch] \subseteq VersionsOf(listed'[b][ch])
        BY <1>1 DEF web, WebNeverAhead
    <2>1. listed[b][ch] \subseteq listed'[b][ch]
        BY ListedGrows
    <2> QED BY <2>1 DEF WebNeverAhead, VersionsOf
<1>2. ASSUME NEW b \in Backends, DeleteRelease(b)
      PROVE  WebNeverAhead'
    <2>1. job.ch \in Channels
        BY DEF TypeOK, Jobs
    <2>2. /\ latest' = latest /\ channel' = channel /\ listed' = listed
          /\ \/ release' = release
             \/ release' = [release EXCEPT ![b][job.ch] = release[b][job.ch] \ {job.gone}]
        BY <1>2 DEF DeleteRelease
    <2>3. \A c \in Backends, ch \in Channels : release'[c][ch] \subseteq release[c][ch]
        <3>1. CASE release' = release
            BY <3>1
        <3>2. CASE release' = [release EXCEPT ![b][job.ch] = release[b][job.ch] \ {job.gone}]
            <4>1. release[b][job.ch] \ {job.gone} \in SUBSET Versions
                BY <2>1 DEF TypeOK
            <4>2. /\ release'[b][job.ch] = release[b][job.ch] \ {job.gone}
                  /\ \A c \in Backends, ch \in Channels :
                        c # b \/ ch # job.ch => release'[c][ch] = release[c][ch]
                BY <2>1, <3>2, <4>1, UpdateEntry DEF TypeOK
            <4> QED BY <4>2
        <3> QED BY <2>2, <3>1, <3>2
    <2> QED BY <2>2, <2>3 DEF WebNeverAhead
<1>3. ASSUME NEW b \in Backends, WriteWeb(b)
      PROVE  WebNeverAhead'
    <2> DEFINE nodes == job.doc.nodes
    <2>1. job.ch \in Channels /\ nodes \in SUBSET Nodes /\ b \in job.committed
        BY <1>3 DEF WriteWeb, At, JobShape, WellFormed, TypeOK, Jobs, Indexes
    <2>2. nodes \subseteq listed[b][job.ch] /\ listed' = listed
        BY <1>3, <2>1 DEF WriteWeb, CommittedIsListed
    <2>3. LatestNode \in nodes
        <3>1. CASE job.kind = "publish"
            BY <3>1 DEF LatestNode, CommittedIsListed
        <3>2. CASE job.kind = "unpublish"
            <4>1. nodes # {}
                BY <3>2 DEF JobShape, WellFormed
            <4> QED BY <2>1, <3>2, <4>1, HighestNodeExists DEF LatestNode
        <3> QED BY <1>3, <3>1, <3>2 DEF WriteWeb, At, JobShape, WellFormed, TypeOK, Jobs
    <2>4. ASSUME job.kind = "publish"
          PROVE  Version[job.node.build] \in VersionsOf(nodes)
        BY <2>4 DEF CommittedIsListed, VersionsOf
    <2>5. ASSUME NEW c \in Backends, NEW ch \in Channels
          PROVE  latest'[c][ch] = latest[c][ch]
                     \/ (c = b /\ ch = job.ch /\ latest'[c][ch] = LatestNode)
        <3>1. latest' \in {latest, [latest EXCEPT ![b][job.ch] = LatestNode]}
            BY <1>3 DEF WriteWeb
        <3>2. LatestNode \in Nodes
            BY <2>1, <2>3
        <3>3. LET g == [latest EXCEPT ![b][job.ch] = LatestNode]
              IN  /\ g[b][job.ch] = LatestNode
                  /\ \A x \in Backends, y \in Channels :
                        x # b \/ y # job.ch => g[x][y] = latest[x][y]
            BY <2>1, <3>2, UpdateEntry DEF TypeOK
        <3> QED BY <3>1, <3>3
    <2>6. ASSUME NEW c \in Backends, NEW ch \in Channels
          PROVE  channel'[c][ch] = channel[c][ch]
                     \/ (c = b /\ ch = job.ch /\ channel'[c][ch] = nodes)
        <3>1. channel' \in {channel, [channel EXCEPT ![b][job.ch] = nodes]}
            BY <1>3 DEF WriteWeb
        <3>2. LET g == [channel EXCEPT ![b][job.ch] = nodes]
              IN  /\ g[b][job.ch] = nodes
                  /\ \A x \in Backends, y \in Channels :
                        x # b \/ y # job.ch => g[x][y] = channel[x][y]
            BY <2>1, UpdateEntry DEF TypeOK
        <3> QED BY <3>1, <3>2
    <2>7. ASSUME NEW c \in Backends, NEW ch \in Channels
          PROVE  release'[c][ch] = release[c][ch]
                     \/ (/\ job.kind = "publish" /\ c = b /\ ch = job.ch
                         /\ release'[c][ch] = release[c][ch] \cup {Version[job.node.build]})
        <3> DEFINE more == release[b][job.ch] \cup {Version[job.node.build]}
        <3>1. \/ release' = release
              \/ job.kind = "publish" /\ release' = [release EXCEPT ![b][job.ch] = more]
            BY <1>3 DEF WriteWeb, WebDocs
        <3>2. CASE job.kind = "publish" /\ release' = [release EXCEPT ![b][job.ch] = more]
            <4>1. more \in SUBSET Versions
                BY <2>1, <3>2, PublishedBuild DEF TypeOK
            <4>2. /\ release'[b][job.ch] = more
                  /\ \A x \in Backends, y \in Channels :
                        x # b \/ y # job.ch => release'[x][y] = release[x][y]
                BY <2>1, <3>2, <4>1, UpdateEntry DEF TypeOK
            <4> QED BY <3>2, <4>2
        <3> QED BY <3>1, <3>2
    <2>8. ASSUME NEW c \in Backends, NEW ch \in Channels
          PROVE  /\ latest'[c][ch] # None => latest'[c][ch] \in listed'[c][ch]
                 /\ channel'[c][ch] \subseteq listed'[c][ch]
                 /\ release'[c][ch] \subseteq VersionsOf(listed'[c][ch])
        <3>1. latest'[c][ch] # None => latest'[c][ch] \in listed'[c][ch]
            BY <2>2, <2>3, <2>5 DEF WebNeverAhead
        <3>2. channel'[c][ch] \subseteq listed'[c][ch]
            BY <2>2, <2>6 DEF WebNeverAhead
        <3>3. release'[c][ch] \subseteq VersionsOf(listed'[c][ch])
            <4>1. VersionsOf(nodes) \subseteq VersionsOf(listed[b][job.ch])
                BY <2>2 DEF VersionsOf
            <4> QED BY <2>2, <2>4, <2>7, <4>1 DEF WebNeverAhead
        <3> QED BY <3>1, <3>2, <3>3
    <2> QED BY <2>8 DEF WebNeverAhead
<1>4. ASSUME NEW b \in Backends, JobStep(b), ~DeleteRelease(b), ~WriteWeb(b)
      PROVE  UNCHANGED web
    BY <1>4 DEF JobStep, PutArtifact, ArtifactFails, PutManifest, ManifestFails, PutIndex,
                IndexFails, SweepCAS, web
<1>5. ASSUME \/ \E x \in Builds, T \in TargetSets : \E source \in T : BeginPublish(x, T, source)
             \/ \E v \in Versions, T \in TargetSets : BeginUnpublish(v, T)
      PROVE  UNCHANGED web
    BY <1>5 DEF BeginPublish, BeginUnpublish
<1> QED BY <1>1, <1>2, <1>3, <1>4, <1>5, OtherSteps

(* docs/design/publish-topology.md: "the human side never runs ahead of the
   protocol side".  Whatever pointer fails and wherever the agent dies, the
   download links, the history page and the release pages of a backend show
   only what an index of that backend has listed. *)
THEOREM WebFollowsIndex ==
    ASSUME ~AllowBackfill
    PROVE  Spec => []WebNeverAhead
<1>1. Init => CommittedIsListed /\ WebNeverAhead
    BY DEF Init, CommittedIsListed, WebNeverAhead, Idle
<1>2. TypeOK /\ JobShape /\ CommittedIsListed /\ WebNeverAhead /\ [Next]_vars
          => CommittedIsListed' /\ WebNeverAhead'
    BY CommittedStep, WebStep
<1> QED BY <1>1, <1>2, TypeCorrect, PTL DEF Spec

-----------------------------------------------------------------------------
(* Mirrors.  Every request names all backends of the product, which is what
   publishTo says unless an operator overrides it with "to": a mirror that was
   left out once has its own sequence numbers and its own manifests. *)

RequestsNameAll == TargetSets \subseteq {Backends}

(* No backend has used the sequence of the document that is still to be
   written for another one. *)
SequenceIsFree ==
    Unwritten(job) # {} =>
        \A b \in Backends :
            index[b][job.ch].seq = job.doc.seq => index[b][job.ch] = job.doc

(* A pointer that is written while others are not leaves two documents, one sequence apart. *)
LEMMA FreeStep ==
    ASSUME RequestsNameAll, TypeOK, JobShape, SequenceIsFree, [Next]_vars
    PROVE  SequenceIsFree'
<1>1. ASSUME NEW x \in Builds, NEW T \in TargetSets, NEW source \in T, BeginPublish(x, T, source)
      PROVE  SequenceIsFree'
    <2> DEFINE base == Current(T, Channel[x])
    <2>1. /\ job'.ch = Channel[x] /\ job'.doc.seq = base.seq + 1 /\ index' = index
          /\ base \in Indexes /\ \A b \in T : index[b][Channel[x]] = base
        BY <1>1, PublishPlan, ZenonT(60) DEF store
    <2>2. T = Backends
        BY DEF RequestsNameAll
    <2>3. base.seq # base.seq + 1
        BY <2>1 DEF Indexes
    <2> QED BY <2>1, <2>2, <2>3 DEF SequenceIsFree
<1>2. ASSUME NEW v \in Versions, NEW T \in TargetSets, BeginUnpublish(v, T)
      PROVE  SequenceIsFree'
    <2> DEFINE base == Current(T, DefaultChannel)
    <2>1. /\ job'.ch = DefaultChannel /\ job'.doc.seq = base.seq + 1 /\ index' = index
          /\ \A b \in T : index[b][DefaultChannel] = base
        BY <1>2, UnpublishPlan DEF store
    <2>2. T = Backends
        BY DEF RequestsNameAll
    <2>3. base \in Indexes
        BY ParametersAssumption, CurrentType DEF TypeOK
    <2>4. base.seq # base.seq + 1
        BY <2>3 DEF Indexes
    <2> QED BY <2>1, <2>2, <2>4 DEF SequenceIsFree
<1>3. ASSUME NEW b \in Backends, JobStep(b)
      PROVE  SequenceIsFree'
    <2> SUFFICES ASSUME Unwritten(job') # {}, NEW c \in Backends,
                        index'[c][job'.ch].seq = job'.doc.seq
                 PROVE  index'[c][job'.ch] = job'.doc
        BY DEF SequenceIsFree
    <2>1. job'.ch = job.ch /\ job'.doc = job.doc /\ job.ch \in Channels
        BY <1>3, JobEffect DEF TypeOK, Jobs
    <2>2. Unwritten(job) # {}
        BY <1>3, UnwrittenShrinks
    <2>3. index'[c][job.ch] = index[c][job.ch] \/ index'[c][job.ch] = job.doc
        BY <2>1, IndexFrame
    <2> QED BY <2>1, <2>2, <2>3 DEF SequenceIsFree
<1>4. ASSUME job' = Idle
      PROVE  SequenceIsFree'
    BY <1>4 DEF SequenceIsFree, Unwritten, Idle
<1>5. ASSUME UNCHANGED <<job, index>>
      PROVE  SequenceIsFree'
    BY <1>5 DEF SequenceIsFree
<1> QED BY <1>1, <1>2, <1>3, <1>4, <1>5, OtherSteps

(* A client that moves between mirrors compares sequences only.  As long as every
   request names all of them, one sequence is one index, whichever pointers were
   refused or got through unnoticed and wherever the agent died: what is left after
   a partial commit is refused as divergent by the next job. *)
THEOREM OneIndexPerSequence ==
    ASSUME RequestsNameAll
    PROVE  Spec => []SequenceNamesOneIndex
<1>1. Init => SequenceIsFree /\ SequenceNamesOneIndex
    BY DEF Init, SequenceIsFree, SequenceNamesOneIndex, Unwritten, Idle
<1>2. ASSUME TypeOK, JobShape, SequenceIsFree, SequenceNamesOneIndex, [Next]_vars
      PROVE  SequenceNamesOneIndex'
    <2> SUFFICES ASSUME NEW a \in Backends, NEW b \in Backends, NEW ch \in Channels,
                        index'[a][ch].seq = index'[b][ch].seq
                 PROVE  index'[a][ch] = index'[b][ch]
        BY DEF SequenceNamesOneIndex
    <2> DEFINE Written(c) == /\ ch = job.ch /\ index'[c][ch] = job.doc /\ Unwritten(job) # {}
    <2>1. ASSUME NEW c \in Backends
          PROVE  index'[c][ch] = index[c][ch] \/ Written(c)
        BY <1>2, IndexFrame
    <2>2. CASE index'[a][ch] = index[a][ch] /\ index'[b][ch] = index[b][ch]
        BY <1>2, <2>2 DEF SequenceNamesOneIndex
    <2>3. CASE Written(a) \/ Written(b)
        BY <1>2, <2>1, <2>3 DEF SequenceIsFree
    <2> QED BY <2>1, <2>2, <2>3
<1>3. TypeOK /\ JobShape /\ SequenceIsFree /\ SequenceNamesOneIndex /\ [Next]_vars
          => SequenceIsFree' /\ SequenceNamesOneIndex'
    BY <1>2, FreeStep
<1> QED BY <1>1, <1>3, TypeCorrect, PTL DEF Spec

(* A publish goes to every backend, and so do the copies its node names. *)
NamesAll == job.kind = "publish" => job.targets = Backends

(* What EveryMirrorServes says of the mirrors that nodes name. *)
LEMMA MirrorStep ==
    ASSUME GCBackends = {}, TypeOK, JobShape, ServedInv, NamesAll, EveryMirrorServes,
           [Next]_vars
    PROVE  EveryMirrorServes'
<1> SUFFICES ASSUME NEW b \in Backends, NEW ch \in Channels, NEW n \in index'[b][ch].nodes,
                    NEW u \in n.urls
             PROVE  Served(n, u)'
    BY DEF EveryMirrorServes
<1>1. index' \in [Backends -> [Channels -> Indexes]]
    BY TypeStep DEF TypeOK
<1>2. n \in Nodes /\ u \in Backends /\ u \in Settled /\ Version[n.build] \in Versions
    BY <1>1, BuildsAssumption DEF Indexes, Nodes, Settled
<1>3. ASSUME n \in index[b][ch].nodes
      PROVE  Served(n, u)'
    <2>1. Served(n, u)
        BY <1>3 DEF EveryMirrorServes
    <2>2. job.phase \in {"artifacts", "manifest"} => Version[n.build] # Version[job.node.build]
        <3> SUFFICES ASSUME job.phase \in {"artifacts", "manifest"}
                     PROVE  Version[n.build] # Version[job.node.build]
            OBVIOUS
        <3>1. b \in job.targets
            BY DEF JobShape, WellFormed, NamesAll
        <3> QED BY <1>3, <3>1 DEF ServedInv, VersionIsNew
    <2> QED BY <1>2, <2>1, <2>2, StoreFrame DEF Served
<1>4. ASSUME job.phase = "index", job.kind = "publish", n = job.node
      PROVE  Served(n, u)'
    <2>1. u \in job.targets
        BY <1>2, <1>4 DEF NamesAll
    <2>2. Served(n, u)
        BY <1>2, <1>4, <2>1 DEF ServedInv, UploadsAreKept
    <2> QED BY <1>2, <1>4, <2>2, StoreFrame DEF Served
<1>5. CASE index'[b][ch] = index[b][ch]
    BY <1>3, <1>5
<1>6. CASE /\ job.phase = "index" /\ b \in Unwritten(job)
           /\ ch = job.ch /\ index'[b][ch] = job.doc
    <2>1. n \in index[b][ch].nodes \/ (job.kind = "publish" /\ n = job.node)
        BY <1>6 DEF ServedInv, PlanIsCurrent
    <2> QED BY <1>3, <1>4, <1>6, <2>1
<1> QED BY <1>5, <1>6, IndexFrame

(* Every request names all backends, through the life of its job. *)
LEMMA NamesAllStep ==
    ASSUME RequestsNameAll, TypeOK, JobShape, NamesAll, [Next]_vars
    PROVE  NamesAll'
<1>1. ASSUME NEW x \in Builds, NEW T \in TargetSets, NEW source \in T, BeginPublish(x, T, source)
      PROVE  NamesAll'
    BY <1>1, PublishPlan, ZenonT(60) DEF NamesAll, RequestsNameAll
<1>2. ASSUME NEW v \in Versions, NEW T \in TargetSets, BeginUnpublish(v, T)
      PROVE  NamesAll'
    BY <1>2, UnpublishPlan DEF NamesAll
<1>3. ASSUME NEW b \in Backends, JobStep(b)
      PROVE  NamesAll'
    BY <1>3, JobEffect DEF NamesAll
<1>4. CASE job' = Idle
    BY <1>4 DEF NamesAll, Idle
<1>5. CASE UNCHANGED job
    BY <1>5 DEF NamesAll
<1> QED BY <1>1, <1>2, <1>3, <1>4, <1>5, OtherSteps

(* A client may fetch a release from any mirror that its index node names, whichever
   backend it read the index from: all of them have its manifest and its artifact.
   Backfill, rebuilt versions and the collector are left out as in
   ListedReleasesAreServed, and every request names all backends. *)
THEOREM MirrorsServe ==
    ASSUME ~AllowBackfill, UniqueVersions, GCBackends = {}, RequestsNameAll
    PROVE  Spec => []EveryMirrorServes
<1>1. Init => NamesAll /\ EveryMirrorServes
    BY DEF Init, NamesAll, Idle, EveryMirrorServes, NoIndex
<1>2. TypeOK /\ JobShape /\ ServedInv /\ NamesAll /\ EveryMirrorServes /\ [Next]_vars
          => NamesAll' /\ EveryMirrorServes'
    BY NamesAllStep, MirrorStep
<1> QED BY <1>1, <1>2, ServedInvariant, PTL DEF Spec

-----------------------------------------------------------------------------
(* Why a release leaves an index. *)

(* An index lists finitely many releases, and so does a plan. *)
IndexesAreFinite ==
    /\ \A b \in Backends, ch \in Channels : IsFiniteSet(index[b][ch].nodes)
    /\ IsFiniteSet(job.doc.nodes)

(* What is to be written is what the plan made of the index that the backend serves. *)
PlanIsExact ==
    \A b \in Unwritten(job) :
        LET nodes == index[b][job.ch].nodes
        IN  /\ job.kind = "publish" =>
                  /\ job.doc.nodes = ApplyRetain(MergeNode(nodes, job.node))
                  /\ CodeMonotonic(job.node.build, nodes)
            /\ job.kind = "unpublish" =>
                  job.doc.nodes = {n \in nodes : Version[n.build] # job.gone}
            /\ job.kind # "none"

(* Merging and retention keep a finite set finite. *)
LEMMA PlanIsFinite ==
    ASSUME NEW nodes, NEW node, IsFiniteSet(nodes)
    PROVE  /\ IsFiniteSet(MergeNode(nodes, node))
           /\ IsFiniteSet(ApplyRetain(MergeNode(nodes, node)))
<1> DEFINE rest == {n \in nodes : Code[n.build] # Code[node.build]}
           merged == MergeNode(nodes, node)
<1>1. IsFiniteSet(rest)
    <2>1. rest \subseteq nodes
        OBVIOUS
    <2> HIDE DEF rest
    <2> QED BY <2>1, FS_Subset
<1>2. IsFiniteSet(merged)
    <2>1. merged = rest \cup {node}
        BY DEF MergeNode
    <2>2. IsFiniteSet({node})
        BY FS_Singleton
    <2> HIDE DEF rest, merged
    <2> QED BY <1>1, <2>1, <2>2, FS_Union
<1>3. ApplyRetain(merged) \subseteq merged
    BY DEF ApplyRetain
<1> HIDE DEF merged
<1>4. IsFiniteSet(ApplyRetain(merged))
    BY <1>2, <1>3, FS_Subset
<1> QED BY <1>2, <1>4 DEF merged

(* Retention drops a release only if as many of higher codes stay as it keeps. *)
LEMMA RetentionIsExact ==
    ASSUME NEW nodes \in SUBSET Nodes, IsFiniteSet(nodes), NEW n \in Nodes,
           RetainVersions > 0,
           RetainVersions <= Cardinality({m \in nodes : Code[m.build] > Code[n.build]})
    PROVE  RetainVersions <=
               Cardinality({m \in ApplyRetain(nodes) : Code[m.build] > Code[n.build]})
<1> DEFINE above(c) == {m \in nodes : Code[m.build] > Code[c.build]}
           stay == {m \in ApplyRetain(nodes) : Code[m.build] > Code[n.build]}
           lost == above(n) \ ApplyRetain(nodes)
<1>0. \A c \in Nodes : c.build \in Builds /\ Code[c.build] \in Nat
    BY BuildsAssumption, ParametersAssumption DEF Nodes
<1>1. RetainVersions \in Nat /\ RetainVersions # 0
    BY ParametersAssumption
<1>2. ApplyRetain(nodes) = {c \in nodes : Cardinality(above(c)) < RetainVersions}
    BY <1>1 DEF ApplyRetain
<1>3. CASE lost = {}
    <2>1. stay = above(n)
        BY <1>2, <1>3
    <2> QED BY <2>1
<1>4. CASE lost # {}
    <2> DEFINE h == HighestNode(lost)
    <2>1. lost \in SUBSET Nodes
        OBVIOUS
    <2>2. h \in lost /\ \A m \in lost : Code[m.build] <= Code[h.build]
        <3> HIDE DEF lost
        <3> QED BY <1>4, <2>1, HighestNodeExists
    <2> HIDE DEF h
    <2>3. h \in nodes /\ Code[h.build] > Code[n.build] /\ ~(Cardinality(above(h)) < RetainVersions)
        BY <1>2, <2>2
    <2>4. above(h) \subseteq stay
        <3> SUFFICES ASSUME NEW m \in above(h) PROVE m \in stay
            OBVIOUS
        <3>1. m \in nodes /\ Code[m.build] > Code[h.build] /\ m \in Nodes /\ h \in Nodes
            BY <2>3
        <3>2. Code[m.build] > Code[n.build]
            BY <1>0, <2>3, <3>1
        <3>3. ~(Code[m.build] <= Code[h.build])
            BY <1>0, <3>1
        <3>4. m \notin lost
            BY <2>2, <3>3
        <3> QED BY <3>1, <3>2, <3>4
    <2>5. stay \subseteq nodes /\ above(h) \subseteq nodes
        BY <1>2
    <2> HIDE DEF stay, above
    <2>6. IsFiniteSet(stay) /\ IsFiniteSet(above(h))
        BY <2>5, FS_Subset
    <2>7. /\ Cardinality(above(h)) <= Cardinality(stay)
          /\ Cardinality(above(h)) \in Nat /\ Cardinality(stay) \in Nat
        BY <2>4, <2>6, FS_Subset, FS_CardinalityType
    <2>8. RetainVersions <= Cardinality(stay)
        BY <1>1, <2>3, <2>7
    <2> QED BY <2>8 DEF stay
<1> QED BY <1>3, <1>4

(* Every step keeps indexes and plans finite. *)
LEMMA FiniteStep ==
    ASSUME TypeOK, JobShape, IndexesAreFinite, [Next]_vars
    PROVE  IndexesAreFinite'
<1>1. ASSUME NEW b \in Backends, NEW ch \in Channels
      PROVE  IsFiniteSet(index'[b][ch].nodes)
    BY IndexFrame DEF IndexesAreFinite
<1>2. IsFiniteSet(job'.doc.nodes)
    <2>1. ASSUME NEW x \in Builds, NEW T \in TargetSets, NEW source \in T,
                 BeginPublish(x, T, source)
          PROVE  IsFiniteSet(job'.doc.nodes)
        <3> DEFINE base == Current(T, Channel[x])
                   node == [build |-> x, att |-> att + 1, urls |-> T]
        <3>1. /\ job'.doc.nodes = ApplyRetain(MergeNode(base.nodes, node))
              /\ Channel[x] \in Channels /\ \A b \in T : index[b][Channel[x]] = base
            BY <2>1, PublishPlan
        <3>2. IsFiniteSet(base.nodes)
            BY <3>1, TargetsAssumption DEF IndexesAreFinite
        <3> HIDE DEF base, node
        <3> QED BY <3>1, <3>2, PlanIsFinite
    <2>2. ASSUME NEW v \in Versions, NEW T \in TargetSets, BeginUnpublish(v, T)
          PROVE  IsFiniteSet(job'.doc.nodes)
        <3> DEFINE base == Current(T, DefaultChannel)
        <3>1. /\ job'.doc.nodes \subseteq base.nodes
              /\ \A b \in T : index[b][DefaultChannel] = base
            BY <2>2, UnpublishPlan
        <3>2. IsFiniteSet(base.nodes)
            BY <3>1, TargetsAssumption, ParametersAssumption DEF IndexesAreFinite
        <3> HIDE DEF base
        <3> QED BY <3>1, <3>2, FS_Subset
    <2>3. ASSUME NEW b \in Backends, JobStep(b)
          PROVE  IsFiniteSet(job'.doc.nodes)
        BY <2>3, JobEffect DEF IndexesAreFinite
    <2>4. CASE job' = Idle
        BY <2>4, FS_EmptySet DEF Idle, NoIndex
    <2>5. CASE UNCHANGED job
        BY <2>5 DEF IndexesAreFinite
    <2> QED BY <2>1, <2>2, <2>3, <2>4, <2>5, OtherSteps
<1> QED BY <1>1, <1>2 DEF IndexesAreFinite

(* A job never changes which version it removes. *)
LEMMA GoneKept ==
    ASSUME TypeOK, NEW b \in Backends, JobStep(b)
    PROVE  job'.gone = job.gone
<1>0. job \in Jobs
    BY DEF TypeOK
<1>1. ASSUME NEW j \in Jobs, j.gone = job.gone, job' = Visited(j, b)
      PROVE  job'.gone = job.gone
    <2>1. Visited(j, b).gone = j.gone
        BY VisitedFrame
    <2> QED BY <1>1, <2>1
<1>2. CASE job' = Abort(job)
    BY <1>0, <1>2 DEF Abort, Jobs
<1>3. CASE job' = Visited(job, b)
    BY <1>0, <1>1, <1>3
<1>4. CASE PutIndex(b)
    <2>1. [job EXCEPT !.committed = @ \cup {b}] \in Jobs
        BY <1>0 DEF Jobs
    <2>2. [job EXCEPT !.committed = @ \cup {b}].gone = job.gone
        BY <1>0 DEF Jobs
    <2> QED BY <1>1, <1>4, <2>1, <2>2 DEF PutIndex
<1>5. CASE IndexFails(b)
    <2> DEFINE j == [job EXCEPT !.failed = @ \/ job.kind = "publish",
                                !.warned = @ \/ job.kind = "unpublish"]
    <2>1. j \in Jobs /\ j.gone = job.gone
        BY <1>0 DEF Jobs
    <2> QED BY <1>1, <1>5, <2>1 DEF IndexFails
<1>6. CASE DeleteRelease(b) \/ WriteWeb(b)
    <2>1. PICK clean \in BOOLEAN :
              job' = Visited([job EXCEPT !.warned = @ \/ ~clean], b)
        BY <1>6 DEF DeleteRelease, WriteWeb
    <2>2. /\ [job EXCEPT !.warned = @ \/ ~clean] \in Jobs
          /\ [job EXCEPT !.warned = @ \/ ~clean].gone = job.gone
        BY <1>0 DEF Jobs
    <2> QED BY <1>1, <2>1, <2>2
<1> QED BY <1>2, <1>3, <1>4, <1>5, <1>6
        DEF JobStep, PutArtifact, ArtifactFails, PutManifest, ManifestFails, SweepCAS

(* The product lock keeps everybody else away between the plan and the pointer. *)
LEMMA ExactStep ==
    ASSUME TypeOK, JobShape, PlanIsExact, [Next]_vars
    PROVE  PlanIsExact'
<1>1. ASSUME NEW x \in Builds, NEW T \in TargetSets, NEW source \in T, BeginPublish(x, T, source)
      PROVE  PlanIsExact'
    <2> DEFINE node == [build |-> x, att |-> att + 1, urls |-> T]
               base == Current(T, Channel[x])
    <2>1. /\ job'.kind = "publish" /\ job'.node = node /\ job'.ch = Channel[x]
          /\ index' = index
          /\ job'.doc.nodes = ApplyRetain(MergeNode(base.nodes, node))
          /\ \A b \in T : index[b][Channel[x]] = base
          /\ Unwritten(job') = T
        BY <1>1, PublishPlan DEF store, Unwritten
    <2>2. CodeMonotonic(x, base.nodes) /\ node.build = x
        BY <1>1 DEF BeginPublish
    <2> HIDE DEF base, node
    <2> QED BY <2>1, <2>2 DEF PlanIsExact
<1>2. ASSUME NEW v \in Versions, NEW T \in TargetSets, BeginUnpublish(v, T)
      PROVE  PlanIsExact'
    <2> DEFINE base == Current(T, DefaultChannel)
    <2>1. /\ Unwritten(job') = T /\ index' = index /\ job'.kind = "unpublish"
          /\ job'.ch = DefaultChannel /\ \A b \in T : index[b][DefaultChannel] = base
        BY <1>2, UnpublishPlan DEF Unwritten, store
    <2>2. /\ job'.gone = v /\ job'.doc.nodes = {n \in base.nodes : Version[n.build] # v}
        BY <1>2 DEF BeginUnpublish, Idle
    <2> HIDE DEF base
    <2> QED BY <2>1, <2>2 DEF PlanIsExact
<1>3. ASSUME NEW b \in Backends, JobStep(b)
      PROVE  PlanIsExact'
    <2>1. /\ job'.kind = job.kind /\ job'.node = job.node /\ job'.ch = job.ch
          /\ job'.doc = job.doc
        BY <1>3, JobEffect
    <2>2. job'.gone = job.gone
        BY <1>3, GoneKept
    <2>3. ASSUME NEW c \in Unwritten(job')
          PROVE  c \in Unwritten(job) /\ index'[c][job.ch] = index[c][job.ch]
        <3>1. c \in Unwritten(job)
            BY <1>3, <2>3, UnwrittenShrinks
        <3>2. c \in Backends /\ job.ch \in Channels
            BY <3>1 DEF Unwritten, TypeOK, Jobs
        <3> QED BY <2>3, <3>1, <3>2, IndexFrame
    <2> QED BY <2>1, <2>2, <2>3 DEF PlanIsExact
<1>4. ASSUME job' = Idle
      PROVE  PlanIsExact'
    BY <1>4 DEF PlanIsExact, Unwritten, Idle
<1>5. ASSUME UNCHANGED <<job, index>>
      PROVE  PlanIsExact'
    BY <1>5 DEF PlanIsExact
<1> QED BY <1>1, <1>2, <1>3, <1>4, <1>5, OtherSteps

(* A release leaves an index because an unpublish named its version, because
   retention is satisfied without it, or because a backfilled build took its code:
   no failure, crash, retry or second mirror makes one disappear, and retention
   never drops more than its window allows. *)
THEOREM ReleasesLeaveOnPurpose == Spec => ReleaseLeavesOnPurpose
<1> DEFINE Purpose == \A b \in Backends, ch \in Channels :
          \A n \in index[b][ch].nodes \ index'[b][ch].nodes :
              \/ job.kind = "unpublish" /\ Version[n.build] = job.gone
              \/ /\ RetainVersions > 0
                 /\ RetainVersions <=
                       Cardinality({m \in index'[b][ch].nodes : Code[m.build] > Code[n.build]})
              \/ AllowBackfill /\ Code[n.build] \in CodesOf(index'[b][ch].nodes)
<1>1. Init => IndexesAreFinite /\ PlanIsExact
    <2> SUFFICES ASSUME Init PROVE IndexesAreFinite /\ PlanIsExact
        OBVIOUS
    <2>1. /\ \A b \in Backends, ch \in Channels : index[b][ch].nodes = {}
          /\ job.doc.nodes = {} /\ Unwritten(job) = {}
        BY DEF Init, NoIndex, Idle, Unwritten
    <2>2. IsFiniteSet({})
        BY FS_EmptySet
    <2> QED BY <2>1, <2>2 DEF IndexesAreFinite, PlanIsExact
<1>2. ASSUME TypeOK, JobShape, IndexesAreFinite, PlanIsExact, [Next]_vars
      PROVE  Purpose
    <2> SUFFICES ASSUME NEW b \in Backends, NEW ch \in Channels,
                        NEW n \in index[b][ch].nodes, n \notin index'[b][ch].nodes
                 PROVE  \/ job.kind = "unpublish" /\ Version[n.build] = job.gone
                        \/ /\ RetainVersions > 0
                           /\ RetainVersions <= Cardinality(
                                  {m \in index'[b][ch].nodes : Code[m.build] > Code[n.build]})
                        \/ AllowBackfill /\ Code[n.build] \in CodesOf(index'[b][ch].nodes)
        OBVIOUS
    <2> DEFINE nodes == index[b][ch].nodes
               merged == MergeNode(nodes, job.node)
    <2>1. b \in Unwritten(job) /\ ch = job.ch /\ index'[b][ch] = job.doc
        BY <1>2, IndexFrame
    <2>2. nodes \in SUBSET Nodes /\ n \in Nodes /\ IsFiniteSet(nodes)
        BY <1>2 DEF TypeOK, Indexes, IndexesAreFinite
    <2>3. job.kind \in {"publish", "unpublish"}
        BY <1>2, <2>1 DEF PlanIsExact, TypeOK, Jobs
    <2>4. CASE job.kind = "unpublish"
        BY <1>2, <2>1, <2>4 DEF PlanIsExact
    <2>5. CASE job.kind = "publish"
        <3>1. index'[b][ch].nodes = ApplyRetain(merged) /\ CodeMonotonic(job.node.build, nodes)
            BY <1>2, <2>1, <2>5 DEF PlanIsExact
        <3>2. job.node \in Nodes /\ merged \in SUBSET Nodes /\ IsFiniteSet(merged)
            BY <1>2, <2>2, <2>5, PublishedBuild, PlanType, PlanIsFinite
        <3>3. /\ Code[n.build] \in Nat /\ Code[job.node.build] \in Nat
              /\ RetainVersions \in Nat
            BY <2>2, <3>2, BuildsAssumption, ParametersAssumption DEF Nodes
        <3>4. ASSUME NEW k \in merged, Code[k.build] = Code[n.build],
                     k \notin ApplyRetain(merged)
              PROVE  /\ RetainVersions > 0
                     /\ RetainVersions <= Cardinality(
                            {m \in ApplyRetain(merged) : Code[m.build] > Code[n.build]})
            <4> DEFINE above == {m \in merged : Code[m.build] > Code[n.build]}
            <4>1. RetainVersions # 0 /\ ~(Cardinality(above) < RetainVersions)
                BY <3>4 DEF ApplyRetain
            <4>2. Cardinality(above) \in Nat
                <5>1. above \subseteq merged
                    OBVIOUS
                <5> HIDE DEF above, merged
                <5> QED BY <3>2, <5>1, FS_Subset, FS_CardinalityType
            <4>3. RetainVersions <= Cardinality(above) /\ RetainVersions > 0
                BY <3>3, <4>1, <4>2
            <4> HIDE DEF merged
            <4> QED BY <2>2, <3>2, <4>3, RetentionIsExact
        <3>5. CASE n \in merged
            BY <3>1, <3>4, <3>5
        <3>6. CASE n \notin merged
            <4>1. Code[n.build] = Code[job.node.build] /\ job.node \in merged
                BY <3>6 DEF MergeNode
            <4>2. AllowBackfill
                BY <3>1, <3>3, <4>1 DEF CodeMonotonic
            <4>3. CASE job.node \in ApplyRetain(merged)
                BY <3>1, <4>1, <4>2, <4>3 DEF CodesOf
            <4>4. CASE job.node \notin ApplyRetain(merged)
                BY <3>1, <3>4, <4>1, <4>4
            <4> QED BY <4>3, <4>4
        <3> QED BY <3>5, <3>6
    <2> QED BY <2>3, <2>4, <2>5
<1>3. TypeOK /\ JobShape /\ IndexesAreFinite /\ PlanIsExact /\ [Next]_vars
          => IndexesAreFinite' /\ PlanIsExact' /\ [Purpose]_vars
    BY <1>2, FiniteStep, ExactStep
<1> QED BY <1>1, <1>3, TypeCorrect, PTL DEF Spec, ReleaseLeavesOnPurpose

-----------------------------------------------------------------------------
(* What an answer says. *)

(* Backends whose release document has been dealt with, and those whose other
   web documents have. *)
Cleared(j) ==
    CASE j.phase = "release"                  -> j.committed \ j.todo
      [] j.phase \in {"web", "sweep", "done"} -> j.committed
      [] OTHER                                -> {}

Shown(j) ==
    CASE j.phase = "web"               -> j.committed \ j.todo
      [] j.phase \in {"sweep", "done"} -> j.committed
      [] OTHER                         -> {}

(* No pointer has failed: a publish would have failed and an unpublish warned. *)
Clean(j) == ~j.failed /\ (j.kind = "unpublish" => ~j.warned)

(* The plan names the release as the newest one, or leaves the removed one out. *)
PlanNamesNewest ==
    /\ job.kind = "publish" =>
          /\ job.node \in job.doc.nodes
          /\ \A m \in job.doc.nodes : m # job.node => Code[m.build] < Code[job.node.build]
    /\ job.kind = "unpublish" => job.gone \notin VersionsOf(job.doc.nodes)

(* The web documents of b show the plan. *)
Shows(b) ==
    /\ latest[b][job.ch] = LatestNode /\ channel[b][job.ch] = job.doc.nodes
    /\ job.kind = "publish" => Version[job.node.build] \in release[b][job.ch]

(* What has been done so far, if nothing went wrong. *)
AnswerInv ==
    /\ PlanNamesNewest
    /\ \A b \in job.committed : index[b][job.ch] = job.doc
    /\ Clean(job) /\ job.phase \in {"index", "release", "web", "sweep", "done"} =>
           job.targets \ Unwritten(job) \subseteq job.committed
    /\ ~job.failed /\ ~job.warned =>
           /\ \A b \in Shown(job) : Shows(b)
           /\ job.kind = "unpublish" =>
                  \A b \in Cleared(job) : job.gone \notin release[b][job.ch]

(* A job that has not failed reached some backend with its pointer. *)
LEMMA VisitedVerdict ==
    ASSUME NEW j \in Jobs, NEW b, ~Visited(j, b).failed
    PROVE  /\ ~j.failed
           /\ j.todo \ {b} = {} /\ j.phase = "index" => j.committed # {}
<1> DEFINE r == [j EXCEPT !.todo = @ \ {b}]
<1>1. /\ r \in Jobs /\ r.failed = j.failed /\ r.phase = j.phase
      /\ r.committed = j.committed /\ r.todo = j.todo \ {b}
    BY DEF Jobs
<1>2. CASE r.todo # {}
    BY <1>1, <1>2 DEF Visited
<1>3. CASE r.todo = {}
    <2>1. Visited(j, b) = Enter(r, NextPhase(r))
        BY <1>3 DEF Visited
    <2>2. Enter(r, NextPhase(r)).failed = (r.failed \/ (r.phase = "index" /\ r.committed = {}))
        BY <1>1 DEF Enter, Jobs
    <2> QED BY <1>1, <2>1, <2>2
<1> QED BY <1>2, <1>3

(* What a step says of a job that is still without failure. *)
LEMMA VerdictEffect ==
    ASSUME TypeOK, JobShape, NEW b \in Backends, JobStep(b), ~job'.failed
    PROVE  /\ ~job.failed
           /\ ~job'.warned => ~job.warned
           /\ job.phase = "index" =>
                 PutIndex(b) \/ (job.kind = "unpublish" /\ job'.warned)
           /\ \/ job'.phase = job.phase /\ job'.todo = job.todo \ {b}
              \/ /\ job.todo \ {b} = {}
                 /\ \/ job.phase = "artifacts" /\ job'.phase = "manifest"
                    \/ /\ job.phase = "manifest" /\ job'.phase = "index"
                       /\ job'.todo = job.targets
                    \/ /\ job.phase = "index" /\ job'.phase \in {"web", "release"}
                       /\ job'.todo = job'.committed
                       /\ job'.phase = "web" => job.kind = "publish"
                    \/ job.phase = "release" /\ job'.phase = "web" /\ job'.todo = job'.committed
                    \/ job.phase = "web" /\ job'.phase \in {"sweep", "done"}
                    \/ job.phase = "sweep" /\ job'.phase = "done"
<1>0. job \in Jobs /\ WellFormed(job) /\ job.phase \notin {"idle", "done"} /\ b \in job.todo
    BY JobStepVisits DEF TypeOK, JobShape
<1>1. ~(job' = Abort(job))
    BY <1>0 DEF Abort, Jobs
<1>2. ASSUME NEW j \in Jobs, job' = Visited(j, b), j.kind = job.kind, j.phase = job.phase,
             j.todo = job.todo, j.targets = job.targets
      PROVE  /\ ~j.failed /\ job'.warned = j.warned
             /\ \/ job'.phase = job.phase /\ job'.todo = job.todo \ {b}
                \/ /\ job.todo \ {b} = {}
                   /\ \/ job.phase = "artifacts" /\ job'.phase = "manifest"
                      \/ /\ job.phase = "manifest" /\ job'.phase = "index"
                         /\ job'.todo = job.targets
                      \/ /\ job.phase = "index" /\ job'.phase \in {"web", "release"}
                         /\ job'.todo = job'.committed
                         /\ job'.phase = "web" => job.kind = "publish"
                      \/ /\ job.phase = "release" /\ job'.phase = "web"
                         /\ job'.todo = job'.committed
                      \/ job.phase = "web" /\ job'.phase \in {"sweep", "done"}
                      \/ job.phase = "sweep" /\ job'.phase = "done"
    <2> DEFINE k == Visited(j, b)
               i == [j EXCEPT !.todo = {}]
    <2>1. /\ ~j.failed
          /\ j.todo \ {b} = {} /\ j.phase = "index" => j.committed # {}
        BY <1>2, VisitedVerdict
    <2>2. /\ k.warned = j.warned /\ k.committed = j.committed
          /\ j.todo \ {b} # {} => k.phase = j.phase /\ k.todo = j.todo \ {b}
          /\ j.todo \ {b} = {} =>
                /\ k.phase = NextPhase(i)
                /\ k.todo = CASE k.phase \in {"manifest", "index"} -> j.targets
                              [] k.phase \in {"release", "web", "sweep"} -> j.committed
                              [] OTHER -> {}
        BY VisitedFrame
    <2>3. /\ i.phase = j.phase /\ i.kind = j.kind /\ i.committed = j.committed
          /\ i.failed = j.failed /\ i.pruned = j.pruned
        BY DEF Jobs
    <2>4. j.todo \ {b} = {} =>
              /\ j.phase = "artifacts" => k.phase = "manifest"
              /\ j.phase = "manifest" => k.phase = "index"
              /\ j.phase = "index" => \/ k.phase = "web" /\ j.kind = "publish"
                                      \/ k.phase = "release"
              /\ j.phase = "release" => k.phase = "web"
              /\ j.phase = "web" => k.phase \in {"sweep", "done"}
              /\ j.phase = "sweep" => k.phase = "done"
        BY <2>1, <2>2, <2>3 DEF NextPhase
    <2>5. j.phase \in {"artifacts", "manifest", "index", "release", "web", "sweep"}
        BY <1>0, <1>2 DEF Jobs, Phases
    <2> QED BY <1>2, <2>1, <2>2, <2>4, <2>5
<1>3. CASE job' = Visited(job, b) /\ job.phase # "index"
    BY <1>0, <1>2, <1>3
<1>4. CASE PutIndex(b)
    <2> DEFINE j == [job EXCEPT !.committed = @ \cup {b}]
    <2>1. /\ j \in Jobs /\ j.kind = job.kind /\ j.phase = job.phase /\ j.todo = job.todo
          /\ j.targets = job.targets /\ j.failed = job.failed /\ j.warned = job.warned
        BY <1>0 DEF Jobs
    <2>2. job' = Visited(j, b)
        BY <1>4 DEF PutIndex
    <2> HIDE DEF j
    <2> QED BY <1>2, <1>4, <2>1, <2>2
<1>5. CASE IndexFails(b)
    <2> DEFINE j == [job EXCEPT !.failed = @ \/ job.kind = "publish",
                                !.warned = @ \/ job.kind = "unpublish"]
    <2>1. /\ j \in Jobs /\ j.kind = job.kind /\ j.phase = job.phase /\ j.todo = job.todo
          /\ j.targets = job.targets
          /\ j.failed = (job.failed \/ job.kind = "publish")
          /\ j.warned = (job.warned \/ job.kind = "unpublish")
        BY <1>0 DEF Jobs
    <2>2. job' = Visited(j, b)
        BY <1>5 DEF IndexFails
    <2>3. job.kind \in {"publish", "unpublish"}
        BY <1>0 DEF WellFormed, Jobs
    <2> HIDE DEF j
    <2> QED BY <1>2, <2>1, <2>2, <2>3
<1>6. CASE (DeleteRelease(b) \/ WriteWeb(b)) /\ job.phase # "index"
    <2>1. PICK clean \in BOOLEAN :
              job' = Visited([job EXCEPT !.warned = @ \/ ~clean], b)
        BY <1>6 DEF DeleteRelease, WriteWeb
    <2> DEFINE j == [job EXCEPT !.warned = @ \/ ~clean]
    <2>2. /\ j \in Jobs /\ j.kind = job.kind /\ j.phase = job.phase /\ j.todo = job.todo
          /\ j.targets = job.targets /\ j.failed = job.failed
          /\ j.warned = (job.warned \/ ~clean)
        BY <1>0 DEF Jobs
    <2> HIDE DEF j
    <2> QED BY <1>2, <1>6, <2>1, <2>2 DEF j
<1> QED BY <1>1, <1>3, <1>4, <1>5, <1>6
        DEF JobStep, PutArtifact, ArtifactFails, PutManifest, ManifestFails, DeleteRelease,
            WriteWeb, SweepCAS, At

(* What a visit writes to the web documents, when it left no warning. *)
LEMMA WebEffect ==
    ASSUME TypeOK, JobShape, PlanNamesNewest, NEW b \in Backends, JobStep(b), ~job'.warned
    PROVE  /\ \A c \in Backends : c # b =>
                 /\ latest'[c] = latest[c] /\ channel'[c] = channel[c]
                 /\ release'[c] = release[c]
           /\ job.phase \notin {"release", "web"} => UNCHANGED web
           /\ job.phase = "release" => job.gone \notin release'[b][job.ch]
           /\ job.phase = "web" =>
                 /\ latest'[b][job.ch] = LatestNode /\ channel'[b][job.ch] = job.doc.nodes
                 /\ job.kind = "publish" => Version[job.node.build] \in release'[b][job.ch]
                 /\ job.kind = "unpublish" => release' = release
<1>0. job \in Jobs /\ job.ch \in Channels /\ job.doc.nodes \in SUBSET Nodes /\ WellFormed(job)
    BY DEF TypeOK, Jobs, Indexes, JobShape
<1>1. ASSUME NEW j \in Jobs, NEW clean \in BOOLEAN, j = [job EXCEPT !.warned = @ \/ ~clean],
             job' = Visited(j, b)
      PROVE  clean
    <2>1. Visited(j, b).warned = j.warned
        BY VisitedFrame
    <2>2. j.warned = (job.warned \/ ~clean)
        BY <1>0, <1>1 DEF Jobs
    <2> QED BY <1>1, <2>1, <2>2
<1>2. ASSUME NEW clean \in BOOLEAN
      PROVE  [job EXCEPT !.warned = @ \/ ~clean] \in Jobs
    BY <1>0 DEF Jobs
<1>3. CASE DeleteRelease(b)
    <2>1. PICK done \in BOOLEAN, clean \in BOOLEAN :
              /\ clean => done
              /\ release' = IF done THEN [release EXCEPT ![b][job.ch] = @ \ {job.gone}]
                            ELSE release
              /\ job' = Visited([job EXCEPT !.warned = @ \/ ~clean], b)
        BY <1>3 DEF DeleteRelease
    <2>2. release' = [release EXCEPT ![b][job.ch] = release[b][job.ch] \ {job.gone}]
        BY <1>1, <1>2, <2>1
    <2>3. job.phase = "release" /\ UNCHANGED <<latest, channel>>
        BY <1>3 DEF DeleteRelease, At
    <2>4. release'[b][job.ch] = release[b][job.ch] \ {job.gone}
        BY <1>0, <2>2 DEF TypeOK
    <2> QED BY <2>2, <2>3, <2>4 DEF TypeOK
<1>4. CASE WriteWeb(b)
    <2>1. PICK written \in SUBSET WebDocs, clean \in BOOLEAN :
              /\ clean => written = WebDocs
              /\ latest' = IF "latest" \in written
                           THEN [latest EXCEPT ![b][job.ch] = LatestNode] ELSE latest
              /\ channel' = IF "channel" \in written
                            THEN [channel EXCEPT ![b][job.ch] = job.doc.nodes] ELSE channel
              /\ release' = IF "release" \in written
                            THEN [release EXCEPT ![b][job.ch] = @ \cup {Version[job.node.build]}]
                            ELSE release
              /\ job' = Visited([job EXCEPT !.warned = @ \/ ~clean], b)
        BY <1>4 DEF WriteWeb
    <2>2. written = WebDocs
        BY <1>1, <1>2, <2>1
    <2>3. /\ latest' = [latest EXCEPT ![b][job.ch] = LatestNode]
          /\ channel' = [channel EXCEPT ![b][job.ch] = job.doc.nodes]
          /\ release' = IF job.kind = "publish"
                        THEN [release EXCEPT ![b][job.ch]
                                  = release[b][job.ch] \cup {Version[job.node.build]}]
                        ELSE release
        BY <2>1, <2>2 DEF WebDocs
    <2>4. job.phase = "web"
        BY <1>4 DEF WriteWeb, At
    <2>5. latest'[b][job.ch] = LatestNode /\ channel'[b][job.ch] = job.doc.nodes
        BY <1>0, <2>3 DEF TypeOK
    <2>6. job.kind = "publish" => Version[job.node.build] \in release'[b][job.ch]
        BY <1>0, <2>3 DEF TypeOK
    <2>7. \A c \in Backends : c # b =>
              /\ latest'[c] = latest[c] /\ channel'[c] = channel[c] /\ release'[c] = release[c]
        BY <2>3 DEF TypeOK
    <2> QED BY <2>3, <2>4, <2>5, <2>6, <2>7
<1>5. CASE ~DeleteRelease(b) /\ ~WriteWeb(b)
    <2>1. UNCHANGED web /\ job.phase \notin {"release", "web"}
        BY <1>5 DEF JobStep, PutArtifact, ArtifactFails, PutManifest, ManifestFails, PutIndex,
                    IndexFails, SweepCAS, web, At
    <2> QED BY <2>1 DEF web
<1> QED BY <1>3, <1>4, <1>5

(* A job that goes on keeps account of what it has done. *)
LEMMA AnswerStep ==
    ASSUME TypeOK, JobShape, AnswerInv, NEW b \in Backends, JobStep(b)
    PROVE  AnswerInv'
<1>0. /\ job \in Jobs /\ WellFormed(job) /\ job.ch \in Channels /\ job.targets \subseteq Backends
      /\ job.committed \subseteq Backends /\ job.doc \in Indexes
    BY DEF TypeOK, Jobs, JobShape
<1>1. /\ job'.kind = job.kind /\ job'.node = job.node /\ job'.ch = job.ch
      /\ job'.targets = job.targets /\ job'.doc = job.doc /\ job'.gone = job.gone
      /\ \/ job'.committed = job.committed
         \/ PutIndex(b) /\ job'.committed = job.committed \cup {b}
      /\ b \in job.todo /\ b \in job.targets
    BY JobEffect, GoneKept
<1>2. PlanNamesNewest'
    BY <1>1 DEF AnswerInv, PlanNamesNewest
<1>3. ASSUME PutIndex(b)
      PROVE  /\ index'[b][job.ch] = job.doc /\ job.phase = "index"
             /\ job'.committed = job.committed \cup {b}
    <2>1. index' = [index EXCEPT ![b][job.ch] = job.doc]
        BY <1>3 DEF PutIndex, StoredIndex
    <2>2. index'[b][job.ch] = job.doc
        BY <1>0, <2>1, UpdateEntry DEF TypeOK
    <2> DEFINE j == [job EXCEPT !.committed = @ \cup {b}]
    <2>3. j \in Jobs /\ j.committed = job.committed \cup {b}
        BY <1>0 DEF Jobs
    <2>4. job' = Visited(j, b)
        BY <1>3 DEF PutIndex
    <2> HIDE DEF j
    <2>5. job'.committed = j.committed
        BY <2>3, <2>4, VisitedFrame
    <2> QED BY <1>3, <2>2, <2>3, <2>5 DEF PutIndex, At
<1>4. \A c \in job'.committed : index'[c][job.ch] = job.doc
    <2> SUFFICES ASSUME NEW c \in job'.committed PROVE index'[c][job.ch] = job.doc
        OBVIOUS
    <2>1. CASE c = b /\ PutIndex(b)
        BY <1>3, <2>1
    <2>2. CASE c \in job.committed
        <3>1. index[c][job.ch] = job.doc
            BY <2>2 DEF AnswerInv
        <3>2. c \in Backends /\ [Next]_vars
            BY <1>0, <2>2 DEF Next
        <3> QED BY <1>0, <3>1, <3>2, IndexFrame
    <2> QED BY <1>1, <2>1, <2>2
<1>5. ASSUME Clean(job'), job'.phase \in {"index", "release", "web", "sweep", "done"}
      PROVE  job'.targets \ Unwritten(job') \subseteq job'.committed
    <2>1. ~job'.failed /\ ~job.failed /\ Clean(job)
        BY <1>1, <1>5, VerdictEffect DEF Clean
    <2>2. CASE job.phase = "index"
        <3>1. PutIndex(b)
            BY <1>1, <1>5, <2>1, <2>2, VerdictEffect DEF Clean
        <3>2. job'.committed = job.committed \cup {b} /\ Unwritten(job) = job.todo
            BY <1>3, <2>2, <3>1 DEF Unwritten
        <3>3. job.targets \ job.todo \subseteq job.committed
            BY <2>1, <2>2, <3>2 DEF AnswerInv
        <3>4. job.todo \ {b} \subseteq Unwritten(job')
            BY <2>1, <2>2, VerdictEffect DEF Unwritten
        <3> QED BY <1>1, <3>2, <3>3, <3>4
    <2>3. CASE job.phase = "manifest"
        <3>1. Unwritten(job') = job.targets
            BY <1>5, <2>1, <2>3, VerdictEffect DEF Unwritten
        <3> QED BY <1>1, <3>1
    <2>4. CASE job.phase \in {"release", "web", "sweep"}
        <3>1. Unwritten(job) = {} /\ job.targets \subseteq job.committed
            BY <2>1, <2>4 DEF AnswerInv, Unwritten
        <3> QED BY <1>1, <3>1
    <2>5. job.phase \in {"manifest", "index", "release", "web", "sweep"}
        <3>1. job.phase \notin {"idle", "done"} /\ job.phase \in Phases
            BY <1>0, JobStepVisits DEF Jobs
        <3>2. job.phase # "artifacts"
            BY <1>5, <2>1, VerdictEffect
        <3> QED BY <3>1, <3>2 DEF Phases
    <2> QED BY <2>2, <2>3, <2>4, <2>5
<1>6. ASSUME ~job'.failed, ~job'.warned
      PROVE  /\ \A c \in Shown(job') : Shows(c)'
             /\ job.kind = "unpublish" =>
                    \A c \in Cleared(job') : job.gone \notin release'[c][job.ch]
    <2>1. /\ ~job.failed /\ ~job.warned
          /\ \A c \in Shown(job) : Shows(c)
          /\ job.kind = "unpublish" =>
                 \A c \in Cleared(job) : job.gone \notin release[c][job.ch]
        BY <1>6, VerdictEffect DEF AnswerInv
    <2>2. PlanNamesNewest
        BY DEF AnswerInv
    <2>3. Shown(job') \subseteq Backends /\ Cleared(job') \subseteq Backends
        BY <1>0, <1>1 DEF Shown, Cleared
    <2>4. ASSUME NEW c \in Shown(job')
          PROVE  (c \in Shown(job) /\ job.phase # "release") \/ (c = b /\ job.phase = "web")
        <3>1. CASE job'.phase = job.phase
            BY <1>1, <1>3, <1>6, <2>4, <3>1, VerdictEffect DEF Shown
        <3>2. CASE job'.phase # job.phase
            BY <1>0, <1>1, <1>3, <1>6, <2>4, <3>2, VerdictEffect DEF Shown
        <3> QED BY <3>1, <3>2
    <2>5. ASSUME NEW c \in Cleared(job'), job.kind = "unpublish"
          PROVE  c \in Cleared(job) \/ (c = b /\ job.phase = "release")
        <3>1. CASE job'.phase = job.phase
            BY <1>1, <1>3, <1>6, <2>5, <3>1, VerdictEffect DEF Cleared
        <3>2. CASE job'.phase # job.phase
            BY <1>0, <1>1, <1>3, <1>6, <2>5, <3>2, VerdictEffect DEF Cleared
        <3> QED BY <3>1, <3>2
    <2>6. LatestNode' = LatestNode
        BY <1>1 DEF LatestNode
    <2>7. ASSUME NEW c \in Shown(job')
          PROVE  Shows(c)'
        <3>1. CASE c = b /\ job.phase = "web"
            BY <1>1, <1>6, <2>2, <2>6, <3>1, WebEffect DEF Shows
        <3>2. CASE c \in Shown(job) /\ (c # b \/ job.phase # "web") /\ job.phase # "release"
            <4>1. Shows(c)
                BY <2>1, <3>2
            <4>2. /\ latest'[c] = latest[c] /\ channel'[c] = channel[c]
                  /\ release'[c] = release[c]
                BY <1>6, <2>2, <2>3, <3>2, WebEffect DEF web
            <4> QED BY <1>1, <2>6, <4>1, <4>2 DEF Shows
        <3> QED BY <2>4, <3>1, <3>2
    <2>8. ASSUME NEW c \in Cleared(job'), job.kind = "unpublish"
          PROVE  job.gone \notin release'[c][job.ch]
        <3>1. CASE c = b /\ job.phase = "release"
            BY <1>6, <2>2, <3>1, WebEffect
        <3>2. CASE c \in Cleared(job) /\ (c # b \/ job.phase # "release")
            <4>1. job.gone \notin release[c][job.ch]
                BY <2>1, <2>8, <3>2
            <4>2. release'[c] = release[c]
                BY <1>6, <2>2, <2>3, <2>8, <3>2, WebEffect DEF web
            <4> QED BY <4>1, <4>2
        <3> QED BY <2>5, <2>8, <3>1, <3>2
    <2> QED BY <2>7, <2>8
<1> QED BY <1>1, <1>2, <1>4, <1>5, <1>6 DEF AnswerInv

(* A fresh plan names its release as the newest one, and nothing has been done. *)
LEMMA AnswerBegins ==
    ASSUME ~AllowBackfill, TypeOK, AnswerInv,
           \/ \E x \in Builds, T \in TargetSets : \E source \in T : BeginPublish(x, T, source)
           \/ \E v \in Versions, T \in TargetSets : BeginUnpublish(v, T)
    PROVE  AnswerInv'
<1>1. ASSUME PlanNamesNewest', job'.committed = {}, job'.targets = job'.todo,
             job'.phase \in {"artifacts", "index"}
      PROVE  AnswerInv'
    <2>1. Shown(job') = {} /\ Cleared(job') = {}
        BY <1>1 DEF Shown, Cleared
    <2>2. job'.phase = "index" => Unwritten(job') = job'.targets
        BY <1>1 DEF Unwritten
    <2> QED BY <1>1, <2>1, <2>2 DEF AnswerInv
<1>2. ASSUME NEW x \in Builds, NEW T \in TargetSets, NEW source \in T, BeginPublish(x, T, source)
      PROVE  AnswerInv'
    <2> DEFINE base == Current(T, Channel[x])
               node == [build |-> x, att |-> att + 1, urls |-> T]
               merged == MergeNode(base.nodes, node)
    <2>1. /\ job'.kind = "publish" /\ job'.phase = "artifacts" /\ job'.node = node
          /\ job'.targets = T /\ job'.todo = T /\ job'.committed = {}
          /\ node \in Nodes /\ base.nodes \in SUBSET Nodes
          /\ job'.doc.nodes = ApplyRetain(merged)
        BY <1>2, PublishPlan DEF Indexes
    <2>2. CodeMonotonic(node.build, base.nodes) /\ node.build = x
        BY <1>2 DEF BeginPublish
    <2>3. node \in job'.doc.nodes
        BY <2>1, <2>2, NewReleaseIsKept
    <2>4. ASSUME NEW m \in job'.doc.nodes, m # node
          PROVE  Code[m.build] < Code[node.build]
        <3>1. m \in base.nodes
            BY <2>1, <2>4 DEF ApplyRetain, MergeNode
        <3> QED BY <2>2, <3>1 DEF CodeMonotonic
    <2> HIDE DEF base, node, merged
    <2>5. PlanNamesNewest'
        BY <2>1, <2>3, <2>4 DEF PlanNamesNewest
    <2> QED BY <1>1, <2>1, <2>5
<1>3. ASSUME NEW v \in Versions, NEW T \in TargetSets, BeginUnpublish(v, T)
      PROVE  AnswerInv'
    <2>1. /\ job'.kind = "unpublish" /\ job'.phase = "index" /\ job'.targets = T
          /\ job'.todo = T /\ job'.committed = {}
        BY <1>3, UnpublishPlan
    <2>2. job'.gone = v
          /\ job'.doc.nodes = {n \in Current(T, DefaultChannel).nodes : Version[n.build] # v}
        BY <1>3 DEF BeginUnpublish, Idle
    <2>3. PlanNamesNewest'
        BY <2>1, <2>2 DEF PlanNamesNewest, VersionsOf
    <2> QED BY <1>1, <2>1, <2>3
<1> QED BY <1>2, <1>3

(* What the account says once the job is done. *)
LEMMA AnswerFollows ==
    ASSUME TypeOK, JobShape, AnswerInv
    PROVE  AnswerIsTrue
<1> SUFFICES ASSUME job.phase = "done", ~job.failed, NEW b \in job.targets
             PROVE  /\ job.kind = "publish" =>
                           /\ job.node \in index[b][job.ch].nodes
                           /\ Agree(job.targets, job.ch)
                           /\ ~job.warned =>
                                  /\ latest[b][job.ch] = HighestNode(index[b][job.ch].nodes)
                                  /\ channel[b][job.ch] = index[b][job.ch].nodes
                                  /\ Version[job.node.build] \in release[b][job.ch]
                    /\ job.kind = "unpublish" /\ ~job.warned =>
                           /\ job.gone \notin VersionsOf(index[b][job.ch].nodes)
                           /\ job.gone \notin VersionsOf(channel[b][job.ch])
                           /\ job.gone \notin release[b][job.ch]
                           /\ job.gone # Version[latest[b][job.ch].build]
    BY DEF AnswerIsTrue
<1>0. job.doc.nodes \in SUBSET Nodes
    BY DEF TypeOK, Jobs, Indexes
<1>1. ASSUME Clean(job)
      PROVE  \A c \in job.targets : c \in job.committed /\ index[c][job.ch] = job.doc
    <2>1. job.targets \subseteq job.committed
        BY <1>1 DEF AnswerInv, Unwritten
    <2> QED BY <2>1 DEF AnswerInv
<1>2. ASSUME ~job.warned, b \in job.committed
      PROVE  /\ Shows(b)
             /\ job.kind = "unpublish" => job.gone \notin release[b][job.ch]
    BY <1>2 DEF AnswerInv, Shown, Cleared
<1>3. ASSUME job.kind = "publish"
      PROVE  /\ job.node \in index[b][job.ch].nodes
             /\ Agree(job.targets, job.ch)
             /\ ~job.warned =>
                    /\ latest[b][job.ch] = HighestNode(index[b][job.ch].nodes)
                    /\ channel[b][job.ch] = index[b][job.ch].nodes
                    /\ Version[job.node.build] \in release[b][job.ch]
    <2>1. \A c \in job.targets : c \in job.committed /\ index[c][job.ch] = job.doc
        BY <1>1, <1>3 DEF Clean
    <2>2. /\ job.node \in job.doc.nodes
          /\ \A m \in job.doc.nodes : m # job.node => Code[m.build] < Code[job.node.build]
        BY <1>3 DEF AnswerInv, PlanNamesNewest
    <2>3. HighestNode(job.doc.nodes) = job.node
        <3>1. /\ HighestNode(job.doc.nodes) \in job.doc.nodes
              /\ \A m \in job.doc.nodes : Code[m.build] <= Code[HighestNode(job.doc.nodes).build]
            BY <1>0, <2>2, HighestNodeExists
        <3>2. \A m \in job.doc.nodes : Code[m.build] \in Nat
            BY <1>0, BuildsAssumption, ParametersAssumption DEF Nodes
        <3> QED BY <2>2, <3>1, <3>2
    <2> QED BY <1>2, <1>3, <2>1, <2>2, <2>3 DEF Agree, Shows, LatestNode
<1>4. ASSUME job.kind = "unpublish", ~job.warned
      PROVE  /\ job.gone \notin VersionsOf(index[b][job.ch].nodes)
             /\ job.gone \notin VersionsOf(channel[b][job.ch])
             /\ job.gone \notin release[b][job.ch]
             /\ job.gone # Version[latest[b][job.ch].build]
    <2>1. b \in job.committed /\ index[b][job.ch] = job.doc
        BY <1>1, <1>4 DEF Clean
    <2>2. job.gone \notin VersionsOf(job.doc.nodes) /\ job.doc.nodes # {}
        BY <1>4 DEF AnswerInv, PlanNamesNewest, JobShape, WellFormed
    <2>3. HighestNode(job.doc.nodes) \in job.doc.nodes
        BY <1>0, <2>2, HighestNodeExists
    <2>4. /\ latest[b][job.ch] = HighestNode(job.doc.nodes)
          /\ channel[b][job.ch] = job.doc.nodes
          /\ job.gone \notin release[b][job.ch]
        BY <1>2, <1>4, <2>1 DEF Shows, LatestNode
    <2> QED BY <2>1, <2>2, <2>3, <2>4 DEF VersionsOf
<1> QED BY <1>3, <1>4

(* A caller may believe an answer without error.  A publish is in the index of every
   target, all of them serve one document, and without a warning the web documents
   show it as the latest; an unpublish without a warning left its version in no
   document of any target.  Backfill is left out: retention may drop a backfilled
   release while it is published. *)
THEOREM AnswersAreTrue ==
    ASSUME ~AllowBackfill
    PROVE  Spec => []AnswerIsTrue
<1>1. Init => AnswerInv
    BY DEF Init, AnswerInv, PlanNamesNewest, Idle, Shown, Cleared
<1>2. TypeOK /\ JobShape /\ AnswerInv /\ [Next]_vars => AnswerInv'
    <2> SUFFICES ASSUME TypeOK, JobShape, AnswerInv, [Next]_vars PROVE AnswerInv'
        OBVIOUS
    <2>1. CASE job' = Idle
        BY <2>1 DEF AnswerInv, PlanNamesNewest, Idle, Shown, Cleared
    <2>2. CASE UNCHANGED <<job, index, web, listed>>
        <3>1. LatestNode' = LatestNode /\ (\A b : Shows(b)' = Shows(b))
            BY <2>2 DEF LatestNode, Shows, web
        <3> QED BY <2>2, <3>1 DEF AnswerInv, PlanNamesNewest, web
    <2> QED BY <2>1, <2>2, AnswerStep, AnswerBegins, OtherSteps
<1>3. TypeOK /\ JobShape /\ AnswerInv => AnswerIsTrue
    BY AnswerFollows
<1> QED BY <1>1, <1>2, <1>3, TypeCorrect, PTL DEF Spec

-----------------------------------------------------------------------------
(* The two collectors. *)

(* Where the pointer was written, the index is the plan. *)
CommittedServesPlan == \A b \in job.committed : index[b][job.ch] = job.doc

(* The pointers that a job has written stay as it wrote them. *)
LEMMA CommittedServesStep ==
    ASSUME TypeOK, JobShape, CommittedServesPlan, [Next]_vars
    PROVE  CommittedServesPlan'
<1>1. ASSUME NEW x \in Builds, NEW T \in TargetSets, NEW source \in T, BeginPublish(x, T, source)
      PROVE  CommittedServesPlan'
    BY <1>1, PublishPlan DEF CommittedServesPlan
<1>2. ASSUME NEW v \in Versions, NEW T \in TargetSets, BeginUnpublish(v, T)
      PROVE  CommittedServesPlan'
    BY <1>2, UnpublishPlan DEF CommittedServesPlan
<1>3. ASSUME NEW b \in Backends, JobStep(b)
      PROVE  CommittedServesPlan'
    <2>0. job.ch \in Channels /\ job.committed \subseteq Backends /\ job.doc \in Indexes
        BY DEF TypeOK, Jobs
    <2>1. /\ job'.ch = job.ch /\ job'.doc = job.doc
          /\ \/ job'.committed = job.committed
             \/ PutIndex(b) /\ job'.committed = job.committed \cup {b}
        BY <1>3, JobEffect
    <2>2. ASSUME NEW c \in job.committed
          PROVE  index'[c][job.ch] = job.doc
        <3>1. index[c][job.ch] = job.doc /\ c \in Backends
            BY <2>0 DEF CommittedServesPlan
        <3> QED BY <2>0, <3>1, IndexFrame
    <2>3. ASSUME PutIndex(b)
          PROVE  index'[b][job.ch] = job.doc
        <3>1. index' = [index EXCEPT ![b][job.ch] = job.doc]
            BY <2>3 DEF PutIndex, StoredIndex
        <3> QED BY <2>0, <3>1, UpdateEntry DEF TypeOK
    <2> QED BY <2>1, <2>2, <2>3 DEF CommittedServesPlan
<1>4. CASE job' = Idle
    BY <1>4 DEF CommittedServesPlan, Idle
<1>5. CASE UNCHANGED <<job, index>>
    BY <1>5 DEF CommittedServesPlan
<1> QED BY <1>1, <1>2, <1>3, <1>4, <1>5, OtherSteps

(* The steps that take blobs away. *)
LEMMA BlobsTaken ==
    ASSUME TypeOK, [Next]_vars, NEW b \in Backends, NEW blob \in cas[b], blob \notin cas'[b]
    PROVE  SweepCAS(b) \/ (b \in GCBackends /\ GCSweep(b))
<1>1. ASSUME NEW c \in Backends, PutArtifact(c) \/ ArtifactFails(c)
      PROVE  FALSE
    BY <1>1 DEF PutArtifact, ArtifactFails, StoredBlob, TypeOK
<1>2. ASSUME NEW c \in Backends, JobStep(c), ~(PutArtifact(c) \/ ArtifactFails(c)), ~SweepCAS(c)
      PROVE  FALSE
    BY <1>2 DEF JobStep, PutManifest, ManifestFails, PutIndex, IndexFails, DeleteRelease,
                WriteWeb, store
<1>3. ASSUME NEW c \in Backends, SweepCAS(c)
      PROVE  c = b
    BY <1>3 DEF SweepCAS, TypeOK
<1>4. ASSUME NEW c \in Backends, NEW x \in Builds, UploadBlob(c, x)
      PROVE  FALSE
    BY <1>4 DEF UploadBlob, TypeOK
<1>5. ASSUME NEW c \in GCBackends, GCScan(c)
      PROVE  FALSE
    BY <1>5 DEF GCScan, store
<1>6. ASSUME NEW c \in GCBackends, GCSweep(c)
      PROVE  c = b
    BY <1>6 DEF GCSweep, TypeOK
<1>7. ASSUME \/ \E x \in Builds, T \in TargetSets : \E source \in T : BeginPublish(x, T, source)
             \/ \E v \in Versions, T \in TargetSets : BeginUnpublish(v, T)
             \/ Reply \/ Crash \/ UNCHANGED vars
      PROVE  FALSE
    BY <1>7 DEF BeginPublish, BeginUnpublish, Reply, Crash, store, vars
<1>8. CASE \E c \in Backends : JobStep(c)
    BY <1>1, <1>2, <1>3, <1>8
<1> QED BY <1>4, <1>5, <1>6, <1>7, <1>8 DEF Next

(* sweepOrphanCAS after a publish: as long as every document can be read, no blob goes
   that a release needs whose manifest is in place and that an index of the backend
   names, on whatever channel, whatever shares it, and whatever was backfilled. *)
THEOREM SweepSparesNamed ==
    ASSUME ~ReadsMayFail
    PROVE  Spec => SweepKeepsNamed
<1> DEFINE Spared == \A b \in Backends : gc'[b] = gc[b] =>
          \A blob \in cas[b] \ cas'[b], ch \in Channels :
              \A n \in index[b][ch].nodes : Served(n, b) => Blob[n.build] # blob
<1>1. Init => CommittedServesPlan
    BY DEF Init, CommittedServesPlan, Idle
<1>2. ASSUME TypeOK, JobShape, CommittedServesPlan, [Next]_vars
      PROVE  Spared
    <2> SUFFICES ASSUME NEW b \in Backends, gc'[b] = gc[b],
                        NEW ch \in Channels, NEW n \in index[b][ch].nodes, Served(n, b),
                        Blob[n.build] \in cas[b], Blob[n.build] \notin cas'[b]
                 PROVE  FALSE
        OBVIOUS
    <2>1. SweepCAS(b)
        <3>1. ~GCSweep(b)
            BY <1>2 DEF GCSweep, TypeOK
        <3> QED BY <1>2, <3>1, BlobsTaken
    <2> DEFINE others == UNION {index[b][c].nodes : c \in Channels \ {job.ch}}
               live == {Blob[job.node.build]}
                         \cup NamedBlobs(b, VersionsOf(job.doc.nodes \cup others))
    <2>2. PICK deleted : /\ deleted \cap live = {}
                         /\ cas' = [cas EXCEPT ![b] = cas[b] \ deleted]
        <3>1. PICK noChannel \in {{}}, noVersion \in {{}} :
                  LET rest == UNION {index[b][c].nodes :
                                         c \in Channels \ ({job.ch} \cup noChannel)}
                      kept == {Blob[job.node.build]}
                                \cup NamedBlobs(b, VersionsOf(job.doc.nodes \cup rest)
                                                       \ noVersion)
                      dropped == NamedBlobs(b, VersionsOf(job.pruned) \ noVersion)
                  IN  \E deleted \in SUBSET (dropped \ kept) :
                          cas' = [cas EXCEPT ![b] = @ \ deleted]
            BY <2>1 DEF SweepCAS
        <3>2. noChannel = {} /\ noVersion = {}
            BY <3>1
        <3>3. /\ Channels \ ({job.ch} \cup {}) = Channels \ {job.ch}
              /\ VersionsOf(job.doc.nodes \cup others) \ {}
                     = VersionsOf(job.doc.nodes \cup others)
            OBVIOUS
        <3>4. \E deleted \in SUBSET (NamedBlobs(b, VersionsOf(job.pruned) \ {}) \ live) :
                  cas' = [cas EXCEPT ![b] = @ \ deleted]
            BY <3>1, <3>2, <3>3
        <3> QED BY <3>4
    <2>3. n \in job.doc.nodes \cup others
        <3>1. job.phase = "sweep" /\ b \in job.committed
            BY <1>2, <2>1 DEF SweepCAS, At, JobShape, WellFormed
        <3>2. index[b][job.ch] = job.doc
            BY <1>2, <3>1 DEF CommittedServesPlan
        <3> QED BY <3>2
    <2>4. n \in Nodes /\ Version[n.build] \in Versions /\ n # None
        <3>1. n \in Nodes /\ Version[n.build] \in Versions
            BY <1>2, BuildsAssumption DEF TypeOK, Indexes, Nodes
        <3> QED BY <3>1, NoneAssumption
    <2>5. Blob[n.build] \in live
        <3> DEFINE versions == VersionsOf(job.doc.nodes \cup others)
        <3>1. Version[n.build] \in versions
            BY <2>3 DEF VersionsOf
        <3>2. manifest[b][Version[n.build]] = n
            BY DEF Served
        <3> HIDE DEF versions
        <3>3. Blob[n.build] \in NamedBlobs(b, versions)
            BY <2>4, <3>1, <3>2 DEF NamedBlobs
        <3> QED BY <3>3 DEF versions
    <2> HIDE DEF live
    <2>6. Blob[n.build] \in cas'[b]
        BY <1>2, <2>2, <2>5 DEF TypeOK
    <2> QED BY <2>6
<1>3. TypeOK /\ JobShape /\ CommittedServesPlan /\ [Next]_vars
          => CommittedServesPlan' /\ [Spared]_vars
    BY <1>2, CommittedServesStep
<1> QED BY <1>1, <1>3, TypeCorrect, PTL DEF Spec, SweepKeepsNamed

-----------------------------------------------------------------------------
(* The store's collector. *)

(* Nodes are stamped with the attempt that made them, and the release of a job
   that is still uploading was never listed and never marked. *)
NodesAreStamped ==
    /\ \A b \in Backends, ch \in Channels : \A n \in index[b][ch].nodes : n.att <= att
    /\ \A b \in Backends : gc[b] # None => \A n \in gc[b].seen : n.att <= att
    /\ job.kind = "publish" => job.node.att <= att

NodeIsNew ==
    job.phase \in {"artifacts", "manifest"} =>
        \A b \in Backends :
            /\ \A ch \in Channels : job.node \notin index[b][ch].nodes
            /\ gc[b] # None => job.node \notin gc[b].seen

(* What a round has marked covers what it has seen. *)
MarksCover ==
    \A b \in Backends : gc[b] # None =>
        /\ VersionsOf(gc[b].seen) \subseteq gc[b].manifests
        /\ VersionsOf(gc[b].seen) \cup VersionsOf(gc[b].linked) \subseteq gc[b].artifacts
        /\ \A n \in gc[b].seen :
              manifest[b][Version[n.build]] = n => Blob[n.build] \in gc[b].blobs

CollectorInv == NodesAreStamped /\ NodeIsNew /\ MarksCover

(* A round is left alone, begins, or ends. *)
LEMMA RoundFrame ==
    ASSUME TypeOK, [Next]_vars, NEW b \in Backends
    PROVE  \/ gc'[b] = gc[b]
           \/ GCScan(b)
           \/ GCSweep(b) /\ gc'[b] = None
<1>1. ASSUME NEW c \in GCBackends, GCScan(c), c # b
      PROVE  gc'[b] = gc[b]
    BY <1>1 DEF GCScan, TypeOK
<1>2. ASSUME NEW c \in GCBackends, GCSweep(c), c # b
      PROVE  gc'[b] = gc[b]
    BY <1>2 DEF GCSweep, TypeOK
<1>3. ASSUME GCSweep(b)
      PROVE  gc'[b] = None
    BY <1>3 DEF GCSweep, TypeOK
<1>4. ASSUME NEW c \in Backends, JobStep(c)
      PROVE  gc' = gc
    BY <1>4 DEF JobStep, PutArtifact, ArtifactFails, PutManifest, ManifestFails, PutIndex,
                IndexFails, DeleteRelease, WriteWeb, SweepCAS
<1>5. ASSUME \/ \E x \in Builds, T \in TargetSets : \E source \in T : BeginPublish(x, T, source)
             \/ \E v \in Versions, T \in TargetSets : BeginUnpublish(v, T)
             \/ Reply \/ Crash
             \/ \E c \in Backends, x \in Builds : UploadBlob(c, x)
             \/ UNCHANGED vars
      PROVE  gc' = gc
    BY <1>5 DEF BeginPublish, BeginUnpublish, Reply, Crash, UploadBlob, vars
<1> QED BY <1>1, <1>2, <1>3, <1>4, <1>5 DEF Next

(* A key holds the manifest it held, none, or the one of the job at hand. *)
LEMMA ManifestFrame ==
    ASSUME TypeOK, JobShape, [Next]_vars, NEW b \in Backends, NEW v \in Versions
    PROVE  \/ manifest'[b][v] \in {manifest[b][v], None}
           \/ job.phase = "manifest" /\ manifest'[b][v] = job.node
<1>1. ASSUME NEW c \in Backends, PutManifest(c) \/ ManifestFails(c)
      PROVE  \/ manifest'[b][v] = manifest[b][v]
             \/ job.phase = "manifest" /\ manifest'[b][v] = job.node
    <2>1. job.phase = "manifest" /\ job.node \in Nodes /\ Version[job.node.build] \in Versions
        BY <1>1, BuildsAssumption
           DEF PutManifest, ManifestFails, At, JobShape, WellFormed, Nodes
    <2>2. manifest' = manifest \/ manifest' = StoredManifest(c)
        BY <1>1 DEF PutManifest, ManifestFails
    <2>3. /\ StoredManifest(c)[c][Version[job.node.build]] = job.node
          /\ \A x \in Backends, y \in Versions :
                x # c \/ y # Version[job.node.build] => StoredManifest(c)[x][y] = manifest[x][y]
        BY <2>1, UpdateEntry DEF StoredManifest, TypeOK
    <2> QED BY <2>1, <2>2, <2>3
<1>2. ASSUME NEW c \in Backends, JobStep(c), ~(PutManifest(c) \/ ManifestFails(c))
      PROVE  manifest' = manifest
    BY <1>2 DEF JobStep, PutArtifact, ArtifactFails, PutIndex, IndexFails, DeleteRelease,
                WriteWeb, SweepCAS, store
<1>3. ASSUME NEW c \in GCBackends, GCScan(c) \/ GCSweep(c)
      PROVE  manifest'[b][v] \in {manifest[b][v], None}
    <2>1. CASE GCScan(c) \/ b # c
        BY <1>3, <2>1 DEF GCScan, GCSweep, store, TypeOK
    <2>2. CASE GCSweep(b)
        <3>1. manifest'[b] = [w \in Versions |-> IF w \in gc[b].manifests
                                                 THEN manifest[b][w] ELSE None]
            BY <2>2 DEF GCSweep, TypeOK
        <3> QED BY <3>1
    <2> QED BY <1>3, <2>1, <2>2
<1>4. ASSUME \/ \E x \in Builds, T \in TargetSets : \E source \in T : BeginPublish(x, T, source)
             \/ \E u \in Versions, T \in TargetSets : BeginUnpublish(u, T)
             \/ Reply \/ Crash
             \/ \E c \in Backends, x \in Builds : UploadBlob(c, x)
             \/ UNCHANGED vars
      PROVE  manifest' = manifest
    BY <1>4 DEF BeginPublish, BeginUnpublish, Reply, Crash, UploadBlob, store, vars
<1> QED BY <1>1, <1>2, <1>3, <1>4 DEF Next

(* A publish that still uploads does so for the release it began with. *)
LEMMA AttemptFrame ==
    ASSUME TypeOK, JobShape, [Next]_vars
    PROVE  \/ /\ att' = att + 1 /\ UNCHANGED <<store, gc>>
              /\ job'.kind = "publish" => job'.node.att = att'
           \/ /\ att' = att
              /\ job'.kind = "publish" => job.kind = "publish" /\ job'.node = job.node
              /\ job'.phase \in {"artifacts", "manifest"} =>
                    job.phase \in {"artifacts", "manifest"} /\ job'.node = job.node
<1>1. ASSUME NEW x \in Builds, NEW T \in TargetSets, NEW source \in T, BeginPublish(x, T, source)
      PROVE  /\ att' = att + 1 /\ UNCHANGED <<store, gc>>
             /\ job'.node.att = att'
    <2>1. job'.node = [build |-> x, att |-> att + 1, urls |-> T]
        BY <1>1, PublishPlan
    <2> QED BY <1>1, <2>1 DEF BeginPublish
<1>2. ASSUME NEW v \in Versions, NEW T \in TargetSets, BeginUnpublish(v, T)
      PROVE  /\ att' = att + 1 /\ UNCHANGED <<store, gc>>
             /\ job'.kind = "unpublish"
    BY <1>2, UnpublishPlan DEF BeginUnpublish
<1>3. ASSUME NEW b \in Backends, JobStep(b)
      PROVE  /\ att' = att
             /\ job'.kind = job.kind /\ job'.node = job.node
             /\ job'.phase \in {"artifacts", "manifest"} =>
                   job.phase \in {"artifacts", "manifest"}
    <2>1. att' = att
        BY <1>3 DEF JobStep, PutArtifact, ArtifactFails, PutManifest, ManifestFails, PutIndex,
                    IndexFails, DeleteRelease, WriteWeb, SweepCAS
    <2> QED BY <1>3, <2>1, JobEffect
<1>4. ASSUME Reply \/ Crash
      PROVE  att' = att /\ job' = Idle
    BY <1>4 DEF Reply, Crash
<1>5. ASSUME \/ \E c \in Backends, x \in Builds : UploadBlob(c, x)
             \/ \E c \in GCBackends : GCScan(c) \/ GCSweep(c)
             \/ UNCHANGED vars
      PROVE  att' = att /\ job' = job
    BY <1>5 DEF UploadBlob, GCScan, GCSweep, vars
<1>6. CASE att' = att /\ job' = Idle
    BY <1>6 DEF Idle
<1> QED BY <1>1, <1>2, <1>3, <1>4, <1>5, <1>6 DEF Next

(* The stamps stay behind the count of attempts. *)
LEMMA StampStep ==
    ASSUME TypeOK, JobShape, PlanIsCurrent, NodesAreStamped, [Next]_vars
    PROVE  NodesAreStamped'
<1>0. att \in Int /\ att' \in Int /\ att <= att'
    BY AttemptFrame, ParametersAssumption DEF TypeOK
<1>1. ASSUME NEW b \in Backends, NEW ch \in Channels, NEW n \in index'[b][ch].nodes
      PROVE  n.att <= att'
    <2>1. n \in index[b][ch].nodes \/ (job.kind = "publish" /\ n = job.node)
        BY IndexFrame DEF PlanIsCurrent
    <2>2. n \in Nodes /\ n.att \in Int
        BY <2>1 DEF TypeOK, Indexes, Nodes, JobShape, WellFormed
    <2>3. n.att <= att
        BY <2>1 DEF NodesAreStamped
    <2> QED BY <1>0, <2>2, <2>3
<1>2. ASSUME NEW b \in Backends, gc'[b] # None, NEW n \in gc'[b].seen
      PROVE  n.att <= att'
    <2>1. CASE gc'[b] = gc[b]
        <3>1. n \in gc[b].seen /\ gc[b] # None
            BY <1>2, <2>1
        <3>2. gc[b] \in GCMarks
            BY <3>1 DEF TypeOK
        <3>3. n.att \in Int
            BY <3>1, <3>2 DEF GCMarks, Nodes
        <3> QED BY <1>0, <3>1, <3>3 DEF NodesAreStamped
    <2>2. CASE GCScan(b)
        <3>1. gc'[b].seen = UNION {index[b][ch].nodes : ch \in Channels} /\ att' = att
            BY <2>2 DEF GCScan, TypeOK
        <3> QED BY <1>2, <3>1 DEF NodesAreStamped
    <2> QED BY <1>2, <2>1, <2>2, RoundFrame
<1>3. ASSUME job'.kind = "publish"
      PROVE  job'.node.att <= att'
    <2>1. CASE job'.node.att = att'
        BY <1>0, <2>1
    <2>2. CASE att' = att /\ job.kind = "publish" /\ job'.node = job.node
        BY <2>2 DEF NodesAreStamped
    <2> QED BY <1>3, <2>1, <2>2, AttemptFrame
<1> QED BY <1>1, <1>2, <1>3 DEF NodesAreStamped

(* A release that is still uploading stays unlisted and unmarked. *)
LEMMA NewStep ==
    ASSUME TypeOK, JobShape, NodesAreStamped, NodeIsNew, [Next]_vars
    PROVE  NodeIsNew'
<1> SUFFICES ASSUME job'.phase \in {"artifacts", "manifest"}, NEW b \in Backends
             PROVE  /\ \A ch \in Channels : job'.node \notin index'[b][ch].nodes
                    /\ gc'[b] # None => job'.node \notin gc'[b].seen
    BY DEF NodeIsNew
<1>1. CASE att' = att + 1 /\ UNCHANGED <<store, gc>>
    <2>1. job'.kind = "publish"
        BY TypeStep, ShapeStep DEF JobShape, WellFormed
    <2>2. job'.node.att = att + 1
        BY <1>1, <2>1, AttemptFrame DEF TypeOK
    <2>3. ~(job'.node.att <= att)
        BY <2>2 DEF TypeOK
    <2> QED BY <1>1, <2>3 DEF NodesAreStamped, store
<1>2. CASE job.phase \in {"artifacts", "manifest"} /\ job'.node = job.node
    <2>1. \A ch \in Channels : index'[b][ch] = index[b][ch]
        BY <1>2, IndexFrame
    <2>2. \A ch \in Channels : job.node \notin index[b][ch].nodes
        BY <1>2 DEF NodeIsNew
    <2>3. CASE gc'[b] = gc[b]
        BY <1>2, <2>1, <2>2, <2>3 DEF NodeIsNew
    <2>4. CASE GCScan(b)
        <3>1. gc'[b].seen = UNION {index[b][ch].nodes : ch \in Channels}
            BY <2>4 DEF GCScan, TypeOK
        <3> QED BY <1>2, <2>1, <2>2, <3>1
    <2>5. CASE gc'[b] = None
        BY <1>2, <2>1, <2>2, <2>5
    <2> QED BY <2>3, <2>4, <2>5, RoundFrame
<1> QED BY <1>1, <1>2, AttemptFrame

(* What a round marks when it begins stays enough: no manifest it has seen comes
   back after it was replaced. *)
LEMMA MarksStep ==
    ASSUME TypeOK, JobShape, NodeIsNew, MarksCover, [Next]_vars
    PROVE  MarksCover'
<1> SUFFICES ASSUME NEW b \in Backends, gc'[b] # None
             PROVE  /\ VersionsOf(gc'[b].seen) \subseteq gc'[b].manifests
                    /\ VersionsOf(gc'[b].seen) \cup VersionsOf(gc'[b].linked)
                           \subseteq gc'[b].artifacts
                    /\ \A n \in gc'[b].seen :
                          manifest'[b][Version[n.build]] = n => Blob[n.build] \in gc'[b].blobs
    BY DEF MarksCover
<1>1. CASE gc'[b] = gc[b]
    <2>1. gc[b] # None /\ gc[b] \in GCMarks
        BY <1>1 DEF TypeOK
    <2>2. ASSUME NEW n \in gc[b].seen, manifest'[b][Version[n.build]] = n
          PROVE  Blob[n.build] \in gc[b].blobs
        <3>1. n \in Nodes /\ Version[n.build] \in Versions
            BY <2>1, BuildsAssumption DEF GCMarks, Nodes
        <3>2. n # None
            BY <3>1, NoneAssumption
        <3>3. job.phase = "manifest" => n # job.node
            BY <2>1, <2>2 DEF NodeIsNew
        <3>4. manifest[b][Version[n.build]] = n
            BY <2>2, <3>1, <3>2, <3>3, ManifestFrame
        <3> QED BY <2>1, <3>4 DEF MarksCover
    <2> QED BY <1>1, <2>1, <2>2 DEF MarksCover
<1>2. CASE GCScan(b)
    <2> DEFINE nodes    == UNION {index[b][ch].nodes : ch \in Channels}
               linked   == {latest[b][ch] : ch \in Channels} \ {None}
               versions == VersionsOf(nodes)
    <2>1. /\ gc'[b] = [manifests |-> versions, artifacts |-> versions \cup VersionsOf(linked),
                       blobs |-> NamedBlobs(b, versions), seen |-> nodes, linked |-> linked]
          /\ manifest' = manifest
        BY <1>2 DEF GCScan, TypeOK, store
    <2>2. ASSUME NEW n \in nodes, manifest[b][Version[n.build]] = n
          PROVE  Blob[n.build] \in NamedBlobs(b, versions)
        <3>1. n \in Nodes
            BY DEF TypeOK, Indexes
        <3>2. n # None /\ Version[n.build] \in versions
            BY <3>1, NoneAssumption DEF VersionsOf
        <3> HIDE DEF versions
        <3> QED BY <2>2, <3>2 DEF NamedBlobs
    <2> HIDE DEF nodes, linked, versions
    <2>3. /\ gc'[b].manifests = versions /\ gc'[b].seen = nodes /\ gc'[b].linked = linked
          /\ gc'[b].artifacts = versions \cup VersionsOf(linked)
          /\ gc'[b].blobs = NamedBlobs(b, versions)
        BY <2>1
    <2>4. VersionsOf(nodes) = versions
        BY DEF versions
    <2> QED BY <2>1, <2>2, <2>3, <2>4
<1> QED BY <1>1, <1>2, RoundFrame

(* The end of a round takes nothing that its marks cover. *)
LEMMA RoundSpares ==
    ASSUME TypeOK, MarksCover, [Next]_vars, NEW b \in Backends, gc[b] # None, gc'[b] = None
    PROVE  /\ \A ch \in Channels : \A n \in index[b][ch].nodes \cap gc[b].seen :
                 /\ manifest'[b][Version[n.build]] = manifest[b][Version[n.build]]
                 /\ artifact'[b][Version[n.build]] = artifact[b][Version[n.build]]
                 /\ Blob[n.build] \in cas[b] /\ Served(n, b) => Blob[n.build] \in cas'[b]
           /\ \A ch \in Channels : latest[b][ch] \in gc[b].linked =>
                 artifact'[b][Version[latest[b][ch].build]]
                     = artifact[b][Version[latest[b][ch].build]]
<1>0. gc[b] \in GCMarks
    BY DEF TypeOK
<1>1. GCSweep(b)
    <2>1. ~GCScan(b)
        BY DEF GCScan
    <2> QED BY <2>1, RoundFrame
<1>2. PICK expired \in SUBSET (cas[b] \ gc[b].blobs) : cas' = [cas EXCEPT ![b] = @ \ expired]
    BY <1>1 DEF GCSweep
<1>3. cas'[b] = cas[b] \ expired
    BY <1>2 DEF TypeOK
<1>4. ASSUME NEW v \in Versions
      PROVE  /\ v \in gc[b].manifests => manifest'[b][v] = manifest[b][v]
             /\ v \in gc[b].artifacts => artifact'[b][v] = artifact[b][v]
    BY <1>1 DEF GCSweep, TypeOK
<1>5. ASSUME NEW ch \in Channels, NEW n \in index[b][ch].nodes \cap gc[b].seen
      PROVE  /\ manifest'[b][Version[n.build]] = manifest[b][Version[n.build]]
             /\ artifact'[b][Version[n.build]] = artifact[b][Version[n.build]]
             /\ Blob[n.build] \in cas[b] /\ Served(n, b) => Blob[n.build] \in cas'[b]
    <2>1. Version[n.build] \in Versions
        BY <1>0, BuildsAssumption DEF GCMarks, Nodes
    <2>2. Version[n.build] \in gc[b].manifests /\ Version[n.build] \in gc[b].artifacts
        BY DEF MarksCover, VersionsOf
    <2>3. Served(n, b) => Blob[n.build] \in gc[b].blobs
        BY DEF MarksCover, Served
    <2> QED BY <1>3, <1>4, <2>1, <2>2, <2>3
<1>6. ASSUME NEW ch \in Channels, latest[b][ch] \in gc[b].linked
      PROVE  artifact'[b][Version[latest[b][ch].build]]
                 = artifact[b][Version[latest[b][ch].build]]
    <2>1. Version[latest[b][ch].build] \in Versions
        BY <1>0, <1>6, BuildsAssumption DEF GCMarks, Nodes
    <2>2. Version[latest[b][ch].build] \in gc[b].artifacts
        BY <1>6 DEF MarksCover, VersionsOf
    <2> QED BY <1>4, <2>1, <2>2
<1> QED BY <1>5, <1>6

(* gc.go: a round acts on marks it made earlier, beside publishes, unpublishes and
   uploads.  What was listed when it began and still is keeps its manifest, its
   artifact and its blob, and what the latest links name keeps its artifact,
   whatever happened in between and however often a version was published anew. *)
THEOREM CollectorSparesSettled == Spec => CollectorKeepsSettled
<1> DEFINE Spares == \A b \in Backends : gc[b] # None /\ gc'[b] = None =>
          /\ \A ch \in Channels : \A n \in index[b][ch].nodes \cap gc[b].seen :
                 /\ manifest'[b][Version[n.build]] = manifest[b][Version[n.build]]
                 /\ artifact'[b][Version[n.build]] = artifact[b][Version[n.build]]
                 /\ Blob[n.build] \in cas[b] /\ Served(n, b) => Blob[n.build] \in cas'[b]
          /\ \A ch \in Channels : latest[b][ch] \in gc[b].linked =>
                 artifact'[b][Version[latest[b][ch].build]]
                     = artifact[b][Version[latest[b][ch].build]]
<1>1. Init => CollectorInv
    BY DEF Init, CollectorInv, NodesAreStamped, NodeIsNew, MarksCover, Idle, NoIndex
<1>2. TypeOK /\ JobShape /\ PlanIsCurrent /\ CollectorInv /\ [Next]_vars
          => CollectorInv' /\ Spares
    BY StampStep, NewStep, MarksStep, RoundSpares DEF CollectorInv
<1>3. TypeOK /\ JobShape /\ PlanIsCurrent /\ CollectorInv /\ [Next]_vars
          => CollectorInv' /\ [Spares]_vars
    BY <1>2
<1> QED BY <1>1, <1>3, PlanInvariant, PTL DEF Spec, CollectorKeepsSettled

=============================================================================

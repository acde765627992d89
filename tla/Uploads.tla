-------------------------------- MODULE Uploads --------------------------------
(***************************************************************************)
(* How the release of a CI job gets to the agent: it is built and staged,   *)
(* and goes there as one archive in chunks, or its blobs go to the store    *)
(* and a thin archive after them.  The staged tree is immutable, and the    *)
(* two ways share nothing but the server, so that a behaviour follows one   *)
(* of the three.                                                            *)
(***************************************************************************)
EXTENDS Integers, FiniteSets

CONSTANTS
    Clients, Parts, Ids, MaxFaults, None,
    VersionOf, Targets, MaxCode, MaxBuilds, Strict,       \* build
    Backfill, Contents, Selectors, Partial,
    Archive, Archives, TTL, MaxNow, LastFault, Totals,    \* chunks
    Blobs, Large, Needs, Workers, Attempts,               \* blobs
    MinPartSize, MaxPartSize, MaxParts                    \* both

ASSUME UploadsAssumption ==
    /\ Archive \in [Clients -> Archives]
    /\ IsFiniteSet(Ids) /\ TTL \in Nat /\ LastFault \in Nat
    /\ Large \subseteq Blobs /\ Needs \in [Clients -> SUBSET Blobs]
    /\ Workers \in Nat \ {0} /\ Attempts \in Nat \ {0}
    /\ Parts # {} /\ {"whole", "complete"} \cap Parts = {}
    /\ Totals \subseteq Nat \ {0}     \* an empty archive is refused, an empty blob is whole
    /\ MinPartSize \in Nat \ {0} /\ MaxParts \in Nat \ {0}
    /\ MaxPartSize \in Nat /\ MinPartSize <= MaxPartSize
ASSUME NoneAssumption ==
    /\ None \notin Ids
    /\ None \notin {"right", "wrong"}
    /\ None \notin [archive : Archives, status : {"open", "completing"}, created : Nat,
                    parts : [Parts -> {"right", "wrong"} \cup {None}]]
    /\ None \notin [blob : Blobs, parts : SUBSET Parts]

VARIABLES
    way,
    upload, lockOf, client, aborting, staged, now, faults, cut, installs,
    object, old, session, job, lost, swept, forsaken,
    counter, shelf, out, producers, built, declared, bundle, tree, run, released, mishaps

-----------------------------------------------------------------------------
(* How an upload is cut into parts: the staged uploads of the agent, the multipart
   uploads of blobs, and the ranges that the client reads from its file. *)

CeilDiv(a, b) == (a + b - 1) \div b
AtLeast(a, b) == IF a < b THEN b ELSE a
AtMost(a, b)  == IF a > b THEN b ELSE a

(* The part size of a staged upload, or 0 when it is refused. *)
resolvePartSize(requested, total) ==
    LET size == AtMost(AtMost(AtLeast(requested, MinPartSize), MaxPartSize), total)
        wider == CeilDiv(total, MaxParts)
    IN  IF CeilDiv(total, size) <= MaxParts THEN size
        ELSE IF wider > MaxPartSize THEN 0 ELSE wider

partCount(size, total) == CeilDiv(total, size)

partLength_Whole(part, size, total) == size   \* Mutant: the last part is not shorter

partLength(part, size, total) ==
    IF part = partCount(size, total) - 1 THEN total - size * part ELSE size

(* The part size of a blob's multipart upload; 0 is one single request and
   -1 a refusal. *)
casMultipartPlan(requested, total) ==
    LET size == AtMost(AtLeast(requested, MinPartSize), MaxPartSize)
        wider == AtLeast(CeilDiv(total, MaxParts), MinPartSize)
    IN  IF total <= size THEN 0
        ELSE IF CeilDiv(total, size) <= MaxParts THEN size
        ELSE IF wider > MaxPartSize THEN -1
        ELSE IF total <= wider THEN 0 ELSE wider

(* A size cuts total bytes well: no part is empty or longer than allowed,
   parts are consecutive, end where the object ends, and are few enough. *)
CutsWell(size, total) ==
    /\ size \in 1 .. MaxPartSize
    /\ partCount(size, total) \in 1 .. MaxParts
    /\ \A part \in 0 .. partCount(size, total) - 1 :
           /\ partLength(part, size, total) \in 1 .. size
           /\ part = partCount(size, total) - 1 =>
                  size * part + partLength(part, size, total) = total

(* An upload is refused only when no allowed size would do. *)
CutsIfPossible(size, total) ==
    size \in 1 .. MaxPartSize \/ total > MaxParts * MaxPartSize

-----------------------------------------------------------------------------
Chunks == INSTANCE StagedUpload
Cas    == INSTANCE CasUpload WITH faults <- lost
Build  == INSTANCE ReleaseBuild

ASSUME BuildAssumption ==
    /\ MaxCode \in Nat /\ MaxBuilds \in Nat
    /\ None \notin Build!Declarations \cup Build!Trees \cup {Build!V1, Build!V2}
    /\ Build!Merged \notin Targets

chunkVars == <<upload, lockOf, client, aborting, staged, now, faults, cut, installs>>
blobVars  == <<object, old, session, job, lost, swept, forsaken>>
buildVars == <<counter, shelf, out, producers, built, declared, bundle, tree, run,
               released, mishaps>>
vars == <<way, chunkVars, blobVars, buildVars>>

NoBlobs ==
    /\ object = {} /\ old = {} /\ session = None /\ job = None
    /\ lost = 0 /\ swept = {} /\ forsaken = {}

Init ==
    /\ way \in {"build", "chunks", "blobs"}
    /\ Chunks!Init /\ Build!BuildInit
    /\ IF way = "blobs" THEN Cas!CasInit ELSE NoBlobs

UploadChunks ==
    /\ way = "chunks"
    /\ Chunks!Next
    /\ UNCHANGED <<way, blobVars, buildVars>>

UploadBlobs ==
    /\ way = "blobs"
    /\ Cas!CasNext
    /\ UNCHANGED <<way, chunkVars, buildVars>>

BuildRelease ==
    /\ way = "build"
    /\ Build!BuildNext
    /\ UNCHANGED <<way, chunkVars, blobVars>>

Next == UploadChunks \/ UploadBlobs \/ BuildRelease

Spec == Init /\ [][Next]_vars

Step(c) ==
    \/ way = "chunks" /\ Chunks!Step(c) /\ UNCHANGED <<way, blobVars, buildVars>>
    \/ way = "blobs" /\ Cas!JobStep(c) /\ UNCHANGED <<way, chunkVars, buildVars>>

AbortOrTick ==
    /\ way = "chunks" /\ (Chunks!Abort \/ Chunks!Tick)
    /\ UNCHANGED <<way, blobVars, buildVars>>

(* Jobs are run again until they succeed, handlers end, and time passes. *)
FairSpec == Spec /\ (\A c \in Clients : WF_vars(Step(c))) /\ WF_vars(AbortOrTick)

-----------------------------------------------------------------------------
(* Properties: those of the modules. *)

(* Both ways to cut an object into parts, for every size: the parts cover it
   exactly, and no size is refused that could be cut. *)
CutsAll ==
    \A total \in Totals, requested \in Totals :
        LET s == resolvePartSize(requested, total)
            m == casMultipartPlan(requested, total)
        IN  /\ s # 0 => CutsWell(s, total)
            /\ m > 0 => CutsWell(m, total)
            /\ CutsIfPossible(s, total) /\ (m = -1 => CutsIfPossible(0, total))

(* A part that is reported as received is there, an upload is installed at most
   once, and the parts that are asked for cover the archive or the blob, whatever
   its size (handlePutUploadPart, handleCompleteUpload, resolvePartSize,
   casMultipartPlan); and what is uploaded is a build as its producer declared it,
   with a code of its own, for clients that can apply it (producer.Run, Merge, Stage,
   verifyStagedHashes, CheckPublishSelectors). *)
UploadIsWhole ==
    /\ Chunks!ReportedIsThere /\ Chunks!InstalledOnce
    /\ (\E id \in Ids : upload[id].rec # None) => CutsAll
    /\ Build!ReleaseIsItsBuild /\ Build!CodeNamesOneRelease /\ Build!PayloadsFit

(* A job whose blobs were uploaded has them all in the store, and one that ended
   leaves no multipart upload open (uploadAll). *)
JobLeavesBlobs == way = "blobs" => Cas!StoredWhenReported /\ Cas!NothingLeftOpen

(* A job that is run again succeeds in the end, in both ways (stagedput.Put,
   casput.Put, agentpublish.Run). *)
RetriesSucceed ==
    \A c \in Clients :
        <>CASE way = "chunks" -> client[c].pc = "done"
            [] way = "blobs"  -> job[c].pc = "published"
            [] way = "build"  -> TRUE
=============================================================================

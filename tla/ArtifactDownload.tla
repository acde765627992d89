--------------------------- MODULE ArtifactDownload ---------------------------
(***************************************************************************)
(* The download of one artifact (internal/sdk/download.go): mirrors in     *)
(* turn, retries, chunks fetched in parallel into a .part file with a      *)
(* .part.meta file that lists those which are in it, or one stream, then   *)
(* the digest of the whole and a rename.  The process may die at any point *)
(* and the call be made again; an attempt that gives up leaves its         *)
(* goroutines behind.                                                      *)
(***************************************************************************)
EXTENDS Naturals, Sequences, FiniteSets

CONSTANTS
    None,
    Mirrors,      \* urls of the artifact
    Honest,       \* mirrors that serve the bytes of the signed digest
    Ranged,       \* mirrors that answer range requests
    Size,         \* chunks of the artifact (DownloadChunkSize)
    Retries, Workers,
    MaxErrors,    \* bound: requests that fail on the way
    MaxCrashes    \* bound: deaths of the process

VARIABLES
    part,       \* destPath.part: the bytes chunk by chunk, or None
    meta,       \* destPath.part.meta, or None
    dest,       \* destPath
    phase,      \* of the call
    urls,       \* mirrors still to be tried, the first is in use
    attempt,
    todo,       \* chunks no goroutine was started for
    listed,     \* Done of the record in memory
    getting,    \* chunks being fetched
    writing,    \* chunk written to the file whose record is not, or None
    failed,     \* errCh holds an error
    late,       \* records that goroutines of abandoned attempts will still write
    resumed,    \* whether the call found something of an earlier process
    errors, crashes

files   == <<part, meta, dest>>
chunked == <<todo, listed, getting, writing, failed>>
bounds  == <<errors, crashes>>
vars    == <<files, phase, urls, attempt, chunked, late, resumed, bounds>>

Chunks == 1 .. Size
url    == Head(urls)

Body(u)  == IF u \in Honest THEN "right" ELSE "wrong"
Whole(f) == f = [i \in Chunks |-> "right"]

(* Every mirror once. *)
Orders == {s \in [1 .. Cardinality(Mirrors) -> Mirrors] : \A m \in Mirrors : \E i \in DOMAIN s : s[i] = m}

DownloadInit ==
    /\ part = None /\ meta = None /\ dest = "absent"
    /\ phase = "called" /\ urls = <<>> /\ attempt = 1
    /\ todo = {} /\ listed = {} /\ getting = {} /\ writing = None /\ failed = FALSE
    /\ late = {} /\ resumed = FALSE
    /\ errors = 0 /\ crashes = 0

-----------------------------------------------------------------------------
(* What was learned of the mirrors orders them (RankURLStrings).  A
   destination that matches is not downloaded again. *)
DownloadArtifact(order) ==
    /\ phase = "called"
    /\ phase' = IF dest = "right" THEN "ok" ELSE "probe"
    /\ urls' = order /\ attempt' = 1
    /\ resumed' = (part # None \/ meta # None)
    /\ UNCHANGED <<files, chunked, late, bounds>>

(* Mutant: only the .part file is removed. *)
RemoveParts_Part == part' = None /\ UNCHANGED meta

(* A failed attempt removes both files; the next one is at the same mirror
   until its retries are used up. *)
RemoveParts == part' = None /\ meta' = None

AttemptFails ==
    /\ RemoveParts
    /\ \/ /\ attempt < Retries
          /\ attempt' = attempt + 1 /\ phase' = "probe"
          /\ UNCHANGED urls
       \/ /\ attempt = Retries
          /\ attempt' = 1 /\ urls' = Tail(urls)
          /\ phase' = IF Len(urls) > 1 THEN "probe" ELSE "failed"
    /\ todo' = {} /\ listed' = {} /\ getting' = {} /\ writing' = None /\ failed' = FALSE
    /\ UNCHANGED <<dest, resumed>>

Padded == [i \in Chunks |-> IF part # None /\ i <= Len(part) THEN part[i] ELSE "hole"]
Known  == IF meta = None THEN {} ELSE meta.done

(* The record of another mirror names no chunk to skip, but stays in the
   list that is written back. *)
StartChunks ==
    /\ phase = "probe" /\ url \in Ranged /\ Size > 1
    /\ phase' = "chunks"
    /\ part' = Padded
    /\ listed' = Known
    /\ todo' = Chunks \ (IF meta # None /\ meta.url = url THEN Known ELSE {})
    /\ UNCHANGED <<meta, dest, urls, attempt, getting, writing, failed, late, resumed, bounds>>

First == CHOOSE c \in todo : \A d \in todo : c <= d
Busy == Cardinality(getting) + (IF writing = None THEN 0 ELSE 1)

Start(c) ==
    /\ phase = "chunks" /\ ~failed
    /\ todo # {} /\ c = First
    /\ Busy < Workers
    /\ todo' = todo \ {c} /\ getting' = getting \cup {c}
    /\ UNCHANGED <<files, phase, urls, attempt, listed, writing, failed, late, resumed, bounds>>

(* A whole chunk is written under the mutex. *)
WriteAt(c) ==
    /\ phase = "chunks" /\ c \in getting /\ writing = None
    /\ getting' = getting \ {c} /\ writing' = c
    /\ part' = [part EXCEPT ![c] = Body(url)]
    /\ UNCHANGED <<meta, dest, phase, urls, attempt, todo, listed, failed, late, resumed, bounds>>

WritePartMeta ==
    /\ phase = "chunks" /\ writing # None
    /\ listed' = listed \cup {writing}
    /\ meta' = [url |-> url, done |-> listed']
    /\ writing' = None
    /\ UNCHANGED <<part, dest, phase, urls, attempt, todo, getting, failed, late, resumed, bounds>>

(* The loop that starts goroutines may have looked for an error before, and
   wait for the place of this one. *)
RangeFails(c) ==
    /\ phase = "chunks" /\ c \in getting
    /\ errors < MaxErrors /\ errors' = errors + 1
    /\ failed' = TRUE
    /\ \/ getting' = getting \ {c} /\ UNCHANGED todo
       \/ /\ Busy = Workers /\ ~failed /\ todo # {}
          /\ getting' = (getting \ {c}) \cup {First} /\ todo' = todo \ {First}
    /\ UNCHANGED <<files, phase, urls, attempt, listed, writing, late, resumed, crashes>>

(* The loop that starts goroutines returns at an error without waiting for
   them: the file is closed under them, but one that has written its chunk
   still writes the record, after it was removed. *)
GiveUp ==
    /\ phase = "chunks" /\ failed /\ todo # {}
    /\ late' = IF writing = None THEN late
               ELSE late \cup {[url |-> url, done |-> listed \cup {writing}]}
    /\ AttemptFails
    /\ UNCHANGED bounds

LateMeta(m) ==
    /\ m \in late
    /\ late' = late \ {m} /\ meta' = m
    /\ UNCHANGED <<part, dest, phase, urls, attempt, chunked, resumed, bounds>>

Wait ==
    /\ phase = "chunks" /\ todo = {} /\ getting = {} /\ writing = None
    /\ \/ ~failed /\ phase' = "verify" /\ UNCHANGED <<files, urls, attempt, chunked, resumed>>
       \/ failed /\ AttemptFails
    /\ UNCHANGED <<late, bounds>>

-----------------------------------------------------------------------------
(* Without ranges, or when the probe fails, one stream is read, from the end
   of a .part file that this mirror began. *)
StreamStart == IF part # None /\ meta # None /\ meta.url = url THEN Len(part) ELSE 0

StartStream ==
    /\ phase = "probe"
    /\ \/ url \notin Ranged /\ UNCHANGED errors
       \/ url \in Ranged /\ errors < MaxErrors /\ errors' = errors + 1
    /\ \/ /\ StreamStart = 0 \/ (StreamStart < Size /\ url \in Ranged)
          /\ phase' = "stream"
          /\ part' = IF StreamStart = 0 THEN <<>> ELSE part
          /\ UNCHANGED <<meta, dest, urls, attempt, chunked, resumed>>
       \/ StreamStart # 0 /\ (StreamStart = Size \/ url \notin Ranged) /\ AttemptFails
    /\ UNCHANGED <<late, crashes>>

Stream ==
    /\ phase = "stream" /\ Len(part) < Size
    /\ part' = Append(part, Body(url))
    /\ UNCHANGED <<meta, dest, phase, urls, attempt, chunked, late, resumed, bounds>>

StreamEnds ==
    /\ phase = "stream" /\ Len(part) = Size
    /\ phase' = "verify"
    /\ meta' = [url |-> url, done |-> {}]
    /\ UNCHANGED <<part, dest, urls, attempt, chunked, late, resumed, bounds>>

StreamFails ==
    /\ phase = "stream"
    /\ errors < MaxErrors /\ errors' = errors + 1
    /\ AttemptFails
    /\ UNCHANGED <<late, crashes>>

-----------------------------------------------------------------------------
(* Size and digest of the complete file. *)
Verify ==
    /\ phase = "verify"
    /\ \/ Whole(part) /\ phase' = "rename" /\ UNCHANGED <<files, urls, attempt, chunked, resumed>>
       \/ ~Whole(part) /\ AttemptFails
    /\ UNCHANGED <<late, bounds>>

Rename ==
    /\ phase = "rename"
    /\ phase' = "ok"
    /\ dest' = IF Whole(part) THEN "right" ELSE "wrong"
    /\ RemoveParts
    /\ UNCHANGED <<urls, attempt, chunked, late, resumed, bounds>>

(* The process dies with its goroutines, and the call is made again. *)
Die ==
    /\ phase \notin {"called", "failed"}
    /\ crashes < MaxCrashes /\ crashes' = crashes + 1
    /\ phase' = "called" /\ urls' = <<>> /\ attempt' = 1
    /\ todo' = {} /\ listed' = {} /\ getting' = {} /\ writing' = None /\ failed' = FALSE
    /\ late' = {}
    /\ UNCHANGED <<files, resumed, errors>>

DownloadNext ==
    \/ \E order \in Orders : DownloadArtifact(order)
    \/ StartChunks \/ WritePartMeta \/ GiveUp \/ Wait
    \/ \E c \in Chunks : Start(c) \/ WriteAt(c) \/ RangeFails(c)
    \/ \E m \in late : LateMeta(m)
    \/ StartStream \/ Stream \/ StreamEnds \/ StreamFails
    \/ Verify \/ Rename \/ Die

DownloadSpec == DownloadInit /\ [][DownloadNext]_vars

-----------------------------------------------------------------------------
DownloadOK ==
    /\ part = None \/ (Len(part) <= Size /\ \A i \in 1 .. Len(part) : part[i] \in {"hole", "right", "wrong"})
    /\ meta = None \/ (meta.url \in Mirrors /\ meta.done \subseteq Chunks)
    /\ dest \in {"absent", "right", "wrong"}
    /\ todo \cup getting \subseteq Chunks /\ listed \subseteq Chunks

(* A download that reports success left the artifact at its place, and one
   honest mirror is enough for success: leftovers of a process that died, and
   records a goroutine of a failed attempt writes too late, cost at most an
   attempt each, so the retries outlive either those or one failed request
   (DownloadArtifact, downloadOne, downloadParallel). *)
EndsWithArtifact ==
    /\ phase = "ok" => dest = "right"
    /\ phase = "failed" => Honest = {} \/ errors > (IF resumed THEN 0 ELSE 1)

=============================================================================

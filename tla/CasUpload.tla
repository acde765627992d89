------------------------------ MODULE CasUpload ------------------------------
(***************************************************************************)
(* How a CI job gets the blobs of a release into the content-addressed     *)
(* area (internal/casput), with the requests that the agent authorizes     *)
(* (cmd/relkit-agent/cas_upload.go) and the object store behind it         *)
(* (internal/backends): one PUT for a small blob, a multipart upload for a *)
(* large one.  Transfers run side by side; the first that fails cancels    *)
(* the others, and every multipart upload that is not complete is aborted. *)
(* Then the thin archive is uploaded and the release is published          *)
(* (internal/agentpublish).  A job that failed is run again.               *)
(*                                                                         *)
(* Abstractions.  A blob is there with its size, or not: nothing compares  *)
(* more.  A PUT either reaches the store or not, and its answer may be     *)
(* lost.  The wait between two attempts is a step.                         *)
(***************************************************************************)
EXTENDS Naturals, FiniteSets

CONSTANTS
    Clients,     \* CI jobs
    Blobs,
    Large,       \* blobs above the part size
    Needs,       \* Needs[c]: the blobs of the release that c publishes
    Parts,
    Ids,         \* identifiers of multipart uploads
    Workers,     \* concurrent transfers of a job
    Attempts,    \* maxUploadAttempts
    MaxFaults,   \* bound: requests that fail, jobs that are killed, sweeps
    None

VARIABLES
    object,      \* blobs of the content-addressed area
    old,         \* those that an old release names, until it is pruned
    session,     \* session[id]: the parts that a multipart upload has, or None
    job,
    faults,
    swept,       \* history: blobs that were swept
    forsaken     \* history: multipart uploads whose job never learnt of them, was
                 \* killed, or could not abort them

casVars == <<object, old, session, job, faults, swept, forsaken>>

At(pc) == [pc |-> pc, left |-> {}, id |-> [b \in Large |-> None], work |-> {},
           flight |-> {}, etags |-> [b \in Large |-> {}], completed |-> {},
           failed |-> FALSE]

CasInit ==
    /\ old \in SUBSET Blobs /\ object = old
    /\ session = [i \in Ids |-> None]
    /\ job = [c \in Clients |-> At("new")]
    /\ faults = 0 /\ swept = {} /\ forsaken = {}

Fault == faults < MaxFaults /\ faults' = faults + 1

Go(c, to) == job' = [job EXCEPT ![c] = to]

IdsOf(j) == {j.id[b] : b \in Large} \ {None}

-----------------------------------------------------------------------------
(* POST cas/credentials. *)

(* The staging tree is verified, and the job asks for all of its blobs. *)
BeginPut(c) ==
    /\ job[c].pc = "new"
    /\ Go(c, [At("asking") EXCEPT !.left = Needs[c]])
    /\ UNCHANGED <<object, old, session, faults, swept, forsaken>>

Available_Open(b) ==   \* Mutant: a multipart upload in progress counts
    b \in object \/ \E i \in Ids : session[i] # None /\ session[i].blob = b

(* blobAlreadyAvailable: its size is that of the staged file. *)
Available(b) == b \in object

Free == {i \in Ids : session[i] = None /\ \A c \in Clients : i \notin IdsOf(job[c])}

Transfer(b, p) == [blob |-> b, part |-> p, try |-> 1]

(* authorizeBlobUpload: nothing for a blob that is there (unless the store
   does not answer), presigned parts for a large one, else one request. *)
AuthorizeBlob(c, b) ==
    LET j == [job[c] EXCEPT !.left = @ \ {b}] IN
    /\ job[c].pc = "asking" /\ b \in job[c].left
    /\ \/ Available(b) /\ Go(c, j) /\ UNCHANGED <<session, faults>>
       \/ /\ Available(b) => Fault
          /\ ~Available(b) => UNCHANGED faults
          /\ IF b \in Large
             THEN \E i \in Free :
                    /\ session' = [session EXCEPT ![i] = [blob |-> b, parts |-> {}]]
                    /\ Go(c, [j EXCEPT !.id[b] = i,
                                       !.work = @ \cup {Transfer(b, p) : p \in Parts}])
             ELSE /\ Go(c, [j EXCEPT !.work = @ \cup {Transfer(b, "whole")}])
                  /\ UNCHANGED session
    /\ UNCHANGED <<object, old, swept, forsaken>>

(* The job reads the answer. *)
Authorized(c) ==
    /\ job[c].pc = "asking" /\ job[c].left = {}
    /\ Go(c, [job[c] EXCEPT !.pc = "upload"])
    /\ UNCHANGED <<object, old, session, faults, swept, forsaken>>

(* One blob is refused, or the answer is lost: the agent aborts none of the
   multipart uploads that it has opened for the others. *)
AuthorizeFails(c) ==
    /\ job[c].pc = "asking" /\ Fault
    /\ forsaken' = forsaken \cup IdsOf(job[c])
    /\ Go(c, At("failed"))
    /\ UNCHANGED <<object, old, session, swept>>

-----------------------------------------------------------------------------
(* uploadAll and its workers. *)

Take(c, t) ==
    LET j == job[c] IN
    /\ j.pc = "upload" /\ t \in j.work /\ ~j.failed
    /\ Cardinality(j.flight) < Workers
    /\ Go(c, [j EXCEPT !.work = @ \ {t}, !.flight = @ \cup {t}])
    /\ UNCHANGED <<object, old, session, faults, swept, forsaken>>

(* What the store has when a PUT reached it. *)
Stored(c, t) ==
    IF t.part = "whole"
    THEN object' = object \cup {t.blob} /\ UNCHANGED session
    ELSE /\ session' = [session EXCEPT ![job[c].id[t.blob]].parts = @ \cup {t.part}]
         /\ UNCHANGED object

Unstored == UNCHANGED <<object, session>>

(* What it has when the upload is completed. *)
Assembled(c, b) ==
    /\ object' = object \cup {b}
    /\ session' = [session EXCEPT ![job[c].id[b]] = None]

(* uploadOnce, uploadPartOnce.  The worker that has the last ETag goes on to
   complete the upload. *)
PutSucceeds(c, t) ==
    LET j == [job[c] EXCEPT !.flight = @ \ {t}]
        k == [j EXCEPT !.etags[t.blob] = @ \cup {t.part}]
    IN
    /\ job[c].pc = "upload" /\ t \in job[c].flight /\ t.part # "complete"
    /\ Stored(c, t)
    /\ Go(c, IF t.part = "whole" THEN j
             ELSE IF k.etags[t.blob] # Parts THEN k
             ELSE [k EXCEPT !.flight = @ \cup {[t EXCEPT !.part = "complete"]}])
    /\ UNCHANGED <<old, faults, swept, forsaken>>

(* No answer, or one that may be tried again, a few times ... *)
PutRetried(c, t) ==
    /\ job[c].pc = "upload" /\ t \in job[c].flight /\ t.part # "complete"
    /\ t.try < Attempts /\ Fault
    /\ Stored(c, t) \/ Unstored
    /\ Go(c, [job[c] EXCEPT !.flight = (@ \ {t}) \cup {[t EXCEPT !.try = @ + 1]}])
    /\ UNCHANGED <<old, swept, forsaken>>

(* ... or an end of it: the context of the other workers is cancelled. *)
Fails(c, t) == Go(c, [job[c] EXCEPT !.flight = @ \ {t}, !.failed = TRUE])

PutFails(c, t) ==
    /\ job[c].pc = "upload" /\ t \in job[c].flight /\ t.part # "complete"
    /\ Fault
    /\ (t.try = Attempts /\ Stored(c, t)) \/ Unstored
    /\ Fails(c, t)
    /\ UNCHANGED <<old, swept, forsaken>>

(* completeBlob. *)
CompleteSucceeds(c, t) ==
    LET j == job[c] IN
    /\ j.pc = "upload" /\ t \in j.flight /\ t.part = "complete" /\ ~j.failed
    /\ Assembled(c, t.blob)
    /\ Go(c, [j EXCEPT !.flight = @ \ {t}, !.completed = @ \cup {t.blob}])
    /\ UNCHANGED <<old, faults, swept, forsaken>>

CompleteFails_Ignored(c, t) ==   \* Mutant: the answer is not looked at
    LET j == job[c] IN
    /\ j.pc = "upload" /\ t \in j.flight /\ t.part = "complete"
    /\ Fault
    /\ Assembled(c, t.blob) \/ Unstored
    /\ Go(c, [j EXCEPT !.flight = @ \ {t}, !.completed = @ \cup {t.blob}])
    /\ UNCHANGED <<old, swept, forsaken>>

CompleteFails(c, t) ==
    /\ job[c].pc = "upload" /\ t \in job[c].flight /\ t.part = "complete"
    /\ Fault
    /\ Assembled(c, t.blob) \/ Unstored
    /\ Fails(c, t)
    /\ UNCHANGED <<old, swept, forsaken>>

(* A request that is under way when another worker fails. *)
Cancelled(c, t) ==
    /\ job[c].pc = "upload" /\ t \in job[c].flight /\ job[c].failed
    /\ \/ IF t.part = "complete" THEN Assembled(c, t.blob) ELSE Stored(c, t)
       \/ Unstored
    /\ Fails(c, t)
    /\ UNCHANGED <<old, faults, swept, forsaken>>

(* All workers are done. *)
UploadEnds_Etags(c) ==   \* Mutant: an upload with all its parts counts as complete
    LET j == job[c] IN
    /\ j.pc = "upload" /\ j.flight = {} /\ (j.work = {} \/ j.failed)
    /\ Go(c, [j EXCEPT !.pc = IF j.failed THEN "abort" ELSE "uploaded",
                       !.left = IF j.failed
                                THEN {b \in Large : j.id[b] # None /\ j.etags[b] # Parts}
                                ELSE {}])
    /\ UNCHANGED <<object, old, session, faults, swept, forsaken>>

UploadEnds(c) ==
    LET j == job[c] IN
    /\ j.pc = "upload" /\ j.flight = {} /\ (j.work = {} \/ j.failed)
    /\ Go(c, [j EXCEPT !.pc = IF j.failed THEN "abort" ELSE "uploaded",
                       !.left = IF j.failed THEN {b \in Large : j.id[b] # None} \ j.completed
                                ELSE {}])
    /\ UNCHANGED <<object, old, session, faults, swept, forsaken>>

(* The deferred abort of one upload; its answer is not looked at.  An upload
   that has been completed after all is not there any more. *)
AbortBlob(c, b) ==
    LET i == job[c].id[b] IN
    /\ job[c].pc = "abort" /\ b \in job[c].left
    /\ \/ session' = [session EXCEPT ![i] = None] /\ UNCHANGED <<faults, forsaken>>
       \/ Fault /\ forsaken' = forsaken \cup {i} /\ UNCHANGED session
    /\ Go(c, [job[c] EXCEPT !.left = @ \ {b}])
    /\ UNCHANGED <<object, old, swept>>

AbortEnds(c) ==
    /\ job[c].pc = "abort" /\ job[c].left = {}
    /\ Go(c, [job[c] EXCEPT !.pc = "failed"])
    /\ UNCHANGED <<object, old, session, faults, swept, forsaken>>

-----------------------------------------------------------------------------
(* What comes after it. *)

(* The thin archive is uploaded and the agent publishes: each blob is looked
   up and copied (PutArtifactCAS), and a missing one ends the publish. *)
Publish(c) ==
    /\ job[c].pc = "uploaded"
    /\ Go(c, IF Needs[c] \subseteq object THEN At("published") ELSE At("failed"))
    /\ UNCHANGED <<object, old, session, faults, swept, forsaken>>

PublishFails(c) ==
    /\ job[c].pc = "uploaded" /\ Fault
    /\ Go(c, At("failed"))
    /\ UNCHANGED <<object, old, session, swept, forsaken>>

Kill(c) ==
    /\ job[c].pc \notin {"new", "failed", "published"} /\ Fault
    /\ forsaken' = forsaken \cup IdsOf(job[c])
    /\ Go(c, At("failed"))
    /\ UNCHANGED <<object, old, session, swept>>

Rerun(c) ==
    /\ job[c].pc = "failed"
    /\ Go(c, At("new"))
    /\ UNCHANGED <<object, old, session, faults, swept, forsaken>>

(* Another publish prunes the old release: the blobs that only it named are
   deleted (sweepOrphanCAS). *)
Sweep(b) ==
    /\ b \in old /\ Fault
    /\ \A c \in Clients : job[c].pc = "published" => b \notin Needs[c]
    /\ old' = old \ {b} /\ object' = object \ {b} /\ swept' = swept \cup {b}
    /\ UNCHANGED <<session, job, forsaken>>

(* What a job does as long as nothing goes wrong around it. *)
JobStep(c) ==
    \/ BeginPut(c) \/ Authorized(c) \/ UploadEnds(c) \/ AbortEnds(c) \/ Publish(c) \/ Rerun(c)
    \/ \E b \in Blobs : AuthorizeBlob(c, b) \/ AbortBlob(c, b)
    \/ \E t \in job[c].work : Take(c, t)
    \/ \E t \in job[c].flight : PutSucceeds(c, t) \/ CompleteSucceeds(c, t) \/ Cancelled(c, t)

CasNext ==
    \/ \E c \in Clients :
          \/ BeginPut(c) \/ Authorized(c) \/ AuthorizeFails(c) \/ UploadEnds(c)
          \/ AbortEnds(c) \/ Publish(c) \/ PublishFails(c) \/ Kill(c) \/ Rerun(c)
          \/ \E b \in Blobs : AuthorizeBlob(c, b) \/ AbortBlob(c, b)
          \/ \E t \in job[c].work : Take(c, t)
          \/ \E t \in job[c].flight :
                \/ PutSucceeds(c, t) \/ PutRetried(c, t) \/ PutFails(c, t)
                \/ CompleteSucceeds(c, t) \/ CompleteFails(c, t) \/ Cancelled(c, t)
    \/ \E b \in Blobs : Sweep(b)

-----------------------------------------------------------------------------
(* A job whose upload succeeded has its blobs in the store, those that it
   skipped and those that it uploaded, whole or in parts, whatever was retried
   and whatever other jobs did with the same blobs; only the pruning of the last
   release that named a blob may have taken it away. *)
StoredWhenReported ==
    \A c \in Clients : job[c].pc = "uploaded" => Needs[c] \subseteq object \cup swept

(* No multipart upload, which would be stored and paid for without end, is left
   open by a job that ended, however its workers failed, unless it was killed,
   its abort did not get through, or the agent never told it of the upload. *)
NothingLeftOpen ==
    \A i \in Ids \ forsaken : session[i] # None =>
        \E c \in Clients : job[c].pc \in {"asking", "upload", "abort"} /\ i \in IdsOf(job[c])

(* A job that is run again is published in the end: nothing that an earlier run
   left behind makes a later one skip a blob that is not there. *)
RerunsPublish == \A c \in Clients : <>(job[c].pc = "published")
=============================================================================

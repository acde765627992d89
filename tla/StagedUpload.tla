---------------------------- MODULE StagedUpload ----------------------------
(***************************************************************************)
(* Chunked uploads of a staged archive (cmd/relkit-agent/staged_upload.go) *)
(* and the client that drives them (internal/stagedput): an upload is a    *)
(* directory with a record and one file per part.  Parts and the           *)
(* completion hold a lock kept in memory; creating, aborting and expiring  *)
(* an upload hold none, and forgetting an upload also forgets its lock, so *)
(* the next request makes a new one.                                       *)
(*                                                                         *)
(* One product and version.  Clients are CI jobs that start over when they *)
(* fail; they have one request at a time, and two clients of one archive   *)
(* share an upload.  A part is right or, after the file changed under the  *)
(* client, wrong.  Faults (a changed file, an operator's abort, a restart, *)
(* a busy product) happen while now <= LastFault.                          *)
(***************************************************************************)
EXTENDS Naturals, FiniteSets

CONSTANTS
    Clients,     \* CI jobs
    Archive,     \* Archive[c]: the archive that c stages
    Archives,
    Parts,       \* part numbers
    Ids,         \* upload identifiers
    TTL,         \* uploadTTL
    MaxNow,      \* bound: the clock
    LastFault,   \* bound: no fault begins later
    MaxFaults,   \* bound: faults in all
    None

VARIABLES
    upload,    \* upload[id]: the directory of an upload
    lockOf,    \* lockOf[id]: how often the lock in memory was forgotten
    client,    \* the clients and the requests they wait for
    aborting,  \* the upload an operator's DELETE has looked up
    staged,    \* the installed tree: an archive and its parts, or None
    now, faults,
    cut,       \* history: uploads removed under a request working on them
    installs   \* history: how often an upload was installed

vars == <<upload, lockOf, client, aborting, staged, now, faults, cut, installs>>

-----------------------------------------------------------------------------
Bodies == {"right", "wrong"}

(* The directory: a record, or none, and the files of parts/. *)
Record == [archive : Archives, status : {"open", "completing"}, created : Nat,
           parts : [Parts -> Bodies \cup {None}]]
NoFiles == [p \in Parts |-> None]
Gone == [dir |-> FALSE, rec |-> None, files |-> NoFiles]

At(pc) == [pc |-> pc, id |-> None, lock |-> 0, part |-> None, body |-> None,
           todo |-> {}, again |-> FALSE, rec |-> None]

Init ==
    /\ upload = [id \in Ids |-> Gone]
    /\ lockOf = [id \in Ids |-> 0]
    /\ client = [c \in Clients |-> At("new")]
    /\ aborting = None /\ staged = None
    /\ now = 0 /\ faults = 0 /\ cut = {} /\ installs = [id \in Ids |-> 0]

(* Requests between taking a lock and giving it back. *)
Holding == {"stored", "assemble", "install", "finish"}
Locked(c) == \E d \in Clients \ {c} :
    /\ client[d].pc \in Holding
    /\ client[d].id = client[c].id /\ client[d].lock = client[c].lock

Working(id) == {c \in Clients : client[c].id = id
                               /\ client[c].pc \in Holding \cup {"sending"}}

Old_Unstarted(id) ==   \* Mutant: an upload that has received parts is kept
    /\ upload[id].rec # None /\ now - upload[id].rec.created > TTL
    /\ upload[id].rec.parts = NoFiles

Old(id) == upload[id].rec # None /\ now - upload[id].rec.created > TTL

(* loadUpload finds the record; one that is too old is removed on sight. *)
Loads(id) == upload[id].rec # None /\ ~Old(id)

Without(ids) == [id \in Ids |-> IF id \in ids THEN Gone ELSE upload[id]]

(* uploads.Delete and os.RemoveAll, under nobody's lock. *)
Drop(ids) ==
    /\ upload' = Without(ids)
    /\ lockOf' = [id \in Ids |-> IF id \in ids THEN lockOf[id] + 1 ELSE lockOf[id]]
    /\ cut' = cut \cup {id \in ids : Working(id) # {}}

Kept == UNCHANGED <<upload, lockOf, cut>>
Go(c, to) == client' = [client EXCEPT ![c] = to]
Fault == now <= LastFault /\ faults < MaxFaults /\ faults' = faults + 1

(* A request that looks an upload up and does not find it; the client gives
   up and the job is run again. *)
NotFound(c, id) ==
    /\ Drop(IF Old(id) THEN {id} ELSE {})
    /\ Go(c, At("new"))

-----------------------------------------------------------------------------
(* POST uploads. *)

Fits(id, c) == /\ Loads(id) /\ upload[id].rec.archive = Archive[c]
               /\ upload[id].rec.status = "open"

Resume(c, id) == [At("parts") EXCEPT !.id = id,
                     !.todo = {p \in Parts : upload[id].rec.parts[p] = None}]

(* expireUploads, then an open upload of the same archive is continued. *)
Find(c) ==
    /\ client[c].pc = "new"
    /\ Drop({id \in Ids : Old(id)})
    /\ IF \E id \in Ids : Fits(id, c)
       THEN \E id \in Ids : Fits(id, c) /\ Go(c, Resume(c, id))
       ELSE Go(c, At("create"))
    /\ UNCHANGED <<aborting, staged, now, faults, installs>>

(* Random identifiers never meet: any identifier without a directory that
   nobody speaks of stands for a fresh one. *)
FreeIds == {id \in Ids : /\ ~upload[id].dir /\ aborting # id
                         /\ \A c \in Clients : client[c].id # id}

Create(c) ==
    /\ client[c].pc = "create" /\ FreeIds # {}
    /\ LET id == CHOOSE i \in FreeIds : TRUE
       IN  /\ upload' = [upload EXCEPT ![id] =
                  [dir |-> TRUE, files |-> NoFiles,
                   rec |-> [archive |-> Archive[c], status |-> "open", created |-> now,
                            parts |-> NoFiles]]]
           /\ Go(c, [At("parts") EXCEPT !.id = id, !.todo = Parts])
           /\ lockOf' = [lockOf EXCEPT ![id] = 0]
           /\ cut' = cut \ {id} /\ installs' = [installs EXCEPT ![id] = 0]
    /\ UNCHANGED <<aborting, staged, now, faults>>

-----------------------------------------------------------------------------
(* PUT parts/n. *)

(* The record is looked at, and the body goes to a temporary file. *)
SendPart(c) ==
    LET id == client[c].id
    IN  /\ client[c].pc = "parts" /\ client[c].todo # {}
        /\ IF Loads(id) /\ upload[id].rec.status = "open"
           THEN /\ \E p \in client[c].todo, body \in Bodies :
                      /\ body = "wrong" => Fault
                      /\ body = "right" => UNCHANGED faults
                      /\ Go(c, [client[c] EXCEPT !.pc = "sending", !.part = p, !.body = body,
                                                 !.lock = lockOf[id]])
                /\ Kept
           ELSE NotFound(c, id) /\ UNCHANGED faults
    /\ UNCHANGED <<aborting, staged, now, installs>>

StorePart_NoLock(c) ==   \* Mutant: the lock is not taken
    LET id == client[c].id
        k == client[c]
    IN  /\ k.pc = "sending"
        /\ IF ~Loads(id) \/ upload[id].rec.status # "open"
           THEN NotFound(c, id)
           ELSE IF upload[id].rec.parts[k.part] # None
           THEN /\ Go(c, IF upload[id].rec.parts[k.part] = k.body
                         THEN [k EXCEPT !.pc = "parts", !.todo = @ \ {k.part}] ELSE At("new"))
                /\ Kept
           ELSE /\ upload' = [upload EXCEPT ![id].files[k.part] = k.body]
                /\ Go(c, [k EXCEPT !.pc = "stored", !.rec = upload[id].rec])
                /\ UNCHANGED <<lockOf, cut>>
        /\ UNCHANGED <<aborting, staged, now, faults, installs>>

(* Under the lock the record is read again; a part it has is compared, a new
   one is renamed into place. *)
StorePart(c) ==
    LET id == client[c].id
        k == client[c]
    IN  /\ k.pc = "sending" /\ ~Locked(c)
        /\ IF ~Loads(id) \/ upload[id].rec.status # "open"
           THEN NotFound(c, id)
           ELSE IF upload[id].rec.parts[k.part] # None
           THEN /\ Go(c, IF upload[id].rec.parts[k.part] = k.body
                         THEN [k EXCEPT !.pc = "parts", !.todo = @ \ {k.part}] ELSE At("new"))
                /\ Kept
           ELSE /\ upload' = [upload EXCEPT ![id].files[k.part] = k.body]
                /\ Go(c, [k EXCEPT !.pc = "stored", !.rec = upload[id].rec])
                /\ UNCHANGED <<lockOf, cut>>
        /\ UNCHANGED <<aborting, staged, now, faults, installs>>

(* writeUploadRecord: it makes the directory when that is gone. *)
Written(id, rec) == [upload EXCEPT ![id].dir = TRUE, ![id].rec = rec]

RecordPart(c) ==
    LET id == client[c].id
        k == client[c]
    IN  /\ k.pc = "stored"
        /\ upload' = Written(id, [k.rec EXCEPT !.parts[k.part] = k.body])
        /\ Go(c, [k EXCEPT !.pc = "parts", !.todo = @ \ {k.part}, !.rec = None])
        /\ UNCHANGED <<lockOf, aborting, staged, now, faults, cut, installs>>

-----------------------------------------------------------------------------
(* POST complete. *)

(* The client asks once more what is missing before it gives up. *)
Refused(c, id) ==
    IF Loads(id) /\ ~client[c].again /\ \E p \in Parts : upload[id].rec.parts[p] = None
    THEN Go(c, [Resume(c, id) EXCEPT !.again = TRUE]) /\ Kept
    ELSE NotFound(c, id)

BeginComplete_Unmarked(c) ==   \* Mutant: the record is not marked
    LET id == client[c].id
        k == [client[c] EXCEPT !.lock = lockOf[id]]
    IN  /\ client[c].pc = "parts" /\ client[c].todo = {}
        /\ \A d \in Clients \ {c} :
               ~(client[d].pc \in Holding /\ client[d].id = id /\ client[d].lock = lockOf[id])
        /\ IF ~Loads(id) \/ upload[id].rec.status # "open"
              \/ \E p \in Parts : upload[id].rec.parts[p] = None
           THEN Refused(c, id)
           ELSE LET rec == [upload[id].rec EXCEPT !.status = "open"]
                IN  /\ upload' = Written(id, rec)
                    /\ Go(c, [k EXCEPT !.pc = "assemble", !.rec = rec])
                    /\ UNCHANGED <<lockOf, cut>>
        /\ UNCHANGED <<aborting, staged, now, faults, installs>>

BeginComplete(c) ==
    LET id == client[c].id
        k == [client[c] EXCEPT !.lock = lockOf[id]]
    IN  /\ client[c].pc = "parts" /\ client[c].todo = {}
        /\ \A d \in Clients \ {c} :
               ~(client[d].pc \in Holding /\ client[d].id = id /\ client[d].lock = lockOf[id])
        /\ IF ~Loads(id) \/ upload[id].rec.status # "open"
              \/ \E p \in Parts : upload[id].rec.parts[p] = None
           THEN Refused(c, id)
           ELSE LET rec == [upload[id].rec EXCEPT !.status = "completing"]
                IN  /\ upload' = Written(id, rec)
                    /\ Go(c, [k EXCEPT !.pc = "assemble", !.rec = rec])
                    /\ UNCHANGED <<lockOf, cut>>
        /\ UNCHANGED <<aborting, staged, now, faults, installs>>

(* Giving up writes the record back as open, directory or not. *)
Reopen(c) ==
    /\ upload' = Written(client[c].id, [client[c].rec EXCEPT !.status = "open"])
    /\ Go(c, At("new"))
    /\ UNCHANGED <<lockOf, cut>>

(* The parts are read one after the other and compared with the archive. *)
Assemble(c) ==
    /\ client[c].pc = "assemble"
    /\ IF \A p \in Parts : upload[client[c].id].files[p] = "right"
       THEN Go(c, [client[c] EXCEPT !.pc = "install"]) /\ Kept
       ELSE Reopen(c)
    /\ UNCHANGED <<aborting, staged, now, faults, installs>>

(* installStagedArchive replaces the tree, unless the product is busy. *)
Install(c) ==
    /\ client[c].pc = "install"
    /\ \/ /\ staged' = client[c].rec.archive
          /\ Go(c, [client[c] EXCEPT !.pc = "finish"])
          /\ installs' = [installs EXCEPT ![client[c].id] = @ + 1]
          /\ Kept /\ UNCHANGED faults
       \/ Fault /\ Reopen(c) /\ UNCHANGED <<staged, installs>>
    /\ UNCHANGED <<aborting, now>>

Finish(c) ==
    /\ client[c].pc = "finish"
    /\ upload' = Without({client[c].id})
    /\ lockOf' = [lockOf EXCEPT ![client[c].id] = @ + 1]
    /\ Go(c, At("done"))
    /\ UNCHANGED <<aborting, staged, now, faults, cut, installs>>

-----------------------------------------------------------------------------
(* DELETE, restarts, time. *)

BeginAbort(id) ==
    /\ aborting = None /\ Loads(id) /\ Fault
    /\ aborting' = id
    /\ UNCHANGED <<upload, lockOf, client, staged, now, cut, installs>>

Abort ==
    /\ aborting # None
    /\ Drop({aborting}) /\ aborting' = None
    /\ UNCHANGED <<client, staged, now, faults, installs>>

(* Requests end where they are; the disk stays. *)
Crash ==
    /\ Fault
    /\ lockOf' = [id \in Ids |-> 0]
    /\ aborting' = None
    /\ client' = [c \in Clients |-> IF client[c].pc = "done" THEN client[c] ELSE At("new")]
    /\ UNCHANGED <<upload, staged, now, cut, installs>>

Tick ==
    /\ now < MaxNow /\ now' = now + 1
    /\ UNCHANGED <<upload, lockOf, client, aborting, staged, faults, cut, installs>>

Step(c) ==
    \/ Find(c) \/ Create(c) \/ SendPart(c) \/ StorePart(c) \/ RecordPart(c)
    \/ BeginComplete(c) \/ Assemble(c) \/ Install(c) \/ Finish(c)

Next ==
    \/ \E c \in Clients : \/ Find(c) \/ Create(c) \/ SendPart(c) \/ StorePart(c)
                          \/ RecordPart(c) \/ BeginComplete(c) \/ Assemble(c)
                          \/ Install(c) \/ Finish(c)
    \/ \E id \in Ids : BeginAbort(id)
    \/ Abort \/ Crash \/ Tick

Spec == Init /\ [][Next]_vars

(* Jobs are run again until they succeed, handlers end, and time passes. *)
FairSpec == Spec /\ (\A c \in Clients : WF_vars(Step(c))) /\ WF_vars(Abort) /\ WF_vars(Tick)

-----------------------------------------------------------------------------
(* Properties. *)

TypeOK ==
    /\ \A id \in Ids : upload[id].rec \in Record \cup {None}
    /\ lockOf \in [Ids -> Nat] /\ staged \in Archives \cup {None}
    /\ \A c \in Clients : client[c].todo \subseteq Parts
    /\ \A id \in Ids : upload[id].rec # None => upload[id].dir

(* A part that an upload reports as received is in its directory with that
   content, unless the upload was removed under a request at work on it: the
   lock that orders parts and the completion is not taken by that removal. *)
ReportedIsThere ==
    \A id \in Ids \ cut : upload[id].rec # None =>
        \A p \in Parts : upload[id].rec.parts[p] # None =>
            upload[id].files[p] = upload[id].rec.parts[p]

(* An upload is installed at most once, whoever completes it and whatever
   aborts, expires and restarts in between. *)
InstalledOnce == \A id \in Ids : installs[id] <= 1

(* Whatever happened to earlier uploads of an archive (a crash that left one
   completing, a wrong part, a record brought back without its files), a job
   that is run again gets its archive installed in the end. *)
RetriesSucceed == \A c \in Clients : <>(client[c].pc = "done")
=============================================================================

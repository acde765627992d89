--------------------------- MODULE ServiceDirectory ---------------------------
(***************************************************************************)
(* The signed directory of a product and the index its services point to,  *)
(* as the publish agent writes them under the product lock: a publish      *)
(* (cmd/relkit-agent/server.go handlePublish) previews the directory,      *)
(* publishes the index and only then sets the directory                    *)
(* (internal/directory); registration, startup and the operator set the    *)
(* directory alone.  Each uploads a runtime profile before, under the key  *)
(* of its digest: nothing here looks at it, and a failure ends the job.    *)
(***************************************************************************)
EXTENDS Naturals, FiniteSetsExt

CONSTANTS
    None,
    Backends,
    ServiceLists,   \* what directory.services of the product may be set to
    MaxJobs         \* bound: requests that hold the product lock

VARIABLES
    directory,   \* the directory document of every backend, or None
    index,       \* the index it serves
    job,         \* what holds the product lock, or None
    jobs

published == <<directory, index>>

NoIndex == [seq |-> 0, at |-> 0]

(* Documents are signed with the time of their request: those of two
   requests are never the same bytes. *)
Document == [seq : Nat, services : ServiceLists, at : Nat]

DirectoryInit ==
    /\ directory = [b \in Backends |-> None]
    /\ index = [b \in Backends |-> NoIndex]
    /\ job = None /\ jobs = 0

Agree(doc, to) == \A b, c \in to : doc[b] = doc[c]

readBaseSequence(to) == Max({0} \cup {directory[b].seq : b \in {c \in to : directory[c] # None}})

-----------------------------------------------------------------------------
(* The preview is a dry run of Set: it refuses targets that disagree.  What
   startup and registration sign, they sign only once. *)
Begin(kind, to, services) ==
    /\ job = None /\ jobs < MaxJobs
    /\ Agree(directory, to)
    /\ kind = "ensure" => to = Backends /\ readBaseSequence(to) = 0
    /\ jobs' = jobs + 1
    /\ job' = [to |-> to, services |-> services, left |-> to, seq |-> 0, partial |-> FALSE,
               phase |-> IF kind = "publish" THEN "read" ELSE "set"]
    /\ UNCHANGED published

Enter(phase, seq) == job' = [job EXCEPT !.phase = phase, !.left = job.to, !.seq = seq]

(* publish.Run plans from what all its targets serve. *)
PlanIndex ==
    /\ job # None /\ job.phase = "read" /\ Agree(index, job.to)
    /\ \E b \in job.to : Enter("index", index[b].seq + 1)
    /\ UNCHANGED <<published, jobs>>

(* Its pointers go to every target, whether or not one fails; a partial
   commit ends the request. *)
IndexWritten(b, ok) ==
    LET partial == job.partial \/ ~ok
    IN  job' = IF job.left # {b} THEN [job EXCEPT !.left = @ \ {b}, !.partial = partial]
               ELSE IF partial THEN None
               ELSE [job EXCEPT !.phase = "set", !.left = job.to]

PutIndex(b) ==
    /\ job # None /\ job.phase = "index" /\ b \in job.left
    /\ index' = [index EXCEPT ![b] = [seq |-> job.seq, at |-> jobs]]
    /\ IndexWritten(b, TRUE)
    /\ UNCHANGED <<directory, jobs>>

IndexFails(b) ==
    /\ job # None /\ job.phase = "index" /\ b \in job.left
    /\ index' \in {index, [index EXCEPT ![b] = [seq |-> job.seq, at |-> jobs]]}
    /\ IndexWritten(b, FALSE)
    /\ UNCHANGED <<directory, jobs>>

(* Set reads what is there again. *)
Set ==
    /\ job # None /\ job.phase = "set" /\ Agree(directory, job.to)
    /\ Enter("directory", readBaseSequence(job.to) + 1)
    /\ UNCHANGED <<published, jobs>>

Signed == [seq |-> job.seq, services |-> job.services, at |-> jobs]

PutDirectory(b) ==
    /\ job # None /\ job.phase = "directory" /\ b \in job.left
    /\ directory' = [directory EXCEPT ![b] = Signed]
    /\ job' = IF job.left = {b} THEN None ELSE [job EXCEPT !.left = @ \ {b}]
    /\ UNCHANGED <<index, jobs>>

(* Unlike that of the index this loop returns at the first failure. *)
DirectoryFails(b) ==
    /\ job # None /\ job.phase = "directory" /\ b \in job.left
    /\ directory' \in {directory, [directory EXCEPT ![b] = Signed]}
    /\ job' = None
    /\ UNCHANGED <<index, jobs>>

(* A document cannot be read, the targets disagree, the chain is refused, or
   the agent dies. *)
JobEnds ==
    /\ job # None
    /\ job' = None
    /\ UNCHANGED <<published, jobs>>

DirectoryNext ==
    \/ \E kind \in {"publish", "resign", "ensure"}, to \in (SUBSET Backends) \ {{}}, s \in ServiceLists :
           Begin(kind, to, s)
    \/ PlanIndex \/ Set \/ JobEnds
    \/ \E b \in Backends :
           \/ PutIndex(b) \/ IndexFails(b)
           \/ PutDirectory(b) \/ DirectoryFails(b)

DirectoryOK ==
    /\ directory \in [Backends -> Document \cup {None}]
    /\ job # None => job.left \subseteq job.to /\ job.to \subseteq Backends

=============================================================================

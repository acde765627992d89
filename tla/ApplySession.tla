----------------------------- MODULE ApplySession -----------------------------
(***************************************************************************)
(* Apply sessions of one install root (internal/updater: apply_lock.go,    *)
(* apply.go, engine.go, and the lock of the operations in library.go).     *)
(*                                                                         *)
(* The host starts an engine process per request.  An apply takes the lock *)
(* file, writes a session record, launches a worker and exits; the worker  *)
(* puts its own pid into the lock file, waits for the host to go, fetches  *)
(* what is missing, writes the release and starts the host again.  A       *)
(* library operation (switch, rollback, delete) holds the lock while it    *)
(* works.  A lock file that names no live process is removed and the lock  *)
(* tried again.  Any process may die at any point.                         *)
(*                                                                         *)
(* Abstractions.  A process stands for its pid, which is not reused.  The  *)
(* file a process created stands for the inode, so that what it writes     *)
(* after somebody removed the file is not seen.  The pid of the host and   *)
(* "beat", a heartbeat younger than workerGrace, are kept for the sessions *)
(* and the time that they matter.  What a writer does to the install root  *)
(* is in modules TreeInstall, BundleInstall and LibraryInstall; the plans  *)
(* are in module UpdaterData.                                              *)
(***************************************************************************)
EXTENDS Naturals, FiniteSets

CONSTANTS
    Requests,    \* requests of the host; each starts an engine process
    MaxHosts,    \* bound: host processes started in a behaviour
    MaxCrashes,  \* bound: engines and workers that die
    None         \* no process

ASSUME ApplyAssumption ==
    /\ IsFiniteSet(Requests)
    /\ MaxHosts \in Nat \ {0} /\ MaxCrashes \in Nat
    /\ None \notin Requests \X {"engine", "worker"}

VARIABLES
    lock,       \* the lock file
    engine,     \* engine[r]: where the engine of request r is
    worker,     \* worker[r]: where the worker of session r is
    opened,     \* opened[r]: the file the worker opened to refresh the lock
    session,    \* session[r]: the session record, or NoSession
    began,      \* began[r]: when the request began
    up,         \* host processes that run
    hosts,      \* host processes started so far
    crashes,
    takenOver   \* history: the lock file of somebody at work was removed

procs == <<engine, worker, opened>>
host  == <<up, hosts>>
vars  == <<lock, engine, worker, opened, session, began, up, hosts, crashes, takenOver>>

-----------------------------------------------------------------------------
Processes == Requests \X {"engine", "worker"}

Engine(r) == <<r, "engine">>
Worker(r) == <<r, "worker">>

(* pid = None: the file is empty or cannot be decoded. *)
NoFile == [file |-> None, pid |-> None]
Files  == {NoFile} \cup [file : Processes, pid : Processes \cup {None}]

EnginePoints == {"new", "open", "write", "stale", "locked", "saved", "operate", "gone"}
WorkerPoints == {"none", "start", "refresh", "wait", "download", "copy", "install",
                 "relaunch", "complete", "release", "free", "revive", "gone"}

Phases  == {"WAITING_FOR_EXIT", "DOWNLOADING", "COPYING", "COMMITTING", "RELAUNCHING",
            "COMPLETED", "ROLLED_BACK", "NEEDS_ATTENTION"}
Working == {"WAITING_FOR_EXIT", "DOWNLOADING", "COPYING", "COMMITTING"}

NoSession == [phase |-> "none", needsExit |-> FALSE, pid |-> 0, beat |-> FALSE]
Sessions  == {NoSession} \cup [phase: Phases, needsExit: BOOLEAN, pid: Nat, beat: BOOLEAN]

EngineRuns(r) == engine[r] \notin {"new", "gone"}
WorkerRuns(r) == worker[r] \notin {"none", "gone"}

processAlive(p) ==
    /\ p # None
    /\ IF p[2] = "engine" THEN EngineRuns(p[1]) ELSE WorkerRuns(p[1])

(* A request at work: it believes that it holds the lock. *)
Holds(r) ==
    \/ engine[r] \in {"locked", "saved", "operate"}
    \/ worker[r] \notin {"none", "revive", "gone"}

-----------------------------------------------------------------------------
Init ==
    /\ lock = NoFile
    /\ engine = [r \in Requests |-> "new"]
    /\ worker = [r \in Requests |-> "none"]
    /\ opened = [r \in Requests |-> None]
    /\ session = [r \in Requests |-> NoSession]
    /\ began = [r \in Requests |-> 0]
    /\ up = {1} /\ hosts = 1
    /\ crashes = 0
    /\ takenOver = FALSE

(* The host runs an engine. *)
Begin(r) ==
    /\ engine[r] = "new"
    /\ up # {}
    /\ engine' = [engine EXCEPT ![r] = "open"]
    /\ began' = [began EXCEPT ![r] = Cardinality({q \in Requests : began[q] > 0}) + 1]
    /\ UNCHANGED <<lock, worker, opened, session, host, crashes, takenOver>>

-----------------------------------------------------------------------------
(* acquireApplyLockAt. *)

Create(r) ==
    /\ engine[r] = "open"
    /\ lock = NoFile
    /\ lock' = [file |-> Engine(r), pid |-> None]
    /\ engine' = [engine EXCEPT ![r] = "write"]
    /\ UNCHANGED <<worker, opened, session, began, host, crashes, takenOver>>

(* The pid goes to the file that was created, wherever that is by now; a write
   that fails is an error and leaves the empty file behind. *)
Write(r) ==
    /\ engine[r] = "write"
    /\ \/ /\ lock' = IF lock.file = Engine(r) THEN [lock EXCEPT !.pid = Engine(r)] ELSE lock
          /\ \E point \in {"locked", "operate"} : engine' = [engine EXCEPT ![r] = point]
       \/ /\ engine' = [engine EXCEPT ![r] = "gone"]
          /\ UNCHANGED lock
    /\ UNCHANGED <<worker, opened, session, began, host, crashes, takenOver>>

(* A lock file that is there: "apply already running" when its process lives. *)
Found(r) ==
    /\ engine[r] = "open"
    /\ lock # NoFile
    /\ engine' = [engine EXCEPT ![r] = IF processAlive(lock.pid) THEN "gone" ELSE "stale"]
    /\ UNCHANGED <<lock, worker, opened, session, began, host, crashes, takenOver>>

(* Removes whatever file has the name by now. *)
RemoveStale(r) ==
    /\ engine[r] = "stale"
    /\ takenOver' = (takenOver \/ \E q \in Requests :
                         /\ lock.file \in {Engine(q), Worker(q)}
                         /\ Holds(q) \/ engine[q] = "write")
    /\ lock' = NoFile
    /\ engine' = [engine EXCEPT ![r] = "open"]
    /\ UNCHANGED <<worker, opened, session, began, host, crashes>>

-----------------------------------------------------------------------------
(* handleApply after the lock, and the operations of library.go. *)

(* releaseApplyLockAt does not look whose file it is. *)
Release == lock' = NoFile

(* planRequiresHostExit or saveSession fails. *)
ApplyFails(r) ==
    /\ engine[r] = "locked"
    /\ engine' = [engine EXCEPT ![r] = "gone"]
    /\ Release
    /\ UNCHANGED <<worker, opened, session, began, host, crashes, takenOver>>

SaveSession(r) ==
    /\ engine[r] = "locked"
    /\ \E needsExit \in BOOLEAN, h \in up :
          session' = [session EXCEPT ![r] = [phase |-> "WAITING_FOR_EXIT", needsExit |-> needsExit,
                                             pid |-> IF needsExit THEN h ELSE 0,
                                             beat |-> needsExit]]
    /\ engine' = [engine EXCEPT ![r] = "saved"]
    /\ UNCHANGED <<lock, worker, opened, began, host, crashes, takenOver>>

(* Mutant: the lock is released when the answer is out. *)
Launch_Releases(r) ==
    /\ engine[r] = "saved"
    /\ engine' = [engine EXCEPT ![r] = "gone"]
    /\ worker' = [worker EXCEPT ![r] = "start"]
    /\ Release
    /\ UNCHANGED <<opened, session, began, host, crashes, takenOver>>

(* The worker is started and the engine exits; the lock names the engine. *)
Launch(r) ==
    /\ engine[r] = "saved"
    /\ engine' = [engine EXCEPT ![r] = "gone"]
    /\ worker' = [worker EXCEPT ![r] = "start"]
    /\ UNCHANGED <<lock, opened, session, began, host, crashes, takenOver>>

LaunchFails(r) ==
    /\ engine[r] = "saved"
    /\ session' = [session EXCEPT ![r].phase = "NEEDS_ATTENTION", ![r].beat = FALSE]
    /\ engine' = [engine EXCEPT ![r] = "gone"]
    /\ Release
    /\ UNCHANGED <<worker, opened, began, host, crashes, takenOver>>

Operated(r) ==
    /\ engine[r] = "operate"
    /\ engine' = [engine EXCEPT ![r] = "gone"]
    /\ Release
    /\ UNCHANGED <<worker, opened, session, began, host, crashes, takenOver>>

-----------------------------------------------------------------------------
(* RunWorker. *)

(* refreshApplyLockAt writes without a look: it truncates the file or creates
   it, then writes the pid. *)
RefreshOpen(r) ==
    /\ worker[r] = "start"
    /\ lock' = IF lock = NoFile THEN [file |-> Worker(r), pid |-> None]
                                ELSE [lock EXCEPT !.pid = None]
    /\ opened' = [opened EXCEPT ![r] = lock'.file]
    /\ worker' = [worker EXCEPT ![r] = "refresh"]
    /\ UNCHANGED <<engine, session, began, host, crashes, takenOver>>

(* Mutant: the lock keeps the pid of the engine. *)
RefreshWrite_Skipped(r) ==
    /\ worker[r] = "refresh"
    /\ worker' = [worker EXCEPT ![r] = IF session[r].needsExit THEN "wait" ELSE "download"]
    /\ opened' = [opened EXCEPT ![r] = None]
    /\ UNCHANGED <<lock, engine, session, began, host, crashes, takenOver>>

RefreshWrite(r) ==
    /\ worker[r] = "refresh"
    /\ lock' = IF lock.file = opened[r] THEN [lock EXCEPT !.pid = Worker(r)] ELSE lock
    /\ worker' = [worker EXCEPT ![r] = IF session[r].needsExit THEN "wait" ELSE "download"]
    /\ opened' = [opened EXCEPT ![r] = None]
    /\ UNCHANGED <<engine, session, began, host, crashes, takenOver>>

setPhase(r, phase) ==
    session' = [session EXCEPT ![r] = [@ EXCEPT !.phase = phase,
                                                !.beat = session[r].needsExit /\ phase \in Working]]

To(r, point) == worker' = [worker EXCEPT ![r] = point]

StayedFor(r) == UNCHANGED <<lock, engine, opened, began, host, crashes, takenOver>>

(* waitForHostExit: a heartbeat per poll. *)
Poll(r) ==
    /\ worker[r] = "wait"
    /\ session[r].pid \in up
    /\ setPhase(r, "WAITING_FOR_EXIT")
    /\ UNCHANGED worker
    /\ StayedFor(r)

HostLeft(r) ==
    /\ worker[r] = "wait"
    /\ session[r].pid \notin up
    /\ To(r, "download")
    /\ session' = [session EXCEPT ![r].pid = 0]
    /\ StayedFor(r)

(* Five minutes are over, or the user cancels: the host may still be up, and
   nothing is started. *)
GiveUpWaiting(r) ==
    /\ worker[r] = "wait"
    /\ setPhase(r, "NEEDS_ATTENTION")
    /\ To(r, "release")
    /\ StayedFor(r)

(* What is missing is fetched; a failure or a cancel ends the session. *)
Download(r) ==
    /\ worker[r] = "download"
    /\ session[r].phase # "DOWNLOADING"
    /\ setPhase(r, "DOWNLOADING")
    /\ UNCHANGED worker
    /\ StayedFor(r)

DownloadFails(r) ==
    /\ worker[r] = "download"
    /\ setPhase(r, "NEEDS_ATTENTION")
    /\ To(r, "free")
    /\ StayedFor(r)

Copy(r) ==
    /\ worker[r] = "download"
    /\ \/ setPhase(r, "COPYING") /\ To(r, "copy")
       \/ setPhase(r, "COMMITTING") /\ To(r, "install")
    /\ StayedFor(r)

(* Mutant: the phase stays what it was. *)
RolledBack_PhaseLater(r) ==
    /\ worker[r] = "copy"
    /\ UNCHANGED session
    /\ To(r, "free")
    /\ StayedFor(r)

(* applyPlan, or the installer, succeeds: the new host is started unless the
   session asked for no relaunch. *)
Written(r) ==
    /\ worker[r] \in {"copy", "install"}
    /\ \/ setPhase(r, "RELAUNCHING") /\ To(r, "relaunch")
       \/ UNCHANGED session /\ To(r, "complete")
    /\ StayedFor(r)

(* It fails and was rolled back: the old host is started again. *)
RolledBack(r) ==
    /\ worker[r] = "copy"
    /\ setPhase(r, "ROLLED_BACK")
    /\ To(r, "free")
    /\ StayedFor(r)

(* INCOMPLETE, or the installer failed or was cancelled: nothing is started. *)
LeftAsIs(r) ==
    /\ worker[r] \in {"copy", "install"}
    /\ setPhase(r, "NEEDS_ATTENTION")
    /\ To(r, "release")
    /\ StayedFor(r)

(* relaunchHost; a start that fails is ignored. *)
Start ==
    \/ hosts < MaxHosts /\ hosts' = hosts + 1 /\ up' = up \cup {hosts + 1}
    \/ UNCHANGED host

Relaunch(r) ==
    /\ worker[r] \in {"relaunch", "revive"}
    /\ Start
    /\ To(r, IF worker[r] = "relaunch" THEN "complete" ELSE "gone")
    /\ UNCHANGED <<lock, engine, opened, session, began, crashes, takenOver>>

Complete(r) ==
    /\ worker[r] = "complete"
    /\ setPhase(r, "COMPLETED")
    /\ To(r, "release")
    /\ StayedFor(r)

(* finish: the lock goes before the old host is started. *)
Finish(r) ==
    /\ worker[r] \in {"release", "free"}
    /\ Release
    /\ To(r, IF worker[r] = "free" /\ session[r].needsExit THEN "revive" ELSE "gone")
    /\ UNCHANGED <<engine, opened, session, began, host, crashes, takenOver>>

-----------------------------------------------------------------------------
(* The startup handoff: status tells a host that starts whether it must exit. *)

Latest(r) == /\ session[r] # NoSession
             /\ \A q \in Requests : session[q] # NoSession => began[q] <= began[r]

(* Mutant: the lock of a session is enough, whoever is gone. *)
hostMustExit_AnyLock(r) ==
    /\ session[r].needsExit
    /\ session[r].phase \in Working
    /\ session[r].beat \/ lock.pid \in {Engine(r), Worker(r)}

hostMustExit(r) ==
    /\ session[r].needsExit
    /\ session[r].phase \in Working
    /\ \/ session[r].beat
       \/ lock.pid \in {Engine(r), Worker(r)} /\ processAlive(lock.pid)

(* The user starts the host: it asks for the status first. *)
HostStarts ==
    /\ \A r \in Requests : Latest(r) => ~hostMustExit(r)
    /\ hosts < MaxHosts
    /\ hosts' = hosts + 1 /\ up' = up \cup {hosts + 1}
    /\ UNCHANGED <<lock, procs, session, began, crashes, takenOver>>

HostExits ==
    /\ \E h \in up : up' = up \ {h}
    /\ UNCHANGED <<lock, procs, session, began, hosts, crashes, takenOver>>

(* workerGrace passes without a heartbeat: not while the worker polls. *)
Age(r) ==
    /\ session[r].beat
    /\ worker[r] # "wait"
    /\ session' = [session EXCEPT ![r].beat = FALSE]
    /\ UNCHANGED <<lock, procs, began, host, crashes, takenOver>>

EngineDies(r) ==
    /\ EngineRuns(r) /\ crashes < MaxCrashes
    /\ crashes' = crashes + 1
    /\ engine' = [engine EXCEPT ![r] = "gone"]
    /\ UNCHANGED <<lock, worker, opened, session, began, host, takenOver>>

WorkerDies(r) ==
    /\ WorkerRuns(r) /\ crashes < MaxCrashes
    /\ crashes' = crashes + 1
    /\ To(r, "gone")
    /\ UNCHANGED <<lock, engine, opened, session, began, host, takenOver>>

-----------------------------------------------------------------------------
EngineStep(r) ==
    \/ Create(r) \/ Write(r) \/ Found(r) \/ RemoveStale(r)
    \/ ApplyFails(r) \/ SaveSession(r) \/ Launch(r) \/ LaunchFails(r)
    \/ Operated(r)

WorkerStep(r) ==
    \/ RefreshOpen(r) \/ RefreshWrite(r)
    \/ HostLeft(r) \/ GiveUpWaiting(r)
    \/ Download(r) \/ DownloadFails(r) \/ Copy(r)
    \/ Written(r) \/ RolledBack(r) \/ LeftAsIs(r)
    \/ Relaunch(r) \/ Complete(r) \/ Finish(r)

Next ==
    \/ \E r \in Requests :
          \/ Begin(r) \/ EngineStep(r) \/ WorkerStep(r) \/ Poll(r) \/ Age(r)
          \/ EngineDies(r) \/ WorkerDies(r)
    \/ HostStarts \/ HostExits

Spec == Init /\ [][Next]_vars

(* Processes that run take their steps (the wait ends after five minutes), and
   time passes. *)
FairSpec == Spec /\ \A r \in Requests :
    WF_vars(EngineStep(r)) /\ WF_vars(WorkerStep(r)) /\ WF_vars(Age(r))

-----------------------------------------------------------------------------
(* Properties. *)

(* The types of the state: a worker has a session, a refresh an open file, and
   a removed file no content. *)
TypeOK ==
    /\ lock \in Files
    /\ engine \in [Requests -> EnginePoints]
    /\ worker \in [Requests -> WorkerPoints]
    /\ opened \in [Requests -> Processes \cup {None}]
    /\ session \in [Requests -> Sessions]
    /\ began \in [Requests -> Nat]
    /\ hosts \in Nat /\ up \subseteq 1 .. hosts
    /\ crashes \in Nat /\ takenOver \in BOOLEAN
    /\ \A r \in Requests :
          /\ worker[r] # "none" \/ engine[r] = "saved" => session[r] # NoSession
          /\ worker[r] = "refresh" => opened[r] # None

(* Two requests are at work at the same time only after the lock file of a
   request at work was removed by somebody who took it for a dead one's: no
   order of releases, failures, launches and deaths loses the lock. *)
AloneUnlessTakenOver ==
    takenOver \/ \A q, r \in Requests : Holds(q) /\ Holds(r) => q = r

(* While a worker writes what the host runs from, its session says that a
   starting host must exit, however long the writing takes, unless the lock was
   taken over.  (status asks the newest session only.) *)
WriterKeepsHostOut ==
    \A r \in Requests :
        worker[r] \in {"copy", "install"} /\ session[r].needsExit
            => takenOver \/ hostMustExit(r)

(* A host that a worker starts again is not told to exit at once: the phase is
   moved on before the start. *)
RelaunchedMayStay ==
    \A r \in Requests : worker[r] \in {"relaunch", "revive"} => ~hostMustExit(r)

(* What a request may count on while it is at work (acquireApplyLock,
   refreshLoop, runApplyFlow). *)
ApplyIsExclusive == AloneUnlessTakenOver /\ WriterKeepsHostOut /\ RelaunchedMayStay

(* "a worker that is gone never keeps a host from starting" (engine.go): what
   a starting host is told changes in the end, whoever dies. *)
HostMayStart == \A r \in Requests : hostMustExit(r) ~> ~hostMustExit(r)

=============================================================================

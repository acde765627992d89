----------------------------- MODULE UpdaterProofs -----------------------------
(***************************************************************************)
(* Proofs about ApplySession, for every set of requests and every number   *)
(* of hosts and deaths, and about UpdaterData, for all plans, releases,    *)
(* lifetimes and sessions.                                                 *)
(*                                                                         *)
(* What a request may count on is not inductive: that nobody else is at    *)
(* work follows from the lock file naming a process of the request as long *)
(* as it is at work (Owned), and what a starting host is told from the pid *)
(* in that file and the phase that the worker recorded (Refreshed,         *)
(* PhaseFits).                                                             *)
(*                                                                         *)
(* Nor is it that a worker keeps its files: what a sweep has read when it  *)
(* began names the plan of every worker that was there then (SweepFits),   *)
(* because a worker beats (WorkersBeat).  That a record which is written   *)
(* back later makes no second live plan for an answer follows from         *)
(* expiries only being moved on (CopiesFit, WriteFits) and from requests   *)
(* that hold records at once holding them of different codes, or of one    *)
(* that counts as disputed (RecordsDiffer).  That a skip stays follows     *)
(* from everybody who will write the state having it (StateFits).          *)
(***************************************************************************)
EXTENDS ApplySession, UpdaterData, FiniteSetTheorems, SequenceTheorems, TLAPS

(* At work, or between the creation of the lock file and the pid in it. *)
Owns(r) == Holds(r) \/ engine[r] = "write"

(* A worker is started when its engine has gone. *)
OneAfterTheOther == \A r \in Requests : worker[r] # "none" => engine[r] = "gone"

(* The lock file is a file of the request that owns it. *)
Owned == takenOver \/ \A r \in Requests : Owns(r) => lock.file \in {Engine(r), Worker(r)}

(* The worker has that file open when it writes its pid, and the pid is in the
   file from then on. *)
Refreshed ==
    takenOver \/ \A r \in Requests :
        /\ worker[r] = "refresh" => opened[r] = lock.file
        /\ worker[r] \notin {"none", "start", "refresh", "revive", "gone"} => lock.pid = Worker(r)

(* The phase in the record is that of the work. *)
PhaseFits ==
    \A r \in Requests :
        /\ worker[r] = "copy" => session[r].phase = "COPYING"
        /\ worker[r] = "install" => session[r].phase = "COMMITTING"
        /\ worker[r] = "relaunch" => session[r].phase = "RELAUNCHING"
        /\ worker[r] \in {"free", "revive"} => session[r].phase \in {"ROLLED_BACK", "NEEDS_ATTENTION"}

ApplyInv == OneAfterTheOther /\ Owned /\ Refreshed /\ PhaseFits

IInv == TypeOK /\ ApplyInv

-----------------------------------------------------------------------------
(* Types. *)

(* A record that gets another phase stays a record. *)
LEMMA PhaseType ==
    ASSUME TypeOK, NEW r \in Requests, session[r] # NoSession, NEW phase \in Phases,
           setPhase(r, phase)
    PROVE  /\ session' \in [Requests -> Sessions]
           /\ \A q \in Requests : session[q] # NoSession => session'[q] # NoSession
  <1>1. session[r] \in [phase: Phases, needsExit: BOOLEAN, pid: Nat, beat: BOOLEAN]
    BY DEF TypeOK, Sessions
  <1>2. session[r].needsExit \in BOOLEAN /\ session[r].pid \in Nat
    BY <1>1
  <1> DEFINE new == [session[r] EXCEPT !.phase = phase,
                                       !.beat = session[r].needsExit /\ phase \in Working]
  <1>3. new \in [phase: Phases, needsExit: BOOLEAN, pid: Nat, beat: BOOLEAN]
    BY <1>1, <1>2
  <1>4. session' = [session EXCEPT ![r] = new]
    BY DEF setPhase
  <1>5. new # NoSession
    BY <1>3 DEF Phases, NoSession
  <1> HIDE DEF new
  <1> QED
    BY <1>3, <1>4, <1>5 DEF TypeOK, Sessions

(* The requests that have begun can be counted. *)
LEMMA BeganType == Cardinality({q \in Requests : began[q] > 0}) \in Nat
  BY ApplyAssumption, FS_Subset, FS_CardinalityType

(* What the engine does before the session is recorded. *)
LEMMA AcquireTypes ==
    ASSUME TypeOK, NEW r \in Requests,
           Begin(r) \/ Create(r) \/ Write(r) \/ Found(r) \/ RemoveStale(r)
    PROVE  TypeOK'
  <1>1. CASE Begin(r)
    BY <1>1, BeganType DEF Begin, TypeOK, host, EnginePoints
  <1>2. CASE Create(r)
    BY <1>2 DEF Create, TypeOK, host, EnginePoints, Files, Engine, Processes
  <1>3. CASE Write(r)
    <2>1. lock' \in Files
      BY <1>3 DEF Write, TypeOK, Files, NoFile, Engine, Processes
    <2> QED
      BY <1>3, <2>1 DEF Write, TypeOK, host, EnginePoints
  <1>4. CASE Found(r)
    BY <1>4 DEF Found, TypeOK, host, EnginePoints
  <1>5. CASE RemoveStale(r)
    BY <1>5 DEF RemoveStale, TypeOK, host, EnginePoints, Files
  <1> QED
    BY <1>1, <1>2, <1>3, <1>4, <1>5

(* The rest of the engine. *)
LEMMA EngineTypes ==
    ASSUME TypeOK, NEW r \in Requests,
           \/ ApplyFails(r) \/ SaveSession(r) \/ Launch(r) \/ LaunchFails(r) \/ Operated(r)
           \/ EngineDies(r)
    PROVE  TypeOK'
  <1>1. CASE ApplyFails(r)
    BY <1>1 DEF ApplyFails, Release, TypeOK, host, EnginePoints, Files
  <1>2. CASE SaveSession(r)
    <2>1. session' \in [Requests -> Sessions]
      BY <1>2 DEF SaveSession, TypeOK, Sessions, Phases
    <2>2. \A q \in Requests : session[q] # NoSession => session'[q] # NoSession
      BY <1>2 DEF SaveSession, TypeOK, NoSession
    <2>3. engine' = [engine EXCEPT ![r] = "saved"] /\ session'[r] # NoSession
      BY <1>2 DEF SaveSession, TypeOK, NoSession
    <2> QED
      BY <1>2, <2>1, <2>2, <2>3 DEF SaveSession, TypeOK, host, EnginePoints
  <1>3. CASE Launch(r)
    BY <1>3 DEF Launch, TypeOK, host, EnginePoints, WorkerPoints
  <1>4. CASE LaunchFails(r)
    <2>1. session[r] \in [phase: Phases, needsExit: BOOLEAN, pid: Nat, beat: BOOLEAN]
      BY <1>4 DEF LaunchFails, TypeOK, Sessions
    <2>2. session' \in [Requests -> Sessions]
      BY <1>4, <2>1 DEF LaunchFails, TypeOK, Sessions, Phases
    <2>3. \A q \in Requests : session[q] # NoSession => session'[q] # NoSession
      BY <1>4, <2>1 DEF LaunchFails, TypeOK, NoSession
    <2> QED
      BY <1>4, <2>2, <2>3 DEF LaunchFails, Release, TypeOK, host, EnginePoints, Files
  <1>5. CASE Operated(r)
    BY <1>5 DEF Operated, Release, TypeOK, host, EnginePoints, Files
  <1>6. CASE EngineDies(r)
    BY <1>6 DEF EngineDies, TypeOK, host, EnginePoints
  <1> QED
    BY <1>1, <1>2, <1>3, <1>4, <1>5, <1>6

(* A step of the worker that records a phase and moves on. *)
LEMMA PhaseStepTypes ==
    ASSUME TypeOK, NEW r \in Requests, WorkerRuns(r), NEW phase \in Phases,
           setPhase(r, phase), StayedFor(r),
           worker' = worker \/ \E point \in WorkerPoints \ {"refresh"} : To(r, point)
    PROVE  TypeOK'
  <1>1. session[r] # NoSession
    BY DEF TypeOK, WorkerRuns
  <1>2. /\ session' \in [Requests -> Sessions]
        /\ \A q \in Requests : session[q] # NoSession => session'[q] # NoSession
    BY <1>1, PhaseType
  <1>3. /\ worker' \in [Requests -> WorkerPoints]
        /\ \A q \in Requests : /\ worker'[q] # "none" => worker[q] # "none"
                               /\ worker'[q] = "refresh" => worker[q] = "refresh"
    BY DEF To, TypeOK, WorkerRuns
  <1> QED
    BY <1>2, <1>3 DEF TypeOK, StayedFor, host

(* The worker. *)
LEMMA WorkerTypes ==
    ASSUME TypeOK, NEW r \in Requests, WorkerStep(r) \/ Poll(r) \/ WorkerDies(r)
    PROVE  TypeOK'
  <1> USE DEF WorkerPoints
  <1>1. CASE RefreshOpen(r)
    <2>1. lock' \in [file : Processes, pid : Processes \cup {None}]
      BY <1>1 DEF RefreshOpen, TypeOK, Files, NoFile, Worker, Processes
    <2>2. lock' \in Files /\ lock'.file \in Processes /\ lock'.file # None
      BY <2>1, ApplyAssumption DEF Files, Processes
    <2> QED
      BY <1>1, <2>2 DEF RefreshOpen, TypeOK, host
  <1>2. CASE RefreshWrite(r)
    <2>1. lock.file = opened[r] => lock \in [file : Processes, pid : Processes \cup {None}]
      BY <1>2 DEF RefreshWrite, TypeOK, Files, NoFile
    <2>2. lock' \in Files
      BY <1>2, <2>1 DEF RefreshWrite, TypeOK, Files, Worker, Processes
    <2> QED
      BY <1>2, <2>2 DEF RefreshWrite, TypeOK, host
  <1>3. CASE HostLeft(r)
    <2>1. session[r] \in [phase: Phases, needsExit: BOOLEAN, pid: Nat, beat: BOOLEAN]
      BY <1>3 DEF HostLeft, TypeOK, Sessions
    <2>2. session' \in [Requests -> Sessions]
      BY <1>3, <2>1 DEF HostLeft, TypeOK, Sessions
    <2>3. \A q \in Requests : session[q] # NoSession => session'[q] # NoSession
      BY <1>3, <2>1 DEF HostLeft, TypeOK, NoSession, Phases
    <2> QED
      BY <1>3, <2>2, <2>3 DEF HostLeft, To, StayedFor, TypeOK, host
  <1>4. CASE GiveUpWaiting(r)
    BY <1>4, PhaseStepTypes DEF GiveUpWaiting, WorkerRuns, Phases
  <1>5. CASE Download(r)
    BY <1>5, PhaseStepTypes DEF Download, WorkerRuns, Phases
  <1>6. CASE DownloadFails(r)
    BY <1>6, PhaseStepTypes DEF DownloadFails, WorkerRuns, Phases
  <1>7. CASE Copy(r)
    BY <1>7, PhaseStepTypes DEF Copy, WorkerRuns, Phases
  <1>8. CASE Written(r)
    <2>1. CASE UNCHANGED session /\ To(r, "complete")
      BY <1>8, <2>1 DEF Written, To, StayedFor, TypeOK, host
    <2> QED
      BY <1>8, <2>1, PhaseStepTypes DEF Written, WorkerRuns, Phases
  <1>9. CASE RolledBack(r)
    BY <1>9, PhaseStepTypes DEF RolledBack, WorkerRuns, Phases
  <1>10. CASE LeftAsIs(r)
    BY <1>10, PhaseStepTypes DEF LeftAsIs, WorkerRuns, Phases
  <1>11. CASE Relaunch(r)
    <2>1. hosts' \in Nat /\ up' \subseteq 1 .. hosts'
      <3>1. CASE hosts' = hosts + 1 /\ up' = up \cup {hosts + 1}
        BY <3>1 DEF TypeOK
      <3>2. CASE UNCHANGED host
        BY <3>2 DEF host, TypeOK
      <3> QED
        BY <1>11, <3>1, <3>2 DEF Relaunch, Start
    <2> QED
      BY <1>11, <2>1 DEF Relaunch, To, TypeOK
  <1>12. CASE Complete(r)
    BY <1>12, PhaseStepTypes DEF Complete, WorkerRuns, Phases
  <1>13. CASE Finish(r)
    BY <1>13 DEF Finish, Release, To, TypeOK, Files, host
  <1>14. CASE Poll(r)
    BY <1>14, PhaseStepTypes DEF Poll, WorkerRuns, Phases
  <1>15. CASE WorkerDies(r)
    BY <1>15 DEF WorkerDies, WorkerRuns, To, TypeOK, host
  <1> QED
    BY <1>1, <1>2, <1>3, <1>4, <1>5, <1>6, <1>7, <1>8, <1>9, <1>10, <1>11, <1>12, <1>13,
       <1>14, <1>15 DEF WorkerStep

(* The host and the clock. *)
LEMMA WorldTypes ==
    ASSUME TypeOK, HostStarts \/ HostExits \/ \E r \in Requests : Age(r)
    PROVE  TypeOK'
  <1>1. CASE HostStarts
    <2>1. hosts' \in Nat /\ up' \subseteq 1 .. hosts'
      BY <1>1 DEF HostStarts, TypeOK
    <2> QED
      BY <1>1, <2>1 DEF HostStarts, procs, TypeOK
  <1>2. CASE HostExits
    BY <1>2 DEF HostExits, procs, TypeOK
  <1>3. ASSUME NEW r \in Requests, Age(r)
        PROVE  TypeOK'
    <2>1. session[r] \in [phase: Phases, needsExit: BOOLEAN, pid: Nat, beat: BOOLEAN]
      BY <1>3 DEF Age, TypeOK, Sessions, NoSession
    <2>2. session' \in [Requests -> Sessions]
      BY <1>3, <2>1 DEF Age, TypeOK, Sessions
    <2>3. \A q \in Requests : session[q] # NoSession => session'[q] # NoSession
      BY <1>3, <2>1 DEF Age, TypeOK, NoSession, Phases
    <2> QED
      BY <1>3, <2>2, <2>3 DEF Age, procs, host, TypeOK
  <1> QED
    BY <1>1, <1>2, <1>3

(* Every step keeps the types. *)
LEMMA TypeStep == TypeOK /\ [Next]_vars => TypeOK'
  <1> SUFFICES ASSUME TypeOK, [Next]_vars
               PROVE  TypeOK'
    OBVIOUS
  <1>1. CASE UNCHANGED vars
    BY <1>1 DEF vars, TypeOK
  <1>2. CASE Next
    BY <1>2, AcquireTypes, EngineTypes, WorkerTypes, WorldTypes DEF Next, EngineStep
  <1> QED
    BY <1>1, <1>2

-----------------------------------------------------------------------------
(* The lock. *)

(* Processes of different requests differ, and nobody is not a process. *)
LEMMA ProcessesDiffer ==
    ASSUME NEW q \in Requests, NEW r \in Requests
    PROVE  /\ Engine(q) # Worker(r)
           /\ Engine(q) = Engine(r) \/ Worker(q) = Worker(r) => q = r
           /\ None \notin {Engine(q), Worker(q)}
  BY ApplyAssumption DEF Engine, Worker

(* Two requests at work would have one file. *)
LEMMA OwnerIsAlone ==
    ASSUME Owned, ~takenOver, NEW q \in Requests, NEW r \in Requests, Owns(q), Owns(r)
    PROVE  q = r
  BY ProcessesDiffer DEF Owned

(* A step by which no request comes to own the lock, that leaves the file, and
   of the processes at most those of a request that does not own it or keeps
   what it knows of the file. *)
LEMMA LockStays ==
    ASSUME TypeOK, Owned, Refreshed, UNCHANGED <<lock, takenOver>>,
           \A q \in Requests :
              /\ Owns(q)' => Owns(q)
              /\ worker'[q] = "refresh" => worker[q] = "refresh" /\ opened'[q] = opened[q]
              /\ worker'[q] \notin {"none", "start", "refresh", "revive", "gone"} =>
                     worker[q] \notin {"none", "start", "refresh", "revive", "gone"}
    PROVE  Owned' /\ Refreshed'
  BY DEF Owned, Refreshed, Engine, Worker

(* The owner removes the lock file and is at work no longer. *)
LEMMA OwnerReleases ==
    ASSUME TypeOK, OneAfterTheOther, Owned, Refreshed, NEW r \in Requests, Owns(r), Release,
           UNCHANGED <<opened, takenOver>>,
           ~Owns(r)',
           \A q \in Requests \ {r} : engine'[q] = engine[q] /\ worker'[q] = worker[q]
    PROVE  Owned' /\ Refreshed'
  <1> SUFFICES ASSUME ~takenOver
               PROVE  Owned' /\ Refreshed'
    BY DEF Owned, Refreshed
  <1>1. \A q \in Requests : ~Owns(q)'
    BY OwnerIsAlone DEF Owns, Holds
  <1> QED
    BY <1>1 DEF Owned, Refreshed, Owns, Holds

(* The engine. *)
LEMMA EngineKeepsLock ==
    ASSUME IInv, NEW r \in Requests, Begin(r) \/ EngineStep(r) \/ EngineDies(r)
    PROVE  Owned' /\ Refreshed'
  <1> USE DEF IInv, ApplyInv, Owns, Holds
  <1>1. CASE Begin(r) \/ Found(r) \/ SaveSession(r) \/ EngineDies(r)
    <2>1. /\ UNCHANGED <<lock, takenOver, worker, opened>>
          /\ \A q \in Requests : Owns(q)' => Owns(q)
      BY <1>1 DEF Begin, Found, SaveSession, EngineDies, EngineRuns, TypeOK
    <2> QED
      BY <2>1, LockStays
  <1>2. CASE Create(r)
    <2> SUFFICES ASSUME ~takenOver
                 PROVE  Owned' /\ Refreshed'
      BY <1>2 DEF Create, Owned, Refreshed
    <2>1. \A q \in Requests : ~Owns(q)
      BY <1>2, ProcessesDiffer DEF Create, Owned, NoFile
    <2>2. \A q \in Requests : Owns(q)' => q = r
      BY <1>2, <2>1 DEF Create, TypeOK
    <2>3. worker[r] = "none"
      BY <1>2 DEF Create, OneAfterTheOther
    <2>4. lock'.file = Engine(r) /\ worker' = worker
      BY <1>2 DEF Create
    <2>5. Owned'
      BY <2>2, <2>4 DEF Owned, Engine, Worker
    <2>6. \A q \in Requests : worker'[q] \in {"none", "revive", "gone"}
      BY <2>1, <2>4
    <2> QED
      BY <2>5, <2>6 DEF Refreshed
  <1>3. CASE Write(r)
    <2> SUFFICES ASSUME ~takenOver
                 PROVE  Owned' /\ Refreshed'
      BY <1>3 DEF Write, Owned, Refreshed
    <2>1. /\ \A q \in Requests : Owns(q)' => Owns(q)
          /\ lock'.file = lock.file /\ UNCHANGED <<worker, opened, takenOver>>
      BY <1>3 DEF Write, TypeOK, Files, NoFile
    <2>2. \A q \in Requests : Owns(q) => q = r
      BY <1>3, OwnerIsAlone DEF Write
    <2>3. worker[r] = "none"
      BY <1>3 DEF Write, OneAfterTheOther
    <2>4. Owned'
      BY <2>1 DEF Owned, Engine, Worker
    <2>5. \A q \in Requests : worker'[q] \in {"none", "revive", "gone"}
      BY <2>1, <2>2, <2>3
    <2> QED
      BY <2>4, <2>5 DEF Refreshed
  <1>4. CASE RemoveStale(r)
    <2> SUFFICES ASSUME ~takenOver'
                 PROVE  Owned' /\ Refreshed'
      BY DEF Owned, Refreshed
    <2>1. /\ ~takenOver /\ worker' = worker
          /\ \A q \in Requests : Owns(q)' => Owns(q)
          /\ \A q \in Requests : Owns(q) => lock.file \notin {Engine(q), Worker(q)}
      BY <1>4 DEF RemoveStale, TypeOK
    <2>2. \A q \in Requests : ~Owns(q)
      BY <2>1 DEF Owned
    <2> QED
      BY <2>1, <2>2 DEF Owned, Refreshed
  <1>5. CASE ApplyFails(r) \/ LaunchFails(r) \/ Operated(r)
    <2>1. worker[r] = "none"
      BY <1>5 DEF ApplyFails, LaunchFails, Operated, OneAfterTheOther
    <2>2. /\ Owns(r) /\ Release /\ UNCHANGED <<opened, takenOver, worker>>
          /\ engine' = [engine EXCEPT ![r] = "gone"]
      BY <1>5 DEF ApplyFails, LaunchFails, Operated
    <2>3. /\ ~Owns(r)'
          /\ \A q \in Requests \ {r} : engine'[q] = engine[q] /\ worker'[q] = worker[q]
      BY <2>1, <2>2 DEF TypeOK
    <2> QED
      BY <2>2, <2>3, OwnerReleases
  <1>6. CASE Launch(r)
    <2>1. /\ UNCHANGED <<lock, takenOver, opened>>
          /\ \A q \in Requests : Owns(q)' => Owns(q)
          /\ \A q \in Requests : worker'[q] = worker[q] \/ worker'[q] = "start"
      BY <1>6 DEF Launch, TypeOK
    <2> QED
      BY <2>1, LockStays
  <1> QED
    BY <1>1, <1>2, <1>3, <1>4, <1>5, <1>6 DEF EngineStep

(* The worker. *)
LEMMA WorkerKeepsLock ==
    ASSUME IInv, NEW r \in Requests, WorkerStep(r) \/ Poll(r) \/ WorkerDies(r)
    PROVE  Owned' /\ Refreshed'
  <1> USE DEF IInv, ApplyInv, Owns, Holds
  <1>1. CASE RefreshOpen(r)
    <2> SUFFICES ASSUME ~takenOver
                 PROVE  Owned' /\ Refreshed'
      BY <1>1 DEF RefreshOpen, Owned, Refreshed
    <2>1. \A q \in Requests : Owns(q)' => q = r
      BY <1>1, OwnerIsAlone DEF RefreshOpen, TypeOK
    <2>2. lock'.file \in {Engine(r), Worker(r)} /\ opened'[r] = lock'.file
      BY <1>1 DEF RefreshOpen, Owned, TypeOK, Files
    <2>3. worker'[r] = "refresh" /\ takenOver' = takenOver
      BY <1>1 DEF RefreshOpen, TypeOK
    <2>4. Owned'
      BY <2>1, <2>2 DEF Owned, Engine, Worker
    <2>5. \A q \in Requests \ {r} : worker'[q] \in {"none", "revive", "gone"}
      BY <2>1
    <2> QED
      BY <2>2, <2>3, <2>4, <2>5 DEF Refreshed
  <1>2. CASE RefreshWrite(r)
    <2> SUFFICES ASSUME ~takenOver
                 PROVE  Owned' /\ Refreshed'
      BY <1>2 DEF RefreshWrite, Owned, Refreshed
    <2>1. \A q \in Requests : Owns(q)' => q = r
      BY <1>2, OwnerIsAlone DEF RefreshWrite, TypeOK
    <2>2. lock'.file \in {Engine(r), Worker(r)} /\ lock'.pid = Worker(r)
      BY <1>2 DEF RefreshWrite, Owned, Refreshed, TypeOK, Files, NoFile
    <2>3. worker'[r] \in {"wait", "download"}
      BY <1>2 DEF RefreshWrite, TypeOK
    <2>4. Owned'
      BY <2>1, <2>2 DEF Owned, Engine, Worker
    <2>5. \A q \in Requests \ {r} : worker'[q] \in {"none", "revive", "gone"}
      BY <2>1
    <2> QED
      BY <2>2, <2>3, <2>4, <2>5 DEF Refreshed, Worker
  <1>3. CASE Finish(r)
    <2>1. /\ Owns(r) /\ Release /\ UNCHANGED <<opened, takenOver, engine>>
          /\ worker'[r] \in {"revive", "gone"}
          /\ \A q \in Requests \ {r} : worker'[q] = worker[q]
      BY <1>3 DEF Finish, To, TypeOK
    <2>2. ~Owns(r)'
      BY <1>3, <2>1 DEF Finish, OneAfterTheOther
    <2> QED
      BY <2>1, <2>2, OwnerReleases
  <1>4. CASE WorkerDies(r)
    <2>1. /\ UNCHANGED <<lock, takenOver, opened>>
          /\ \A q \in Requests : Owns(q)' => Owns(q)
          /\ \A q \in Requests : worker'[q] = worker[q] \/ worker'[q] = "gone"
      BY <1>4 DEF WorkerDies, To, TypeOK
    <2> QED
      BY <2>1, LockStays
  <1>5. CASE Relaunch(r)
    <2>1. /\ UNCHANGED <<lock, takenOver, opened>>
          /\ \A q \in Requests : Owns(q)' => Owns(q)
          /\ \A q \in Requests : \/ worker'[q] = worker[q] \/ worker'[q] = "gone"
                                 \/ worker'[q] = "complete" /\ worker[q] = "relaunch"
      BY <1>5 DEF Relaunch, To, TypeOK
    <2> QED
      BY <2>1, LockStays
  <1>6. CASE ~(RefreshOpen(r) \/ RefreshWrite(r) \/ Finish(r) \/ WorkerDies(r) \/ Relaunch(r))
    <2>1. /\ UNCHANGED <<lock, takenOver, opened, engine>>
          /\ worker[r] \in {"wait", "download", "copy", "install", "complete"}
          /\ \E point \in {"wait", "download", "copy", "install", "relaunch", "complete",
                            "release", "free"} : worker' = [worker EXCEPT ![r] = point]
      BY <1>6 DEF WorkerStep, Poll, HostLeft, GiveUpWaiting, Download, DownloadFails, Copy,
                  Written, RolledBack, LeftAsIs, Complete, StayedFor, To, TypeOK
    <2>2. /\ \A q \in Requests : Owns(q)' => Owns(q)
          /\ \A q \in Requests : \/ worker'[q] = worker[q]
                                 \/ q = r /\ worker'[q] # "refresh"
      BY <2>1 DEF TypeOK
    <2> QED
      BY <2>1, <2>2, LockStays
  <1> QED
    BY <1>1, <1>2, <1>3, <1>4, <1>5, <1>6

(* The host and the clock. *)
LEMMA WorldKeepsLock ==
    ASSUME IInv, HostStarts \/ HostExits \/ \E r \in Requests : Age(r)
    PROVE  Owned' /\ Refreshed'
  <1>1. UNCHANGED <<lock, takenOver, engine, worker, opened>>
    BY DEF HostStarts, HostExits, Age, procs
  <1> QED
    BY <1>1 DEF IInv, ApplyInv, Owned, Refreshed, Owns, Holds

-----------------------------------------------------------------------------
(* The engine and its worker, and what the worker records. *)

(* A worker starts when its engine goes, and the engine does not come back. *)
LEMMA OneAfterTheOtherStays ==
    ASSUME IInv, Next
    PROVE  OneAfterTheOther'
  <1>1. ASSUME NEW r \in Requests, Begin(r) \/ EngineStep(r) \/ EngineDies(r)
        PROVE  OneAfterTheOther'
    <2>1. /\ engine[r] # "gone" /\ \A q \in Requests \ {r} : engine'[q] = engine[q]
          /\ \/ worker' = worker
             \/ engine'[r] = "gone" /\ \A q \in Requests \ {r} : worker'[q] = worker[q]
      BY <1>1 DEF Begin, EngineStep, Create, Write, Found, RemoveStale, ApplyFails, SaveSession,
                  Launch, LaunchFails, Operated, EngineDies, EngineRuns, IInv, TypeOK
    <2> QED
      BY <2>1 DEF IInv, ApplyInv, OneAfterTheOther
  <1>2. ASSUME NEW r \in Requests, WorkerStep(r) \/ Poll(r) \/ WorkerDies(r)
        PROVE  OneAfterTheOther'
    <2>1. /\ engine' = engine /\ worker[r] # "none"
          /\ \A q \in Requests \ {r} : worker'[q] = worker[q]
      BY <1>2 DEF WorkerStep, Poll, RefreshOpen, RefreshWrite, HostLeft, GiveUpWaiting,
                  Download, DownloadFails, Copy, Written, RolledBack, LeftAsIs, Relaunch, Complete,
                  Finish, WorkerDies, WorkerRuns, StayedFor, To, IInv, TypeOK
    <2> QED
      BY <2>1 DEF IInv, ApplyInv, OneAfterTheOther
  <1>3. CASE HostStarts \/ HostExits \/ \E r \in Requests : Age(r)
    BY <1>3 DEF HostStarts, HostExits, Age, procs, IInv, ApplyInv, OneAfterTheOther
  <1> QED
    BY <1>1, <1>2, <1>3 DEF Next

(* What setPhase leaves in the record. *)
LEMMA PhaseIsSet ==
    ASSUME TypeOK, NEW r \in Requests, session[r] # NoSession, NEW phase, setPhase(r, phase)
    PROVE  /\ session'[r].phase = phase
           /\ \A q \in Requests \ {r} : session'[q] = session[q]
  <1>1. session[r] \in [phase: Phases, needsExit: BOOLEAN, pid: Nat, beat: BOOLEAN]
    BY DEF TypeOK, Sessions
  <1> DEFINE new == [session[r] EXCEPT !.phase = phase,
                                       !.beat = session[r].needsExit /\ phase \in Working]
  <1>2. session' = [session EXCEPT ![r] = new]
    BY DEF setPhase
  <1>3. new.phase = phase
    BY <1>1
  <1> HIDE DEF new
  <1> QED
    BY <1>2, <1>3 DEF TypeOK

(* The phase fits the work of the worker: it is recorded with the step that
   begins it. *)
LEMMA PhaseFitsStays ==
    ASSUME IInv, Next
    PROVE  PhaseFits'
  <1> USE DEF IInv, ApplyInv
  <1>1. ASSUME NEW r \in Requests, Begin(r) \/ EngineStep(r) \/ EngineDies(r)
        PROVE  PhaseFits'
    <2>1. /\ worker[r] = "none" \/ session' = session
          /\ worker' \in {worker, [worker EXCEPT ![r] = "start"]}
          /\ \A q \in Requests \ {r} : session'[q] = session[q]
      BY <1>1 DEF Begin, EngineStep, Create, Write, Found, RemoveStale, ApplyFails, SaveSession,
                  Launch, LaunchFails, Operated, EngineDies, TypeOK, OneAfterTheOther
    <2> QED
      BY <2>1 DEF PhaseFits, TypeOK
  <1>2. ASSUME NEW r \in Requests, WorkerStep(r) \/ Poll(r)
        PROVE  PhaseFits'
    <2>1. session[r] # NoSession
      BY <1>2 DEF TypeOK, WorkerStep, Poll, RefreshOpen, RefreshWrite, HostLeft, GiveUpWaiting,
                  Download, DownloadFails, Copy, Written, RolledBack, LeftAsIs, Relaunch,
                  Complete, Finish
    <2>2. ASSUME NEW phase, NEW point, setPhase(r, phase), To(r, point),
                 point = "copy" => phase = "COPYING",
                 point = "install" => phase = "COMMITTING",
                 point = "relaunch" => phase = "RELAUNCHING",
                 point \in {"free", "revive"} => phase \in {"ROLLED_BACK", "NEEDS_ATTENTION"}
          PROVE  PhaseFits'
      <3>1. /\ session'[r].phase = phase
            /\ \A q \in Requests \ {r} : session'[q] = session[q]
        BY <2>1, <2>2, PhaseIsSet
      <3>2. /\ worker'[r] = point
            /\ \A q \in Requests \ {r} : worker'[q] = worker[q]
        BY <2>2 DEF To, TypeOK
      <3> QED
        BY <2>2, <3>1, <3>2 DEF PhaseFits
    <2>3. CASE GiveUpWaiting(r)
      BY <2>2, <2>3 DEF GiveUpWaiting
    <2>4. CASE Download(r) \/ Poll(r)
      <3>1. \A q \in Requests \ {r} : session'[q] = session[q]
        BY <2>1, <2>4, PhaseIsSet DEF Download, Poll
      <3> QED
        BY <2>4, <3>1 DEF Download, Poll, PhaseFits
    <2>5. CASE DownloadFails(r)
      BY <2>2, <2>5 DEF DownloadFails
    <2>6. CASE Copy(r)
      BY <2>2, <2>6 DEF Copy
    <2>7. CASE Written(r)
      <3>1. CASE UNCHANGED session /\ To(r, "complete")
        BY <3>1 DEF To, TypeOK, PhaseFits
      <3> QED
        BY <2>2, <2>7, <3>1, Zenon DEF Written
    <2>8. CASE RolledBack(r)
      BY <2>2, <2>8 DEF RolledBack
    <2>9. CASE LeftAsIs(r)
      BY <2>2, <2>9 DEF LeftAsIs
    <2>10. CASE Complete(r)
      BY <2>2, <2>10 DEF Complete
    <2>11. CASE RefreshOpen(r) \/ RefreshWrite(r) \/ Relaunch(r)
      BY <2>11 DEF RefreshOpen, RefreshWrite, Relaunch, To, TypeOK, PhaseFits
    <2>12. CASE HostLeft(r)
      BY <2>12 DEF HostLeft, To, TypeOK, PhaseFits
    <2>13. CASE Finish(r)
      BY <2>13 DEF Finish, To, TypeOK, PhaseFits
    <2> QED
      BY <1>2, <2>3, <2>4, <2>5, <2>6, <2>7, <2>8, <2>9, <2>10, <2>11, <2>12, <2>13 DEF WorkerStep
  <1>3. ASSUME NEW r \in Requests, WorkerDies(r)
        PROVE  PhaseFits'
    BY <1>3 DEF WorkerDies, To, TypeOK, PhaseFits
  <1>4. ASSUME NEW r \in Requests, Age(r)
        PROVE  PhaseFits'
    <2>1. /\ worker' = worker
          /\ \A q \in Requests : session'[q].phase = session[q].phase
      BY <1>4 DEF Age, procs, TypeOK, Sessions, NoSession
    <2> QED
      BY <2>1 DEF PhaseFits
  <1>5. CASE HostStarts \/ HostExits
    BY <1>5 DEF HostStarts, HostExits, procs, PhaseFits
  <1> QED
    BY <1>1, <1>2, <1>3, <1>4, <1>5 DEF Next

-----------------------------------------------------------------------------
(* The theorems. *)

(* At first nobody is at work. *)
LEMMA InitIsGood == Init => IInv
  <1> SUFFICES ASSUME Init
               PROVE  IInv
    OBVIOUS
  <1>1. TypeOK
    <2>1. session \in [Requests -> Sessions]
      BY DEF Init, Sessions
    <2>2. began \in [Requests -> Nat] /\ up \subseteq 1 .. hosts
      BY DEF Init
    <2> QED
      BY <2>1, <2>2 DEF Init, TypeOK, Files, EnginePoints, WorkerPoints
  <1>2. ApplyInv
    BY DEF Init, ApplyInv, OneAfterTheOther, Owned, Refreshed, PhaseFits, Owns, Holds
  <1> QED
    BY <1>1, <1>2 DEF IInv

(* Every step keeps the invariant. *)
LEMMA StepKeepsInvariant == IInv /\ [Next]_vars => IInv'
  <1> SUFFICES ASSUME IInv, [Next]_vars
               PROVE  IInv'
    OBVIOUS
  <1>1. TypeOK'
    BY TypeStep DEF IInv
  <1>2. CASE Next
    <2>1. Owned' /\ Refreshed'
      BY <1>2, EngineKeepsLock, WorkerKeepsLock, WorldKeepsLock DEF Next
    <2> QED
      BY <1>1, <1>2, <2>1, OneAfterTheOtherStays, PhaseFitsStays DEF IInv, ApplyInv
  <1>3. CASE UNCHANGED vars
    BY <1>1, <1>3 DEF vars, IInv, ApplyInv, OneAfterTheOther, Owned, Refreshed, PhaseFits, Owns,
                      Holds
  <1> QED
    BY <1>2, <1>3

(* The inductive invariant implies what requests count on. *)
LEMMA InvariantIsEnough == IInv => ApplyIsExclusive
  <1> SUFFICES ASSUME IInv
               PROVE  ApplyIsExclusive
    OBVIOUS
  <1> USE DEF IInv, ApplyInv
  <1>1. AloneUnlessTakenOver
    BY OwnerIsAlone DEF AloneUnlessTakenOver, Owns
  <1>2. WriterKeepsHostOut
    <2> SUFFICES ASSUME NEW r \in Requests, worker[r] \in {"copy", "install"},
                        session[r].needsExit, ~takenOver
                 PROVE  hostMustExit(r)
      BY DEF WriterKeepsHostOut
    <2>1. session[r].phase \in Working
      BY DEF PhaseFits, Working
    <2>2. lock.pid = Worker(r)
      BY DEF Refreshed
    <2>3. processAlive(Worker(r))
      BY ProcessesDiffer DEF processAlive, Worker, WorkerRuns
    <2> QED
      BY <2>1, <2>2, <2>3 DEF hostMustExit
  <1>3. RelaunchedMayStay
    BY DEF RelaunchedMayStay, hostMustExit, PhaseFits, Working
  <1> QED
    BY <1>1, <1>2, <1>3 DEF ApplyIsExclusive

(* The state of every process, lock file and session keeps its type (acquire,
   handleApply, RunWorker). *)
THEOREM TypeCorrect == Spec => []TypeOK
  <1>1. Init => TypeOK
    BY InitIsGood DEF IInv
  <1> QED
    BY <1>1, TypeStep, PTL DEF Spec

(* However many requests apply, operate, fail and die: two are at work at once
   only after a lock file was taken for a dead one's, a worker that writes keeps
   starting hosts out, and a host that a worker starts again may stay
   (acquireApplyLock, runApplyFlow, hostMustExit). *)
THEOREM ApplyExclusion == Spec => []ApplyIsExclusive
  BY InitIsGood, StepKeepsInvariant, InvariantIsEnough, PTL DEF Spec

-----------------------------------------------------------------------------
(* The data directory: any number of engines beside each other, as many workers as
   the host asks for. *)

RequestOps ==
    {"idle", "plans", "clean", "staging", "fetch", "decide", "savePlan", "offer",
     "skip", "save", "share", "download", "mark"}

States == [floor : 0..MaxCode, skipped : SUBSET Codes]

RequestType ==
    [op : RequestOps, checks : BOOLEAN, state : States,
     began : 0..MaxNow, guarded : SUBSET PlanIds, known : SUBSET PlanIds,
     id : PlanIds \cup {NoId}, plan : Plans]

SessionType ==
    [plan : PlanIds, phase : {"working", "failed", "done"}, sign : 0..MaxNow,
     there : BOOLEAN, worker : {"none", "wait", "fetch", "save", "copy"}, copy : Plans]

DataType ==
    /\ DataTypeOK
    /\ sessions \in Seq(SessionType)
    /\ request \in [Engines -> RequestType]

Alive(i) == sessions[i].worker # "none"

(* An apply begins when no worker is alive, and a worker that is alive beats. *)
WorkersBeat ==
    \A i \in DOMAIN sessions : Alive(i) =>
        i = Len(sessions) /\ sessionIsLive(sessions[i], now)

(* With r on the disk the answer lives no shorter than with d. *)
Younger(r, d) == d.expires <= r.expires \/ d.expires <= now

(* The record c that a worker read, and the one that is on the disk since. *)
CopyFits(c, d) ==
    /\ c.code # 0 /\ c.expires <= now + PlanTTL
    /\ d.code \in {0, c.code}
    /\ c.code \notin disputed => Younger(d, c)

CopiesFit ==
    \A i \in DOMAIN sessions : Alive(i) => CopyFits(sessions[i].copy, plan[sessions[i].plan])

ExpiriesFit ==
    \A p \in PlanIds :
        plan[p].expires <= now + PlanTTL /\ (plan[p].code = 0 => plan[p] = NoPlan)

(* A sweep or a cleanup that is under way knows of every worker that was there when
   it began. *)
SweepFits(r) ==
    /\ r.began <= now
    /\ r.op \in {"plans", "staging"} =>
           \A i \in DOMAIN sessions \ raced : Alive(i) => sessions[i].plan \in r.guarded
    /\ r.op = "clean" /\ r.id # NoId => \A i \in DOMAIN sessions : Alive(i) => i \in raced

(* Who will write the state has every skip that is kept, and offers none of them. *)
StateFits(r) ==
    /\ HasState(r) => kept \subseteq r.state.skipped
    /\ r.checks => r.plan.code \notin r.state.skipped \ Mandatory
    /\ r.op \in {"fetch", "decide", "savePlan", "offer"} => r.checks
    /\ r.op \in {"skip", "save", "share"} /\ ~r.checks => r.plan.code \in r.state.skipped

(* The record with the name q may become r: no other plan is live for the answer. *)
Sole(q, r) ==
    \A p \in PlanIds \ {q} :
        Present(p) /\ now < plan[p].expires /\ now < r.expires => plan[p].code # r.code

Writes(r) == r.op \in {"savePlan", "download", "mark"}

(* So for a record that a request is about to write, and no worker has a younger. *)
WriteFits(r) ==
    Writes(r) =>
        /\ r.id \in PlanIds /\ r.plan.code # 0 /\ r.plan.expires <= now + PlanTTL
        /\ plan[r.id].code \in {0, r.plan.code}
        /\ \A i \in DOMAIN sessions : Alive(i) /\ sessions[i].plan = r.id =>
               sessions[i].copy.code = r.plan.code
        /\ r.plan.code \notin disputed =>
               /\ Sole(r.id, r.plan) /\ Younger(r.plan, plan[r.id])
               /\ \A i \in DOMAIN sessions : Alive(i) /\ sessions[i].plan = r.id =>
                      Younger(r.plan, sessions[i].copy)

RequestFits(r) == SweepFits(r) /\ StateFits(r) /\ WriteFits(r)

(* Two requests that hold records of one code are known to; one name is of one code. *)
Differ(r, q) ==
    Writes(r) /\ Writes(q) =>
        /\ r.plan.code = q.plan.code => r.plan.code \in disputed
        /\ r.id = q.id => r.plan.code = q.plan.code

RecordsDiffer == \A e, f \in Engines : e # f => Differ(request[e], request[f])

(* What e may do beside what the others hold. *)
HeldApart(e, r) == \A f \in Engines \ {e} : Differ(r, request[f])

DiskFits ==
    /\ WorkersBeat /\ CopiesFit /\ ExpiriesFit
    /\ LiveKeepsFiles /\ OnePlanPerAnswer
    /\ kept \subseteq state.skipped

DataInv == DataType /\ DiskFits /\ (\A e \in Engines : RequestFits(request[e])) /\ RecordsDiffer

(* What the invariant says of the values. *)
LEMMA DataValues ==
    ASSUME DataAssumption, DataInv
    PROVE  /\ now \in 0..MaxNow /\ now \in Nat /\ MaxNow \in Nat /\ MaxCode \in Nat
           /\ PlanTTL \in Nat \ {0} /\ MaxSessions \in Nat
           /\ head \in 0..MaxCode /\ installed \in 0..MaxCode
           /\ plan \in [PlanIds -> Plans] /\ NoPlan \in Plans
           /\ \A p \in PlanIds : plan[p].expires \in Nat /\ plan[p].code \in Nat
           /\ staged \in [PlanIds -> SUBSET {"file", "worker"}]
           /\ sessions \in Seq(SessionType) /\ DOMAIN sessions = 1..Len(sessions)
           /\ Len(sessions) \in Nat
           /\ disputed \subseteq Codes /\ kept \subseteq Codes /\ raced \subseteq 1..MaxSessions
  BY DEF DataInv, DataType, DataTypeOK, DataAssumption, Plans, NoPlan

(* What a request is, and what it fits. *)
LEMMA RequestHere ==
    ASSUME DataInv, NEW e \in Engines
    PROVE  /\ request[e] \in RequestType /\ RequestFits(request[e])
           /\ request \in [Engines -> RequestType]
           /\ state \in States
           /\ kept \subseteq state.skipped
  BY DEF DataInv, DataType, DataTypeOK, DiskFits, States

(* Nothing is asked of an engine that has ended. *)
LEMMA IdleFits ==
    ASSUME DataAssumption
    PROVE  /\ Idle \in RequestType /\ Idle.op = "idle" /\ ~Idle.checks /\ Idle.began = 0
           /\ Idle.plan = NoPlan
  <1>1. NoState \in States /\ NoPlan \in Plans /\ 0 \in 0..MaxNow
    BY DEF DataAssumption, NoState, NoPlan, States, Plans
  <1> QED
    BY <1>1, Zenon DEF Idle, RequestType, RequestOps

LEMMA IdleStays ==
    ASSUME DataAssumption, now' \in Nat
    PROVE  RequestFits(Idle)' /\ \A e \in Engines : HeldApart(e, Idle)'
  BY IdleFits DEF RequestFits, SweepFits, StateFits, WriteFits, HasState, Writes, HeldApart, Differ

LEMMA InitData ==
    ASSUME DataAssumption, DataInit
    PROVE  DataInv
  <1>1. DataType
    <2>1. sessions \in Seq(SessionType)
      BY DEF DataInit
    <2> QED
      BY <2>1, IdleFits
      DEF DataType, DataTypeOK, DataInit, DataAssumption, NoState, NoPlan, Plans, Codes
  <1>2. DOMAIN sessions = {}
    BY DEF DataInit
  <1>3. DiskFits
    BY <1>2 DEF DataInit, DataAssumption, DiskFits, WorkersBeat, CopiesFit, ExpiriesFit,
                LiveKeepsFiles, OnePlanPerAnswer, Present, NoPlan
  <1>4. \A e \in Engines : request[e] = Idle
    BY DEF DataInit
  <1>5. RequestFits(Idle)
    BY IdleFits DEF RequestFits, SweepFits, StateFits, WriteFits, HasState, Writes, DataInit
  <1>6. RecordsDiffer
    BY <1>4, IdleFits DEF RecordsDiffer, Differ, Writes
  <1> QED
    BY <1>1, <1>3, <1>4, <1>5, <1>6 DEF DataInv

(* What another engine is about to do stays right: records have at most gone, and no
   worker was added. *)
LEMMA FitStays ==
    ASSUME DataAssumption, DataInv, NEW r \in RequestType, RequestFits(r),
           UNCHANGED <<now, raced>>, disputed \subseteq disputed',
           HasState(r) => kept' \subseteq r.state.skipped,
           \A p \in PlanIds : plan'[p] = plan[p] \/ plan'[p] = NoPlan,
           DOMAIN sessions' = DOMAIN sessions,
           \A i \in DOMAIN sessions : Alive(i)' => Alive(i) /\ sessions'[i] = sessions[i]
    PROVE  RequestFits(r)'
  <1>1. SweepFits(r)' /\ StateFits(r)'
    BY DEF RequestFits, SweepFits, StateFits
  <1>2. WriteFits(r)'
    <2>1. SUFFICES ASSUME Writes(r) PROVE WriteFits(r)'
      BY DEF WriteFits
    <2>2. /\ r.id \in PlanIds /\ r.plan.code # 0 /\ r.plan.expires <= now + PlanTTL
          /\ plan[r.id].code \in {0, r.plan.code}
      BY <2>1 DEF RequestFits, WriteFits
    <2>3. plan'[r.id].code \in {0, r.plan.code}
      BY <2>2 DEF NoPlan
    <2>4. \A i \in DOMAIN sessions' : Alive(i)' /\ sessions'[i].plan = r.id =>
              sessions'[i].copy.code = r.plan.code
      BY <2>1 DEF RequestFits, WriteFits
    <2>5. ASSUME r.plan.code \notin disputed'
          PROVE  /\ Sole(r.id, r.plan)' /\ Younger(r.plan, plan[r.id])'
                 /\ \A i \in DOMAIN sessions' : Alive(i)' /\ sessions'[i].plan = r.id =>
                        Younger(r.plan, sessions[i].copy)'
      <3>1. /\ Sole(r.id, r.plan) /\ Younger(r.plan, plan[r.id])
            /\ \A i \in DOMAIN sessions : Alive(i) /\ sessions[i].plan = r.id =>
                   Younger(r.plan, sessions[i].copy)
        BY <2>1, <2>5 DEF RequestFits, WriteFits
      <3>2. Sole(r.id, r.plan)'
        BY <3>1 DEF Sole, Present
      <3>3. Younger(r.plan, plan[r.id])'
        BY <2>2, <3>1, DataValues DEF Younger, NoPlan
      <3>4. \A i \in DOMAIN sessions' : Alive(i)' /\ sessions'[i].plan = r.id =>
                        Younger(r.plan, sessions[i].copy)'
        BY <3>1 DEF Younger
      <3> QED
        BY <3>2, <3>3, <3>4
    <2> QED
      BY <2>1, <2>2, <2>3, <2>4, <2>5 DEF WriteFits
  <1> QED
    BY <1>1, <1>2 DEF RequestFits

(* One engine's request changes: the others' are as they were. *)
LEMMA OthersStay ==
    ASSUME DataInv, NEW e \in Engines, NEW r \in RequestType,
           request' = [request EXCEPT ![e] = r], disputed \subseteq disputed', HeldApart(e, r)'
    PROVE  /\ request' \in [Engines -> RequestType] /\ request'[e] = r
           /\ \A f \in Engines \ {e} : request'[f] = request[f]
           /\ RecordsDiffer'
  <1>1. /\ request' \in [Engines -> RequestType] /\ request'[e] = r
        /\ \A f \in Engines \ {e} : request'[f] = request[f]
    BY RequestHere
  <1>2. ASSUME NEW f \in Engines, NEW g \in Engines, f # g
        PROVE  Differ(request[f], request[g])'
    <2>1. CASE f = e
      BY <1>1, <1>2, <2>1 DEF HeldApart, Differ
    <2>2. CASE g = e
      BY <1>1, <1>2, <2>2 DEF HeldApart, Differ
    <2>3. CASE f # e /\ g # e
      BY <1>1, <1>2, <2>3 DEF DataInv, RecordsDiffer, Differ
    <2> QED
      BY <2>1, <2>2, <2>3
  <1> QED
    BY <1>1, <1>2 DEF RecordsDiffer

(* A step that leaves the directory alone. *)
LEMMA RequestMoves ==
    ASSUME DataAssumption, DataInv, NEW e \in Engines, NEW r \in RequestType,
           RequestFits(r)', HeldApart(e, r)',
           request' = [request EXCEPT ![e] = r],
           UNCHANGED <<now, head, installed, plan, staged, sessions, raced>>,
           state' \in States,
           kept' \subseteq state'.skipped,
           \A f \in Engines \ {e} : HasState(request[f]) => kept' \subseteq request[f].state.skipped,
           disputed \subseteq disputed', disputed' \subseteq Codes
    PROVE  DataInv'
  <1>1. /\ request' \in [Engines -> RequestType] /\ request'[e] = r
        /\ \A f \in Engines \ {e} : request'[f] = request[f]
        /\ RecordsDiffer'
    BY OthersStay
  <1>2. DataType'
    BY <1>1 DEF DataInv, DataType, DataTypeOK, States
  <1>3. DiskFits'
    <2>1. WorkersBeat' /\ CopiesFit' /\ ExpiriesFit' /\ LiveKeepsFiles'
      BY DEF DataInv, DiskFits, WorkersBeat, CopiesFit, CopyFits, Younger, ExpiriesFit,
             LiveKeepsFiles, Alive, sessionIsLive, Present
    <2>2. OnePlanPerAnswer'
      BY DEF DataInv, DiskFits, OnePlanPerAnswer, Present
    <2> QED
      BY <2>1, <2>2 DEF DiskFits
  <1>4. ASSUME NEW f \in Engines \ {e}
        PROVE  RequestFits(request[f])'
    <2>1. PICK q \in RequestType : q = request[f] /\ RequestFits(q)
      BY RequestHere
    <2>2. RequestFits(q)'
      BY <2>1, FitStays DEF Alive
    <2> QED
      BY <1>1, <2>1, <2>2
  <1> QED
    BY <1>1, <1>2, <1>3, <1>4 DEF DataInv

(* A request ends: the answer was given, or the process died. *)
LEMMA RequestEnds ==
    ASSUME DataAssumption, DataInv, NEW e \in Engines, Answer(e),
           UNCHANGED <<now, head, installed, plan, staged, sessions, raced>>,
           state' \in States,
           kept' \subseteq state'.skipped,
           \A f \in Engines \ {e} : HasState(request[f]) => kept' \subseteq request[f].state.skipped,
           UNCHANGED disputed
    PROVE  DataInv'
  <1>1. request' = [request EXCEPT ![e] = Idle]
    BY DEF Answer
  <1>2. Idle \in RequestType /\ RequestFits(Idle)' /\ HeldApart(e, Idle)'
    BY IdleFits, IdleStays, DataValues
  <1> QED
    BY <1>1, <1>2, DataValues, RequestMoves

LEMMA RequestStops ==
    ASSUME DataAssumption, DataInv, NEW e \in Engines, RequestDies(e)
    PROVE  DataInv'
  <1>1. /\ Answer(e)
        /\ UNCHANGED <<now, head, installed, state, plan, staged, sessions, kept, disputed, raced>>
    BY DEF RequestDies, histories
  <1>2. \A f \in Engines : HasState(request[f]) => kept \subseteq request[f].state.skipped
    BY RequestHere DEF RequestFits, StateFits
  <1> QED
    BY <1>1, <1>2, RequestHere, RequestEnds

(* Who is about to save the state opens the temporary file, for itself or with others. *)
LEMMA StateOpens ==
    ASSUME DataAssumption, DataInv, NEW e \in Engines, OpenState(e),
           HasState(request[e]),
           ~request[e].checks => request[e].plan.code \in request[e].state.skipped,
           UNCHANGED <<now, head, installed, state, plan, staged, sessions, histories>>
    PROVE  DataInv'
  <1>1. ASSUME NEW f \in Engines
        PROVE  \E q \in RequestType :
                  /\ q = request'[f] /\ RequestFits(q)
                  /\ q = request[f] \/ ~Writes(q)
    <2> DEFINE anew(op) == [request[f] EXCEPT !.op = op]
    <2>1. CASE request'[f] = request[f]
      BY <2>1, RequestHere
    <2>2. CASE request'[f] # request[f]
      <3>1. \E op \in {"save", "share"} : request'[f] = anew(op)
        BY <2>2 DEF OpenState
      <3>2. PICK op \in {"save", "share"} : request'[f] = anew(op)
        BY <3>1
      <3>3. PICK q : q = anew(op)
        OBVIOUS
      <3>4. /\ q \in RequestType /\ q.op = op /\ q.checks = request[f].checks
            /\ q.state = request[f].state /\ q.plan = request[f].plan
            /\ q.began = request[f].began
        <4>1. op \in RequestOps
          BY DEF RequestOps
        <4>z. request[f] \in RequestType
          BY RequestHere
        <4> QED
          BY <3>3, <4>1, <4>z, Zenon DEF RequestType
      <3>5. HasState(request[f]) /\ (~request[f].checks => request[f].plan.code \in request[f].state.skipped)
        <4>1. f = e \/ request[f].op \in {"save", "share"}
          BY <2>2 DEF OpenState
        <4> QED
          BY <4>1, RequestHere DEF HasState, RequestFits, StateFits
      <3>6. RequestFits(q)
        BY <3>4, <3>5, RequestHere DEF RequestFits, SweepFits, StateFits, WriteFits, Writes, HasState
      <3> QED
        BY <3>2, <3>3, <3>4, <3>6 DEF Writes
    <2> QED
      BY <2>1, <2>2
  <1>2. request' \in [Engines -> RequestType]
    BY <1>1 DEF OpenState
  <1>3. DataType' /\ DiskFits'
    BY <1>2 DEF DataInv, DataType, DataTypeOK, DiskFits, WorkersBeat, CopiesFit, CopyFits, Younger,
                ExpiriesFit, LiveKeepsFiles, OnePlanPerAnswer, Alive, sessionIsLive, Present, histories
  <1>4. \A f \in Engines : RequestFits(request[f])'
    <2>1. ASSUME NEW f \in Engines
          PROVE  RequestFits(request[f])'
      <3>1. PICK q \in RequestType : q = request'[f] /\ RequestFits(q)
        BY <1>1
      <3>2. RequestFits(q)'
        BY <3>1, FitStays DEF Alive, histories, RequestFits, StateFits
      <3> QED
        BY <3>1, <3>2
    <2> QED
      BY <2>1
  <1>5. RecordsDiffer'
    <2>1. \A f \in Engines : Writes(request'[f]) => request'[f] = request[f]
      BY <1>1
    <2> QED
      BY <2>1 DEF DataInv, RecordsDiffer, Differ, histories
  <1> QED
    BY <1>3, <1>4, <1>5 DEF DataInv

LEMMA AnswerGiven ==
    ASSUME DataAssumption, DataInv, NEW e \in Engines, NoOffer(e) \/ Offer(e)
    PROVE  DataInv'
  <1>1. /\ OpenState(e) /\ request[e].op \in {"fetch", "decide", "offer"}
        /\ UNCHANGED <<now, head, installed, state, plan, staged, sessions, histories>>
    BY DEF NoOffer, Offer
  <1>2. request[e].checks
    BY <1>1, RequestHere DEF RequestFits, StateFits
  <1> QED
    BY <1>1, <1>2, StateOpens DEF HasState

(* A skip has read the state; it ends or writes it. *)
LEMMA SkipGoesOn ==
    ASSUME DataAssumption, DataInv, NEW e \in Engines, Skip(e)
    PROVE  DataInv'
  <1>1. /\ request[e].op = "skip" /\ (Answer(e) \/ OpenState(e))
        /\ UNCHANGED <<load, now, head, installed, state, plan, staged, sessions, histories>>
    BY DEF Skip
  <1>2. CASE Answer(e)
    BY <1>1, <1>2, RequestStops DEF RequestDies
  <1>3. CASE OpenState(e)
    <2>1. HasState(request[e])
      BY <1>1 DEF HasState
    <2>2. ~request[e].checks => request[e].plan.code \in request[e].state.skipped
      BY <1>1, RequestHere DEF RequestFits, StateFits
    <2> QED
      BY <1>1, <1>3, <2>1, <2>2, StateOpens
  <1> QED
    BY <1>1, <1>2, <1>3

(* The state is written: a skip that everybody else knows of is kept from now on. *)
LEMMA StateCloses ==
    ASSUME DataAssumption, DataInv, NEW e \in Engines, CloseState(e)
    PROVE  DataInv'
  <1>1. /\ request[e].op = "save" /\ Answer(e) /\ state' = request[e].state
        /\ kept' = IF request[e].checks \/ \E f \in Engines \ {e} :
                       HasState(request[f]) /\ request[e].plan.code \notin request[f].state.skipped
                   THEN kept ELSE kept \cup {request[e].plan.code}
        /\ UNCHANGED <<now, head, installed, plan, staged, sessions, disputed, raced>>
    BY DEF CloseState, SaveState
  <1>2. /\ state' \in States
        /\ kept \subseteq state'.skipped
        /\ ~request[e].checks => request[e].plan.code \in state'.skipped
    <2>1. /\ request[e].state \in States /\ kept \subseteq request[e].state.skipped
          /\ ~request[e].checks => request[e].plan.code \in request[e].state.skipped
      BY <1>1, RequestHere DEF RequestType, RequestFits, StateFits, HasState
    <2> QED
      BY <1>1, <2>1
  <1>3. \A f \in Engines : HasState(request[f]) => kept \subseteq request[f].state.skipped
    BY RequestHere DEF RequestFits, StateFits
  <1>4. kept' \subseteq state'.skipped
    BY <1>1, <1>2
  <1>5. \A f \in Engines \ {e} : HasState(request[f]) => kept' \subseteq request[f].state.skipped
    BY <1>1, <1>3
  <1> QED
    BY <1>1, <1>2, <1>4, <1>5, RequestEnds

(* With a shared file anything may be left of it. *)
LEMMA StateIsTorn ==
    ASSUME DataAssumption, DataInv, NEW e \in Engines, CloseShared(e)
    PROVE  DataInv'
  <1>1. /\ Answer(e) /\ kept' = {}
        /\ UNCHANGED <<now, head, installed, plan, staged, sessions, disputed, raced>>
    BY DEF CloseShared
  <1>2. state' \in States
    <2>1. /\ state \in States
          /\ \A f \in Engines : request[f].state \in States
      BY RequestHere DEF RequestType
    <2>2. NoState \in States
      BY DEF NoState, States, DataAssumption
    <2> QED
      BY <2>1, <2>2 DEF CloseShared
  <1> QED
    BY <1>1, <1>2, RequestEnds

(* A skip reads the state. *)
LEMMA SkipBegins ==
    ASSUME DataAssumption, DataInv, NEW e \in Engines, NEW code \in Unwanted, BeginSkip(e, code)
    PROVE  DataInv'
  <1>1. PICK read, record :
           /\ read = [state EXCEPT !.skipped = @ \cup {code}]
           /\ record = [NoPlan EXCEPT !.code = code]
    OBVIOUS
  <1>3. read \in States /\ read.skipped = state.skipped \cup {code}
    BY <1>1, RequestHere DEF DataAssumption, States
  <1>4. record \in Plans /\ record.code = code
    <2>1. code \in 0..MaxCode
      BY DEF DataAssumption, Codes
    <2> QED
      BY <1>1, <2>1, DataValues DEF Plans
  <1>5. PICK r : r = [Idle EXCEPT !.op = "skip", !.plan = record, !.state = read]
    OBVIOUS
  <1>6. /\ r \in RequestType /\ r.op = "skip" /\ r.plan = record /\ r.state = read
        /\ ~r.checks /\ r.began = 0
    BY <1>3, <1>4, <1>5, IdleFits, Zenon DEF RequestType, RequestOps
  <1>7. /\ request' = [request EXCEPT ![e] = r]
        /\ UNCHANGED <<now, head, installed, state, plan, staged, sessions, kept, disputed, raced>>
    BY <1>1, <1>5 DEF BeginSkip, histories, Idle
  <1>8. RequestFits(r)'
    BY <1>3, <1>4, <1>6, <1>7, RequestHere, DataValues
    DEF RequestFits, SweepFits, StateFits, WriteFits, Writes, HasState
  <1>9. HeldApart(e, r)'
    BY <1>6 DEF HeldApart, Differ, Writes
  <1>10. \A f \in Engines : HasState(request[f]) => kept \subseteq request[f].state.skipped
    BY RequestHere DEF RequestFits, StateFits
  <1> QED
    BY <1>6, <1>7, <1>8, <1>9, <1>10, RequestHere, DataValues, RequestMoves

LEMMA CleanupBegins ==
    ASSUME DataAssumption, DataInv, NEW e \in Engines, BeginCleanup(e)
    PROVE  DataInv'
  <1> DEFINE over == sessions # <<>> /\ sessions[Len(sessions)].phase = "done"
             id   == IF over THEN sessions[Len(sessions)].plan ELSE NoId
  <1>1. PICK r : r = [Idle EXCEPT !.op = "clean", !.id = id]
    OBVIOUS
  <1>2. /\ request' = [request EXCEPT ![e] = r]
        /\ UNCHANGED <<now, head, installed, state, plan, staged, sessions, kept, disputed, raced>>
    BY <1>1 DEF BeginCleanup, histories
  <1>3. sessions \in Seq(SessionType)
    BY DEF DataInv, DataType
  <1>4. id \in PlanIds \cup {NoId}
    <2>1. CASE over
      <3>1. Len(sessions) \in DOMAIN sessions
        BY <1>3, <2>1
      <3>2. sessions[Len(sessions)] \in SessionType
        BY <1>3, <3>1
      <3> QED
        BY <2>1, <3>2 DEF SessionType
    <2> QED
      BY <2>1
  <1>5. r \in RequestType /\ r.op = "clean" /\ r.id = id /\ ~r.checks /\ r.began = 0
    BY <1>1, <1>4, IdleFits, Zenon DEF RequestType, RequestOps
  <1>6. SweepFits(r)
    <2>1. ASSUME id # NoId, NEW i \in DOMAIN sessions, Alive(i)
          PROVE  FALSE
      <3>1. over /\ i = Len(sessions) /\ sessions[i].phase = "working"
        BY <2>1 DEF DataInv, DiskFits, WorkersBeat, sessionIsLive
      <3> QED
        BY <3>1
    <2> QED
      BY <1>5, <2>1, DataValues DEF SweepFits
  <1>7. RequestFits(r)'
    BY <1>2, <1>5, <1>6 DEF RequestFits, SweepFits, StateFits, WriteFits, Writes, HasState, Alive
  <1>8. HeldApart(e, r)'
    BY <1>5 DEF HeldApart, Differ, Writes
  <1>9. \A f \in Engines : HasState(request[f]) => kept \subseteq request[f].state.skipped
    BY RequestHere DEF RequestFits, StateFits
  <1> QED
    BY <1>2, <1>5, <1>7, <1>8, <1>9, RequestHere, DataValues, RequestMoves

LEMMA IndexFetched ==
    ASSUME DataAssumption, DataInv, NEW e \in Engines, Fetch(e)
    PROVE  DataInv'
  <1>1. PICK s \in 1..head : request' = [request EXCEPT ![e].op = "decide", ![e].state.floor = s]
    BY DEF Fetch
  <1>2. s \in 0..MaxCode
    BY DataValues
  <1>3. PICK known : known = [request[e].state EXCEPT !.floor = s]
    OBVIOUS
  <1>4. /\ known \in States
        /\ known.skipped = request[e].state.skipped
    <2>1. request[e].state \in States
      BY RequestHere DEF RequestType
    <2> QED
      BY <1>2, <1>3, <2>1 DEF States
  <1>5. PICK r : r = [request[e] EXCEPT !.op = "decide", !.state = known]
    OBVIOUS
  <1>6. /\ r \in RequestType /\ r.op = "decide" /\ r.state = known
        /\ r.checks = request[e].checks /\ r.plan = request[e].plan /\ r.began = request[e].began
    <2>z. request[e] \in RequestType
      BY RequestHere
    <2> QED
      BY <1>4, <1>5, <2>z, Zenon DEF RequestType, RequestOps
  <1>7. /\ request' = [request EXCEPT ![e] = r] /\ request[e].op = "fetch"
        /\ UNCHANGED <<now, head, installed, state, plan, staged, sessions, kept, disputed, raced>>
    <2>1. UNCHANGED <<now, head, installed, state, plan, staged, sessions, kept, disputed, raced>>
      BY DEF Fetch, histories
    <2>2. [[request[e] EXCEPT !.op = "decide"] EXCEPT !.state.floor = s] = r
      <3>z. request[e] \in RequestType
        BY RequestHere
      <3> QED
        BY <1>3, <1>5, <3>z, Zenon DEF RequestType
    <2>3. PICK mid : mid = [request EXCEPT ![e] = [request[e] EXCEPT !.op = "decide"]]
      OBVIOUS
    <2>4. mid[e] = [request[e] EXCEPT !.op = "decide"] /\ DOMAIN mid = Engines
      BY <2>3, RequestHere
    <2>5. request' = [mid EXCEPT ![e] = [mid[e] EXCEPT !.state.floor = s]]
      BY <1>1, <2>3
    <2>6. request' = [mid EXCEPT ![e] = r]
      BY <2>2, <2>4, <2>5
    <2>7. request' = [request EXCEPT ![e] = r]
      BY <2>3, <2>6, RequestHere
    <2> QED
      BY <2>1, <2>7 DEF Fetch
  <1>8. RequestFits(r)'
    BY <1>4, <1>6, <1>7, RequestHere
    DEF RequestFits, SweepFits, StateFits, WriteFits, Writes, HasState
  <1>9. HeldApart(e, r)'
    BY <1>6 DEF HeldApart, Differ, Writes
  <1>10. \A f \in Engines : HasState(request[f]) => kept \subseteq request[f].state.skipped
    BY RequestHere DEF RequestFits, StateFits
  <1> QED
    BY <1>6, <1>7, <1>8, <1>9, <1>10, RequestHere, DataValues, RequestMoves

(* A request that takes the record of a code which another holds makes it disputed. *)
LEMMA TakesApart ==
    ASSUME DataAssumption, DataInv, NEW e \in Engines, NEW code \in Codes, Takes(e, code),
           NEW r \in RequestType, r.plan.code = code,
           \A f \in Engines \ {e} :
               Writes(request[f]) /\ request[f].id = r.id => request[f].plan.code = code,
           request' = [request EXCEPT ![e] = r]
    PROVE  /\ disputed \subseteq disputed' /\ disputed' \subseteq Codes
           /\ HeldApart(e, r)'
  <1>1. \A f \in Engines \ {e} : request'[f] = request[f]
    BY RequestHere
  <1>2. \A f \in Engines \ {e} :
           Writes(request[f]) /\ request[f].plan.code = code => code \in disputed'
    BY DEF Takes, HasRecord, Writes
  <1>3. disputed \subseteq disputed' /\ disputed' \subseteq Codes
    BY DataValues DEF Takes
  <1>4. \A f \in Engines \ {e} : Differ(r, request[f])'
    BY <1>1, <1>2 DEF Differ
  <1> QED
    BY <1>3, <1>4 DEF HeldApart

(* What a session is; the one with a worker is the newest. *)
LEMMA SessionHere ==
    ASSUME DataInv, NEW i \in DOMAIN sessions
    PROVE  /\ sessions[i] \in SessionType
           /\ sessions[i].plan \in PlanIds /\ sessions[i].copy \in Plans
           /\ Alive(i) =>
                /\ i = Len(sessions) /\ sessionIsLive(sessions[i], now)
                /\ CopyFits(sessions[i].copy, plan[sessions[i].plan])
                /\ \A j \in DOMAIN sessions : Alive(j) => j = i
           /\ Alive(i) /\ i \notin raced =>
                /\ Present(sessions[i].plan) /\ "worker" \in staged[sessions[i].plan]
                /\ sessions[i].worker \in {"save", "copy"} => "file" \in staged[sessions[i].plan]
  <1>1. sessions[i] \in SessionType
    BY DEF DataInv, DataType
  <1>2. sessions[i].plan \in PlanIds /\ sessions[i].copy \in Plans
    BY <1>1 DEF SessionType
  <1> QED
    BY <1>1, <1>2 DEF DataInv, DiskFits, WorkersBeat, CopiesFit, LiveKeepsFiles, Alive

(* What a record on the disk is to the requests and to the other records. *)
LEMMA RecordHere ==
    ASSUME DataAssumption, DataInv, NEW p \in PlanIds, Present(p)
    PROVE  /\ plan[p] \in Plans /\ plan[p].code # 0 /\ plan[p].code \in Codes
           /\ plan[p].expires <= now + PlanTTL
           /\ plan[p].code \notin disputed => Sole(p, plan[p])
           /\ \A f \in Engines :
                  Writes(request[f]) /\ request[f].id = p => request[f].plan.code = plan[p].code
           /\ \A i \in DOMAIN sessions : Alive(i) /\ sessions[i].plan = p =>
                  /\ sessions[i].copy.code = plan[p].code
                  /\ plan[p].code \notin disputed => Younger(plan[p], sessions[i].copy)
  <1>1. plan[p] \in Plans /\ plan[p].code # 0 /\ plan[p].expires <= now + PlanTTL
    BY DEF DataInv, DataType, DataTypeOK, DiskFits, ExpiriesFit, Present
  <1>2. plan[p].code \in Codes
    BY <1>1 DEF Plans, Codes, DataAssumption
  <1>3. plan[p].code \notin disputed => Sole(p, plan[p])
    BY DEF Sole, DataInv, DiskFits, OnePlanPerAnswer
  <1>4. \A f \in Engines :
           Writes(request[f]) /\ request[f].id = p => request[f].plan.code = plan[p].code
    BY <1>1, RequestHere DEF RequestFits, WriteFits
  <1>5. \A i \in DOMAIN sessions : Alive(i) /\ sessions[i].plan = p =>
           /\ sessions[i].copy.code = plan[p].code
           /\ plan[p].code \notin disputed => Younger(plan[p], sessions[i].copy)
    BY <1>1, SessionHere DEF CopyFits
  <1> QED
    BY <1>1, <1>2, <1>3, <1>4, <1>5

(* A plan is chosen for the answer: the live one there is, or a new one if there
   is none. *)
LEMMA PlanBuilt ==
    ASSUME DataAssumption, DataInv, NEW e \in Engines, buildPlan(e)
    PROVE  DataInv'
  <1> DEFINE code == request[e].state.floor
  <1>1. PICK p \in PlanIds :
           /\ p \in IF Reusable(code) # {} THEN Best(code) ELSE Fresh
           /\ request' = [request EXCEPT ![e].op = "savePlan", ![e].id = p,
                  ![e].plan = [code |-> code, expires |-> now + PlanTTL,
                               ready |-> Present(p) /\ planFileReady(p, plan[p])]]
    <2>1. Best(code) \subseteq PlanIds /\ Fresh \subseteq PlanIds
      BY DEF Best, Reusable, Fresh
    <2> QED
      BY <2>1, Zenon DEF buildPlan
  <1>2. /\ code \in Codes /\ code # 0 /\ code \notin request[e].state.skipped \ Mandatory
        /\ request[e].op = "decide" /\ Takes(e, code)
        /\ UNCHANGED <<now, head, installed, state, plan, staged, sessions, kept, raced>>
    <2>1. /\ Offerable(e, code) /\ request[e].op = "decide" /\ Takes(e, code)
          /\ UNCHANGED <<now, head, installed, state, plan, staged, sessions, kept, raced>>
      BY DEF buildPlan
    <2>2. code \in 0..MaxCode
      <3>1. request[e].state \in States
        BY RequestHere DEF RequestType
      <3> QED
        BY <3>1 DEF States
    <2>3. code > installed /\ (code \in Mandatory \/ code \notin request[e].state.skipped)
      BY <2>1 DEF Offerable
    <2> QED
      BY <2>1, <2>2, <2>3, DataValues DEF Codes
  <1>3. PICK new : new = [code |-> code, expires |-> now + PlanTTL,
                          ready |-> Present(p) /\ planFileReady(p, plan[p])]
    OBVIOUS
  <1>4. new \in Plans /\ new.code = code /\ new.expires = now + PlanTTL
    <2>1. (Present(p) /\ planFileReady(p, plan[p])) \in BOOLEAN
      BY DataValues DEF Present, planFileReady, Plans
    <2>2. code \in 0..MaxCode /\ now + PlanTTL \in 0..MaxNow + PlanTTL
      BY <1>2, DataValues DEF Codes
    <2> QED
      BY <1>3, <2>1, <2>2 DEF Plans
  <1>5. PICK r : r = [request[e] EXCEPT !.op = "savePlan", !.id = p, !.plan = new]
    OBVIOUS
  <1>6. /\ r \in RequestType /\ r.op = "savePlan" /\ r.id = p /\ r.plan = new
        /\ r.state = request[e].state /\ r.checks = request[e].checks /\ r.began = request[e].began
    <2>z. request[e] \in RequestType
      BY RequestHere
    <2> QED
      BY <1>4, <1>5, <2>z, Zenon DEF RequestType, RequestOps
  <1>7. request' = [request EXCEPT ![e] = r]
    BY <1>1, <1>3, <1>5, RequestHere DEF RequestType
  <1>8. \/ Present(p) /\ plan[p].code = code
        \/ /\ ~Present(p)
           /\ \A f \in Engines : request[f].id # p
           /\ \A i \in DOMAIN sessions : sessions[i].plan # p
           /\ Reusable(code) = {}
    BY <1>1 DEF Best, Reusable, Fresh
  <1>9. \A f \in Engines : Writes(request[f]) /\ request[f].id = p => request[f].plan.code = code
    BY <1>8, RecordHere
  <1>10. /\ disputed \subseteq disputed' /\ disputed' \subseteq Codes
         /\ HeldApart(e, r)'
    BY <1>2, <1>4, <1>6, <1>7, <1>9, TakesApart
  <1>11. code \notin disputed => Sole(p, new)
    <2>1. ASSUME NEW q \in PlanIds \ {p}, Present(q), now < plan[q].expires, plan[q].code = code,
                 code \notin disputed
          PROVE  FALSE
      <3>1. q \in Reusable(code)
        BY <2>1 DEF Reusable
      <3>2. p \in Reusable(code)
        BY <1>1, <3>1 DEF Best
      <3> QED
        BY <2>1, <3>2 DEF Reusable, DataInv, DiskFits, OnePlanPerAnswer
    <2> QED
      BY <1>4, <2>1 DEF Sole
  <1>12. \A i \in DOMAIN sessions : Alive(i) /\ sessions[i].plan = p => sessions[i].copy.code = code
    BY <1>8, RecordHere
  <1>13. WriteFits(r)
    <2>1. plan[p].code \in {0, code}
      BY <1>8 DEF Present, NoPlan
    <2>2. Younger(new, plan[p])
      BY <1>4 DEF Younger, DataInv, DiskFits, ExpiriesFit
    <2>3. \A i \in DOMAIN sessions : Alive(i) /\ sessions[i].plan = p => Younger(new, sessions[i].copy)
      BY <1>4, SessionHere DEF Younger, CopyFits
    <2>4. now + PlanTTL <= now + PlanTTL
      BY DataValues
    <2> QED
      BY <1>2, <1>4, <1>6, <1>11, <1>12, <2>1, <2>2, <2>3, <2>4 DEF WriteFits
  <1>14. SweepFits(r) /\ StateFits(r)
    BY <1>2, <1>4, <1>6, RequestHere DEF RequestFits, SweepFits, StateFits, HasState
  <1>15. RequestFits(r)'
    <2>1. RequestFits(r)
      BY <1>13, <1>14 DEF RequestFits
    <2> QED
      BY <1>2, <1>6, <1>10, <2>1, FitStays DEF Alive, RequestFits, StateFits
  <1>16. \A f \in Engines : HasState(request[f]) => kept \subseteq request[f].state.skipped
    BY RequestHere DEF RequestFits, StateFits
  <1> QED
    BY <1>2, <1>6, <1>7, <1>10, <1>15, <1>16, RequestHere, RequestMoves

(* A download begins with the record of the plan. *)
LEMMA DownloadBegins ==
    ASSUME DataAssumption, DataInv, NEW e \in Engines, NEW p \in PlanIds,
           BeginDownload(e, p)
    PROVE  DataInv'
  <1>1. PICK r : r = [Idle EXCEPT !.op = "download", !.id = p, !.plan = plan[p]]
    OBVIOUS
  <1>2. /\ request' = [request EXCEPT ![e] = r]
        /\ UNCHANGED <<now, head, installed, state, plan, staged, sessions, kept, raced>>
        /\ Present(p) /\ Takes(e, plan[p].code)
    BY <1>1 DEF BeginDownload
  <1>3. /\ r \in RequestType /\ r.op = "download" /\ r.id = p /\ r.plan = plan[p]
        /\ ~r.checks /\ r.began = 0
    <2>1. plan[p] \in Plans
      BY <1>2, RecordHere
    <2> QED
      BY <1>1, <2>1, IdleFits, Zenon DEF RequestType, RequestOps
  <1>4. /\ disputed \subseteq disputed' /\ disputed' \subseteq Codes
        /\ HeldApart(e, r)'
    <2>1. /\ plan[p].code \in Codes
          /\ \A f \in Engines : Writes(request[f]) /\ request[f].id = p =>
                 request[f].plan.code = plan[p].code
      BY <1>2, RecordHere
    <2>2. \A f \in Engines \ {e} : Writes(request[f]) /\ request[f].id = r.id =>
              request[f].plan.code = plan[p].code
      BY <1>3, <2>1
    <2>3. Takes(e, plan[p].code) /\ request' = [request EXCEPT ![e] = r]
      BY <1>2
    <2>4. r \in RequestType /\ r.plan.code = plan[p].code
      BY <1>3
    <2> QED
      BY <2>1, <2>2, <2>3, <2>4, TakesApart
  <1>5. RequestFits(r)
    <2>1. WriteFits(r)
      <3>1. Younger(plan[p], plan[p])
        BY DataValues DEF Younger
      <3> QED
        BY <1>2, <1>3, <3>1, RecordHere DEF WriteFits
    <2> QED
      BY <1>3, <2>1, DataValues DEF RequestFits, SweepFits, StateFits, HasState
  <1>6. RequestFits(r)'
    BY <1>2, <1>3, <1>4, <1>5, FitStays DEF Alive, HasState
  <1>7. \A f \in Engines : HasState(request[f]) => kept \subseteq request[f].state.skipped
    BY RequestHere DEF RequestFits, StateFits
  <1> QED
    BY <1>2, <1>3, <1>4, <1>6, <1>7, RequestHere, RequestMoves

(* One session changes. *)
LEMMA OneSession ==
    ASSUME DataInv, NEW i \in DOMAIN sessions, NEW s \in SessionType,
           sessions' = [sessions EXCEPT ![i] = s]
    PROVE  /\ sessions' \in Seq(SessionType) /\ DOMAIN sessions' = DOMAIN sessions
           /\ Len(sessions') = Len(sessions) /\ sessions'[i] = s
           /\ \A j \in DOMAIN sessions : j # i => sessions'[j] = sessions[j]
  <1>1. sessions \in Seq(SessionType) /\ i \in 1..Len(sessions)
    BY DEF DataInv, DataType
  <1> QED
    BY <1>1, ExceptSeq

(* A worker goes on or ends: the record that it read is all that it writes, and it takes
   no file away. *)
LEMMA WorkerMoves ==
    ASSUME DataAssumption, DataInv, NEW i \in DOMAIN sessions, Alive(i),
           NEW s \in SessionType, s.plan = sessions[i].plan,
           sessions' = [sessions EXCEPT ![i] = s],
           s.worker # "none" =>
               /\ sessionIsLive(s, now) /\ s.copy.code = sessions[i].copy.code
               /\ s.copy.expires = sessions[i].copy.expires
               /\ s.worker \in {"save", "copy"} /\ i \notin raced => "file" \in staged'[s.plan],
           plan' = plan \/ (s.worker # "none" /\ plan' = [plan EXCEPT ![s.plan] = s.copy]),
           staged' \in [PlanIds -> SUBSET {"file", "worker"}],
           \A p \in PlanIds : staged[p] \subseteq staged'[p],
           installed' \in 0..MaxCode,
           UNCHANGED <<now, head, state, request, kept, disputed, raced>>
    PROVE  DataInv'
  <1> DEFINE c == sessions[i].copy
  <1>s. /\ sessions' \in Seq(SessionType) /\ DOMAIN sessions' = DOMAIN sessions
        /\ Len(sessions') = Len(sessions) /\ sessions'[i] = s
        /\ \A j \in DOMAIN sessions : j # i => sessions'[j] = sessions[j]
    BY OneSession
  <1>p. s.plan \in PlanIds /\ s.copy \in Plans
    BY DEF SessionType
  <1>a. \A j \in DOMAIN sessions : Alive(j)' => j = i /\ s.worker # "none"
    BY <1>s, SessionHere DEF Alive
  <1>c. CopyFits(c, plan[s.plan]) /\ c.code \in Nat /\ c.expires \in Nat
    <2>1. c \in Plans /\ CopyFits(c, plan[s.plan])
      BY SessionHere
    <2> QED
      BY <2>1, DataValues DEF Plans
  <1>d. /\ plan' \in [PlanIds -> Plans]
        /\ \A p \in PlanIds : plan'[p] = plan[p] \/
              (p = s.plan /\ plan'[p].code = c.code /\ plan'[p].expires = c.expires)
    BY <1>p, DataValues
  <1>k. ASSUME NEW p \in PlanIds, Present(p)', now < plan'[p].expires, plan'[p].code \notin disputed
        PROVE  Present(p) /\ now < plan[p].expires /\ plan[p].code = plan'[p].code
    <2>1. CASE plan'[p] = plan[p]
      BY <1>k, <2>1 DEF Present
    <2>2. CASE p = s.plan /\ plan'[p].code = c.code /\ plan'[p].expires = c.expires
      <3>1. plan[p].code \in {0, c.code} /\ c.expires <= plan[p].expires
        <4>1. plan[p].code \in {0, c.code} /\ (c.code \notin disputed => Younger(plan[p], c))
          BY <1>c, <2>2 DEF CopyFits
        <4>2. c.code \notin disputed /\ ~(c.expires <= now)
          BY <1>k, <1>c, <2>2, DataValues
        <4> QED
          BY <4>1, <4>2 DEF Younger
      <3>2. now < plan[p].expires
        <4>1. now < c.expires /\ now \in Nat /\ c.expires \in Nat /\ plan[p].expires \in Nat
          BY <1>k, <1>c, <2>2, DataValues
        <4> QED
          BY <3>1, <4>1
      <3>3. plan[p] # NoPlan
        BY <3>2, DataValues DEF NoPlan
      <3>4. plan[p].code # 0
        BY <3>3 DEF DataInv, DiskFits, ExpiriesFit
      <3> QED
        BY <2>2, <3>1, <3>2, <3>3, <3>4 DEF Present
    <2> QED
      BY <1>d, <2>1, <2>2
  <1>1. DataType'
    BY <1>s, <1>d DEF DataInv, DataType, DataTypeOK
  <1>2. WorkersBeat'
    BY <1>s, <1>a, SessionHere DEF WorkersBeat, sessionIsLive
  <1>3. CopiesFit'
    <2>1. ASSUME s.worker # "none"
          PROVE  CopyFits(s.copy, plan[s.plan])'
      <3>1. /\ c.code # 0 /\ c.expires <= now + PlanTTL
            /\ plan'[s.plan].code \in {0, c.code}
            /\ c.code \notin disputed => c.expires <= plan'[s.plan].expires \/ c.expires <= now
        BY <1>c, <1>d, <1>p DEF CopyFits, Younger
      <3>2. s.copy.code = c.code /\ s.copy.expires = c.expires
        BY <2>1
      <3> QED
        BY <3>1, <3>2 DEF CopyFits, Younger
    <2> QED
      BY <1>s, <1>a, <2>1 DEF CopiesFit, CopyFits, Younger
  <1>4. ExpiriesFit'
    <2>1. ASSUME NEW p \in PlanIds
          PROVE  plan'[p].expires <= now' + PlanTTL /\ (plan'[p].code = 0 => plan'[p] = NoPlan)
      BY <1>c, <1>d DEF DataInv, DiskFits, ExpiriesFit, CopyFits
    <2> QED
      BY <2>1 DEF ExpiriesFit
  <1>5. LiveKeepsFiles'
    <2>1. ASSUME i \notin raced, s.worker # "none"
          PROVE  /\ plan'[s.plan] # NoPlan /\ "worker" \in staged'[s.plan]
                 /\ s.worker \in {"save", "copy"} => "file" \in staged'[s.plan]
      BY <1>p, <1>c, <1>d, <2>1, SessionHere DEF Present, NoPlan, CopyFits
    <2>2. \A j \in DOMAIN sessions' : sessions'[j].worker # "none" =>
              j = i /\ s.worker # "none" /\ sessions'[j] = s
      BY <1>s, <1>a DEF Alive
    <2> QED
      BY <2>1, <2>2 DEF LiveKeepsFiles, Present
  <1>6. OnePlanPerAnswer'
    <2>1. ASSUME NEW p \in PlanIds, NEW q \in PlanIds, Present(p)', Present(q)',
                 now < plan'[p].expires, now < plan'[q].expires, plan'[p].code = plan'[q].code,
                 plan'[p].code \notin disputed
          PROVE  p = q
      <3>1. /\ Present(p) /\ Present(q) /\ now < plan[p].expires /\ now < plan[q].expires
            /\ plan[p].code = plan[q].code /\ plan[p].code \notin disputed
        BY <1>k, <2>1
      <3> QED
        BY <3>1 DEF DataInv, DiskFits, OnePlanPerAnswer
    <2> QED
      BY <2>1 DEF OnePlanPerAnswer
  <1>7. ASSUME NEW e \in Engines
        PROVE  RequestFits(request[e])'
    <2> DEFINE r == request[e]
    <2>1. SweepFits(r)' /\ StateFits(r)'
      BY <1>s, <1>a, RequestHere DEF RequestFits, SweepFits, StateFits
    <2>2. WriteFits(r)'
      <3>1. SUFFICES ASSUME Writes(r)
                     PROVE  WriteFits(r)'
        BY DEF WriteFits, Writes
      <3>2. /\ r.id \in PlanIds /\ r.plan.code # 0 /\ r.plan.expires <= now + PlanTTL
            /\ plan[r.id].code \in {0, r.plan.code}
            /\ s.plan = r.id => c.code = r.plan.code
            /\ r.plan.code \notin disputed =>
                   /\ Sole(r.id, r.plan) /\ Younger(r.plan, plan[r.id])
                   /\ s.plan = r.id => Younger(r.plan, c)
        BY <3>1, RequestHere DEF RequestFits, WriteFits
      <3>3. plan'[r.id].code \in {0, r.plan.code}
        BY <1>d, <3>2
      <3>4. \A j \in DOMAIN sessions' : Alive(j)' /\ sessions'[j].plan = r.id =>
                sessions'[j].copy.code = r.plan.code
        BY <1>s, <1>a, <3>2
      <3>5. ASSUME r.plan.code \notin disputed
            PROVE  /\ Sole(r.id, r.plan)' /\ Younger(r.plan, plan[r.id])'
                   /\ \A j \in DOMAIN sessions' : Alive(j)' /\ sessions'[j].plan = r.id =>
                          Younger(r.plan, sessions[j].copy)'
        <4>1. Sole(r.id, r.plan)'
          BY <1>k, <3>2, <3>5 DEF Sole
        <4>2. Younger(r.plan, plan[r.id])'
          BY <1>d, <3>2, <3>5 DEF Younger
        <4>3. \A j \in DOMAIN sessions' : Alive(j)' /\ sessions'[j].plan = r.id =>
                          Younger(r.plan, sessions[j].copy)'
          BY <1>s, <1>a, <3>2, <3>5 DEF Younger
        <4> QED
          BY <4>1, <4>2, <4>3
      <3> QED
        BY <3>1, <3>2, <3>3, <3>4, <3>5 DEF WriteFits, Writes
    <2> QED
      BY <2>1, <2>2 DEF RequestFits
  <1>8. RecordsDiffer' /\ kept' \subseteq state'.skipped
    BY RequestHere DEF DataInv, RecordsDiffer, Differ, Writes, DiskFits
  <1> QED
    BY <1>1, <1>2, <1>3, <1>4, <1>5, <1>6, <1>7, <1>8 DEF DataInv, DiskFits

(* The steps of a worker. *)
LEMMA WorkerWorks ==
    ASSUME DataAssumption, DataInv, NEW i \in DOMAIN sessions,
           Wait(i) \/ WorkerFetch(i) \/ WorkerSave(i) \/ WorkerFails(i) \/ WorkerEnds(i)
               \/ WriterDies(i)
    PROVE  DataInv'
  <1>h. /\ sessions[i] \in SessionType /\ Alive(i) /\ sessionIsLive(sessions[i], now)
        /\ sessions[i].plan \in PlanIds /\ sessions[i].copy \in Plans
    BY SessionHere DEF Wait, WorkerFetch, WorkerSave, WorkerFails, WorkerEnds, WriterDies, At,
                       Alive, SessionType
  <1>n. /\ now \in 0..MaxNow /\ PlanTTL \in Nat \ {0} /\ installed \in 0..MaxCode
        /\ plan \in [PlanIds -> Plans] /\ staged \in [PlanIds -> SUBSET {"file", "worker"}]
        /\ MaxNow \in Nat /\ MaxCode \in Nat
        /\ \A p \in PlanIds : plan[p].expires \in Int
    BY DEF DataInv, DataType, DataTypeOK, DataAssumption, Plans
  <1>f. sessions[i].worker \in {"save", "copy"} /\ i \notin raced => "file" \in staged[sessions[i].plan]
    BY <1>h, SessionHere
  <1>l. /\ sessions[i].there /\ sessions[i].phase = "working"
        /\ now \in Nat /\ now + PlanTTL > now
    BY <1>h, <1>n DEF sessionIsLive
  <1>z. NoPlan \in Plans
    BY <1>n DEF NoPlan, Plans
  <1>1. CASE Wait(i)
    <2>1. PICK next \in {"wait", "fetch", "copy"} :
             /\ sessions' = [sessions EXCEPT ![i].worker = next, ![i].sign = now]
             /\ next = "copy" => planFileReady(sessions[i].plan, sessions[i].copy)
      BY <1>1 DEF Wait
    <2>2. PICK s : s = [sessions[i] EXCEPT !.worker = next, !.sign = now]
      OBVIOUS
    <2>3. /\ s \in SessionType /\ s.plan = sessions[i].plan /\ s.copy = sessions[i].copy
          /\ s.worker = next /\ sessionIsLive(s, now)
      <3>1. /\ s \in SessionType /\ s.plan = sessions[i].plan /\ s.copy = sessions[i].copy
            /\ s.worker = next /\ s.sign = now /\ s.there = sessions[i].there
            /\ s.phase = sessions[i].phase
        BY <1>h, <1>n, <2>2 DEF SessionType
      <3> QED
        BY <1>l, <3>1 DEF sessionIsLive
    <2>4. sessions' = [sessions EXCEPT ![i] = s]
      BY <1>h, <2>1, <2>2 DEF SessionType
    <2>5. /\ s.worker \in {"save", "copy"} => "file" \in staged[s.plan]
          /\ UNCHANGED <<now, head, installed, state, plan, staged, request, kept, disputed, raced>>
          /\ s.copy.code = sessions[i].copy.code /\ s.copy.expires = sessions[i].copy.expires
      BY <1>1, <2>1, <2>3 DEF Wait, planFileReady, histories
    <2>6. /\ staged' \in [PlanIds -> SUBSET {"file", "worker"}]
          /\ \A p \in PlanIds : staged[p] \subseteq staged'[p]
      BY <1>n, <2>5
    <2> QED
      BY <1>h, <1>n, <2>3, <2>4, <2>5, <2>6, WorkerMoves
  <1>2. CASE WorkerFetch(i)
    <2>1. PICK copy : copy = [sessions[i].copy EXCEPT !.ready = TRUE]
      OBVIOUS
    <2>2. PICK s : s = [sessions[i] EXCEPT !.worker = "save", !.copy = copy]
      OBVIOUS
    <2>3. /\ copy \in Plans /\ copy.code = sessions[i].copy.code
          /\ copy.expires = sessions[i].copy.expires
      BY <1>h, <2>1 DEF Plans
    <2>4. /\ s \in SessionType /\ s.plan = sessions[i].plan /\ s.copy = copy
          /\ s.worker = "save" /\ sessionIsLive(s, now)
      BY <1>h, <2>2, <2>3 DEF SessionType, sessionIsLive
    <2>5. sessions' = [sessions EXCEPT ![i] = s]
      BY <1>2, <1>h, <2>1, <2>2 DEF WorkerFetch, SessionType
    <2>6. /\ staged' \in [PlanIds -> SUBSET {"file", "worker"}]
          /\ "file" \in staged'[s.plan]
          /\ \A p \in PlanIds : staged[p] \subseteq staged'[p]
      BY <1>2, <1>h, <1>n, <2>4 DEF WorkerFetch
    <2>7. /\ UNCHANGED <<now, head, installed, state, plan, request, kept, disputed, raced>>
          /\ s.copy.code = sessions[i].copy.code /\ s.copy.expires = sessions[i].copy.expires
      BY <1>2, <2>3, <2>4 DEF WorkerFetch, histories
    <2> QED
      BY <1>h, <1>n, <2>4, <2>5, <2>6, <2>7, WorkerMoves
  <1>3. CASE WorkerSave(i)
    <2>1. PICK s : s = [sessions[i] EXCEPT !.worker = "copy", !.sign = now]
      OBVIOUS
    <2>2. /\ s \in SessionType /\ s.plan = sessions[i].plan /\ s.copy = sessions[i].copy
          /\ s.worker = "copy" /\ sessionIsLive(s, now)
      <3>1. /\ s \in SessionType /\ s.plan = sessions[i].plan /\ s.copy = sessions[i].copy
            /\ s.worker = "copy" /\ s.sign = now /\ s.there = sessions[i].there
            /\ s.phase = sessions[i].phase
        BY <1>h, <1>n, <2>1 DEF SessionType
      <3> QED
        BY <1>l, <3>1 DEF sessionIsLive
    <2>3. sessions' = [sessions EXCEPT ![i] = s]
      BY <1>3, <1>h, <2>1 DEF WorkerSave, SessionType
    <2>4. /\ plan' = [plan EXCEPT ![s.plan] = s.copy]
          /\ i \notin raced => "file" \in staged[s.plan]
          /\ UNCHANGED <<now, head, installed, state, staged, request, kept, disputed, raced>>
      BY <1>3, <1>f, <2>2 DEF WorkerSave, At, histories
    <2>5. /\ staged' \in [PlanIds -> SUBSET {"file", "worker"}]
          /\ \A p \in PlanIds : staged[p] \subseteq staged'[p]
      BY <1>n, <2>4
    <2> QED
      BY <1>h, <1>n, <2>2, <2>3, <2>4, <2>5, WorkerMoves
  <1>4. CASE WorkerFails(i) \/ WorkerEnds(i) \/ WriterDies(i)
    <2>1. \E phase \in {"working", "failed", "done"}, sign \in 0..MaxNow, there \in BOOLEAN : \E s :
             /\ s = [sessions[i] EXCEPT !.worker = "none", !.copy = NoPlan, !.phase = phase,
                                        !.sign = sign, !.there = there]
             /\ sessions' = [sessions EXCEPT ![i] = s]
      <3>1. CASE WorkerFails(i)
        <4>1. sessions' = [sessions EXCEPT ![i] =
                  [sessions[i] EXCEPT !.worker = "none", !.copy = NoPlan, !.phase = "failed",
                                      !.sign = now, !.there = TRUE]]
          BY <1>h, <3>1 DEF WorkerFails, SessionType
        <4> QED
          BY <1>n, <4>1
      <3>2. CASE WorkerEnds(i)
        <4>1. sessions' = [sessions EXCEPT ![i] =
                  [sessions[i] EXCEPT !.worker = "none", !.copy = NoPlan, !.phase = "done",
                                      !.sign = now, !.there = TRUE]]
          BY <1>h, <3>2 DEF WorkerEnds, SessionType
        <4> QED
          BY <1>n, <4>1
      <3>3. CASE WriterDies(i)
        <4>1. PICK s : s = [sessions[i] EXCEPT !.worker = "none", !.copy = NoPlan,
                            !.phase = sessions[i].phase, !.sign = sessions[i].sign,
                            !.there = sessions[i].there]
          OBVIOUS
        <4>2. s = [sessions[i] EXCEPT !.worker = "none", !.copy = NoPlan]
          BY <1>h, <4>1 DEF SessionType
        <4>3. sessions' = [sessions EXCEPT ![i] = s]
          BY <1>h, <3>3, <4>2 DEF WriterDies, SessionType
        <4> QED
          BY <1>h, <4>1, <4>3 DEF SessionType
      <3> QED
        BY <1>4, <3>1, <3>2, <3>3
    <2>2. PICK phase \in {"working", "failed", "done"}, sign \in 0..MaxNow, there \in BOOLEAN :
             \E s : /\ s = [sessions[i] EXCEPT !.worker = "none", !.copy = NoPlan, !.phase = phase,
                                               !.sign = sign, !.there = there]
                   /\ sessions' = [sessions EXCEPT ![i] = s]
      BY <2>1
    <2>3. PICK s : /\ s = [sessions[i] EXCEPT !.worker = "none", !.copy = NoPlan, !.phase = phase,
                                              !.sign = sign, !.there = there]
                   /\ sessions' = [sessions EXCEPT ![i] = s]
      BY <2>2
    <2>4. s \in SessionType /\ s.plan = sessions[i].plan /\ s.worker = "none"
      BY <1>h, <1>z, <2>3 DEF SessionType
    <2>5. installed' \in 0..MaxCode
      BY <1>4, <1>h, <1>n DEF WorkerFails, WorkerEnds, WriterDies, Plans
    <2>6. UNCHANGED <<now, head, state, plan, staged, request, kept, disputed, raced>>
      BY <1>4 DEF WorkerFails, WorkerEnds, WriterDies, histories
    <2>7. /\ staged' \in [PlanIds -> SUBSET {"file", "worker"}]
          /\ \A p \in PlanIds : staged[p] \subseteq staged'[p]
      BY <1>n, <2>6
    <2> QED
      BY <1>h, <1>n, <2>3, <2>4, <2>5, <2>6, <2>7, WorkerMoves
  <1> QED
    BY <1>1, <1>2, <1>3, <1>4

(* Time passes, and releases appear. *)
LEMMA WorldMoves ==
    ASSUME DataAssumption, DataInv, Tick \/ Publish
    PROVE  DataInv'
  <1>1. /\ now' \in 0..MaxNow /\ now' >= now /\ head' \in 0..MaxCode
        /\ now \in Nat /\ now' \in Nat /\ PlanTTL \in Nat
        /\ UNCHANGED <<installed, state, plan, staged, sessions, request, kept, disputed, raced>>
    BY DataValues DEF Tick, Publish, histories
  <1>2. DataType'
    BY <1>1 DEF DataInv, DataType, DataTypeOK
  <1>3. WorkersBeat'
    <2>1. ASSUME NEW i \in DOMAIN sessions, Alive(i)
          PROVE  i = Len(sessions) /\ sessionIsLive(sessions[i], now')
      <3>1. CASE Tick
        BY <2>1, <3>1, SessionHere DEF Tick, Beaten, Alive, sessionIsLive
      <3>2. CASE Publish
        BY <2>1, <3>2, SessionHere DEF Publish
      <3> QED
        BY <3>1, <3>2
    <2> QED
      BY <1>1, <2>1 DEF WorkersBeat, Alive, sessionIsLive
  <1>y. \A r, d \in Plans : Younger(r, d) => Younger(r, d)'
    BY <1>1, DataValues DEF Younger, Plans
  <1>4. CopiesFit'
    <2>1. ASSUME NEW i \in DOMAIN sessions, Alive(i)
          PROVE  CopyFits(sessions[i].copy, plan[sessions[i].plan])'
      <3>1. PICK c \in Plans, d \in Plans :
               c = sessions[i].copy /\ d = plan[sessions[i].plan] /\ CopyFits(c, d)
        BY <2>1, SessionHere, DataValues
      <3>y. c.expires \in Nat
        BY DataValues DEF Plans
      <3>x. c.expires <= now + PlanTTL
        BY <3>1 DEF CopyFits
      <3>2. c.expires <= now' + PlanTTL
        BY <1>1, <3>y, <3>x
      <3>3. CopyFits(c, d)'
        BY <1>1, <1>y, <3>1, <3>2 DEF CopyFits
      <3> QED
        BY <1>1, <3>1, <3>3
    <2> QED
      BY <1>1, <2>1 DEF CopiesFit, Alive
  <1>5. ExpiriesFit'
    BY <1>1, DataValues DEF DataInv, DiskFits, ExpiriesFit
  <1>6. LiveKeepsFiles' /\ kept' \subseteq state'.skipped
    BY <1>1 DEF DataInv, DiskFits, LiveKeepsFiles, Present
  <1>7. OnePlanPerAnswer'
    <2>1. \A p \in PlanIds : now' < plan[p].expires => now < plan[p].expires
      BY <1>1, DataValues
    <2> QED
      BY <1>1, <2>1 DEF DataInv, DiskFits, OnePlanPerAnswer, Present
  <1>8. ASSUME NEW e \in Engines
        PROVE  RequestFits(request[e])'
    <2>1. PICK r \in RequestType : r = request[e] /\ RequestFits(r)
      BY RequestHere
    <2>2. r.plan \in Plans /\ r.plan.expires \in Nat /\ r.began \in Nat
      BY <1>1, DataValues DEF RequestType, Plans
    <2>3. SweepFits(r)' /\ StateFits(r)'
      <3>1. r.began <= now'
        BY <1>1, <2>1, <2>2 DEF RequestFits, SweepFits
      <3> QED
        BY <1>1, <2>1, <3>1 DEF RequestFits, SweepFits, StateFits, Alive
    <2>4. Sole(r.id, r.plan) => Sole(r.id, r.plan)'
      BY <1>1, <2>2, DataValues DEF Sole, Present
    <2>5. WriteFits(r)'
      <3>1. SUFFICES ASSUME Writes(r) PROVE WriteFits(r)'
        BY DEF WriteFits
      <3>2. r.plan.expires <= now' + PlanTTL
        BY <1>1, <2>1, <2>2, <3>1, DataValues DEF RequestFits, WriteFits
      <3>3. Younger(r.plan, plan[r.id]) => Younger(r.plan, plan[r.id])'
        BY <1>1, <1>y, <2>1, <2>2, <3>1, DataValues DEF RequestFits, WriteFits
      <3>4. \A i \in DOMAIN sessions :
               Younger(r.plan, sessions[i].copy) => Younger(r.plan, sessions[i].copy)'
        BY <1>1, <1>y, <2>2, SessionHere
      <3> QED
        BY <1>1, <2>1, <2>4, <3>1, <3>2, <3>3, <3>4 DEF RequestFits, WriteFits, Alive
    <2> QED
      BY <1>1, <2>1, <2>3, <2>5 DEF RequestFits
  <1>9. RecordsDiffer'
    BY <1>1 DEF DataInv, RecordsDiffer, Differ
  <1> QED
    BY <1>2, <1>3, <1>4, <1>5, <1>6, <1>7, <1>8, <1>9 DEF DataInv, DiskFits

(* A sweep of the session records: those with a worker stay as they are. *)
LEMMA SessionsSwept ==
    ASSUME DataInv, sweepSessions(now)
    PROVE  /\ sessions' \in Seq(SessionType) /\ DOMAIN sessions' = DOMAIN sessions
           /\ Len(sessions') = Len(sessions)
           /\ \A i \in DOMAIN sessions :
                  /\ Alive(i)' <=> Alive(i)
                  /\ Alive(i) => sessions'[i] = sessions[i]
  <1>1. /\ sessions \in Seq(SessionType) /\ DOMAIN sessions = 1..Len(sessions)
        /\ Len(sessions) \in Nat
    BY DEF DataInv, DataType
  <1>2. \A i \in DOMAIN sessions :
           sessions'[i] \in {sessions[i], [sessions[i] EXCEPT !.there = FALSE]}
    BY DEF sweepSessions
  <1>3. \A i \in DOMAIN sessions : sessions[i] \in SessionType
    BY SessionHere
  <1>4. \A i \in DOMAIN sessions :
           sessions'[i] \in SessionType /\ sessions'[i].worker = sessions[i].worker
    BY <1>2, <1>3, ZenonT(60) DEF SessionType
  <1>5. sessions' \in [1..Len(sessions) -> SessionType]
    BY <1>1, <1>4 DEF sweepSessions
  <1>6. sessions' \in Seq(SessionType) /\ Len(sessions') = Len(sessions)
    BY <1>1, <1>5, SeqDef, LenProperties
  <1>7. \A i \in DOMAIN sessions : Alive(i) => sessions'[i] = sessions[i]
    BY SessionHere DEF sweepSessions
  <1> QED
    BY <1>1, <1>4, <1>5, <1>6, <1>7 DEF Alive

(* A request goes on or ends, sessions are swept or not, and the records that go are
   expired; a worker that was there when a sweep began loses nothing. *)
LEMMA DirectoryMoves ==
    ASSUME DataAssumption, DataInv, NEW e \in Engines, NEW r \in RequestType,
           RequestFits(r)', HeldApart(e, r)', request' = [request EXCEPT ![e] = r],
           sweepSessions(now) \/ UNCHANGED sessions,
           plan' \in [PlanIds -> Plans],
           \A p \in PlanIds : plan'[p] = plan[p] \/ (plan'[p] = NoPlan /\ plan[p].expires <= now),
           staged' \in [PlanIds -> SUBSET {"file", "worker"}],
           \A i \in DOMAIN sessions \ raced : Alive(i) =>
               /\ plan'[sessions[i].plan] = plan[sessions[i].plan]
               /\ staged[sessions[i].plan] \subseteq staged'[sessions[i].plan],
           UNCHANGED <<now, head, installed, state, kept, disputed, raced>>
    PROVE  DataInv'
  <1>s. /\ sessions' \in Seq(SessionType) /\ DOMAIN sessions' = DOMAIN sessions
        /\ Len(sessions') = Len(sessions)
        /\ \A i \in DOMAIN sessions : /\ Alive(i)' <=> Alive(i)
                                      /\ Alive(i) => sessions'[i] = sessions[i]
    BY SessionsSwept DEF DataInv, DataType, Alive
  <1>r. /\ request' \in [Engines -> RequestType] /\ request'[e] = r
        /\ \A f \in Engines \ {e} : request'[f] = request[f]
        /\ RecordsDiffer'
    BY OthersStay
  <1>1. DataType'
    BY <1>s, <1>r DEF DataInv, DataType, DataTypeOK
  <1>2. WorkersBeat'
    BY <1>s DEF DataInv, DiskFits, WorkersBeat, sessionIsLive
  <1>3. CopiesFit'
    <2>1. ASSUME NEW i \in DOMAIN sessions, Alive(i)
          PROVE  CopyFits(sessions[i].copy, plan'[sessions[i].plan])
      <3>1. CopyFits(sessions[i].copy, plan[sessions[i].plan]) /\ sessions[i].plan \in PlanIds
            /\ sessions[i].copy.expires \in Nat
        BY <2>1, SessionHere, DataValues DEF Plans
      <3>2. plan[sessions[i].plan].expires <= now /\ plan[sessions[i].plan].expires \in Nat =>
                CopyFits(sessions[i].copy, NoPlan)
        <4> DEFINE c == sessions[i].copy
                   d == plan[sessions[i].plan]
        <4>1. c.code # 0 /\ c.expires <= now + PlanTTL /\ (c.code \notin disputed => Younger(d, c))
          BY <3>1 DEF CopyFits
        <4>2. ASSUME d.expires <= now, d.expires \in Nat, Younger(d, c)
              PROVE  c.expires <= now
          <5>1. c.expires \in Nat /\ now \in Nat
            BY <3>1, DataValues
          <5> QED
            BY <4>2, <5>1 DEF Younger
        <4>3. NoPlan.code = 0
          BY DEF NoPlan
        <4> QED
          BY <4>1, <4>2, <4>3 DEF CopyFits, Younger
      <3> QED
        BY <3>1, <3>2, DataValues
    <2> QED
      BY <1>s, <2>1 DEF CopiesFit, CopyFits, Younger
  <1>4. LiveKeepsFiles'
    <2>1. \A i \in DOMAIN sessions : sessions'[i].worker # "none" =>
              Alive(i) /\ sessions'[i] = sessions[i]
      BY <1>s DEF Alive
    <2>2. \A i \in DOMAIN sessions \ raced : Alive(i) =>
              /\ Present(sessions[i].plan)
              /\ "worker" \in staged[sessions[i].plan]
              /\ sessions[i].worker \in {"save", "copy"} => "file" \in staged[sessions[i].plan]
      BY DEF DataInv, DiskFits, LiveKeepsFiles, Alive
    <2>3. ASSUME NEW i \in DOMAIN sessions \ raced, sessions'[i].worker # "none"
          PROVE  /\ plan'[sessions'[i].plan] # NoPlan
                 /\ "worker" \in staged'[sessions'[i].plan]
                 /\ sessions'[i].worker \in {"save", "copy"} =>
                        "file" \in staged'[sessions'[i].plan]
      <3>1. Alive(i) /\ sessions'[i] = sessions[i]
        BY <2>1, <2>3
      <3> QED
        BY <2>2, <2>3, <3>1 DEF Present
    <2>4. DOMAIN sessions' = DOMAIN sessions /\ raced' = raced
      BY <1>s
    <2> QED
      BY <2>3, <2>4 DEF LiveKeepsFiles, Present
  <1>5. ExpiriesFit'
    BY DataValues DEF DataInv, DiskFits, ExpiriesFit, NoPlan
  <1>6. OnePlanPerAnswer' /\ kept' \subseteq state'.skipped
    BY DEF DataInv, DiskFits, OnePlanPerAnswer, Present
  <1>7. ASSUME NEW f \in Engines \ {e}
        PROVE  RequestFits(request[f])'
    <2>1. PICK q \in RequestType : q = request[f] /\ RequestFits(q)
      BY RequestHere
    <2>2. HasState(q) => kept' \subseteq q.state.skipped
      BY <2>1 DEF RequestFits, StateFits
    <2>3. RequestFits(q)'
      BY <1>s, <2>1, <2>2, FitStays
    <2> QED
      BY <1>r, <2>1, <2>3
  <1> QED
    BY <1>1, <1>2, <1>3, <1>4, <1>5, <1>6, <1>7, <1>r DEF DataInv, DiskFits

(* What a sweep of the records protects. *)
LEMMA GuardedFits ==
    ASSUME DataInv
    PROVE  /\ Guarded(now) \subseteq PlanIds
           /\ \A i \in DOMAIN sessions : Alive(i) => sessions[i].plan \in Guarded(now)
  BY SessionHere DEF Guarded

LEMMA SweepBegins ==
    ASSUME DataAssumption, DataInv, NEW e \in Engines, BeginCheck(e) \/ Clean(e)
    PROVE  DataInv'
  <1>t. /\ now \in 0..MaxNow /\ plan \in [PlanIds -> Plans]
        /\ staged \in [PlanIds -> SUBSET {"file", "worker"}]
        /\ state \in States
    BY DEF DataInv, DataType, DataTypeOK, States
  <1>1. PICK r : r = IF BeginCheck(e)
                     THEN [Idle EXCEPT !.op = "plans", !.checks = TRUE, !.state = state,
                                       !.began = now, !.guarded = Guarded(now)]
                     ELSE [Idle EXCEPT !.op = "plans", !.began = now, !.guarded = Guarded(now)]
    OBVIOUS
  <1>2. /\ r \in RequestType /\ r.op = "plans" /\ r.guarded = Guarded(now) /\ r.began = now
        /\ r.checks => r.state = state
        /\ r.plan = NoPlan
    BY <1>t, <1>1, IdleFits, GuardedFits, Zenon DEF RequestType, RequestOps
  <1>3. request' = [request EXCEPT ![e] = r] /\ sweepSessions(now)
    BY <1>1 DEF BeginCheck, Clean
  <1>4. UNCHANGED <<now, head, installed, state, plan, kept, disputed, raced>>
    BY DEF BeginCheck, Clean, histories
  <1>5. /\ staged' \in [PlanIds -> SUBSET {"file", "worker"}]
        /\ \A i \in DOMAIN sessions \ raced :
               Alive(i) => staged'[sessions[i].plan] = staged[sessions[i].plan]
    <2>1. CASE BeginCheck(e)
      BY <1>t, <2>1 DEF BeginCheck
    <2>2. CASE Clean(e)
      <3>1. \A i \in DOMAIN sessions \ raced : Alive(i) =>
                sessions[i].plan \in PlanIds /\ request[e].id = NoId
        BY <2>2, RequestHere, SessionHere DEF Clean, RequestFits, SweepFits
      <3> QED
        BY <1>t, <2>2, <3>1 DEF Clean, DataAssumption
    <2> QED
      BY <2>1, <2>2
  <1>6. RequestFits(r)'
    <2>1. \A i \in DOMAIN sessions' : Alive(i)' => sessions'[i].plan \in r.guarded
      BY <1>2, <1>3, SessionsSwept, GuardedFits
    <2>2. SweepFits(r)'
      BY <1>2, <1>4, <2>1, DataValues DEF SweepFits
    <2>3. StateFits(r)'
      <3>1. 0 \notin state.skipped
        BY <1>t DEF Codes, States
      <3> QED
        BY <1>2, <1>4, <3>1, RequestHere DEF StateFits, HasState, NoPlan
    <2> QED
      BY <1>2, <2>2, <2>3 DEF RequestFits, WriteFits, Writes
  <1>7. HeldApart(e, r)'
    BY <1>2 DEF HeldApart, Differ, Writes
  <1> QED
    BY <1>t, <1>2, <1>3, <1>4, <1>5, <1>6, <1>7, DirectoryMoves

(* Nothing that is swept is a worker's, and no record goes before its time. *)
LEMMA PlansSwept ==
    ASSUME DataAssumption, DataInv, NEW e \in Engines, SweepPlans(e)
    PROVE  DataInv'
  <1>1. PICK stale, ancient \in SUBSET (PlanIds \ request[e].guarded) :
           /\ staged' = [p \in PlanIds |-> IF p \in stale THEN {} ELSE staged[p]]
           /\ plan' = [p \in PlanIds |-> IF p \in ancient THEN NoPlan ELSE plan[p]]
           /\ \A p \in ancient : request[e].began >= plan[p].expires
           /\ request' = [request EXCEPT ![e].op = "staging",
                                          ![e].known = {p \in PlanIds \ ancient : Present(p)}]
    <2> DEFINE t    == request[e].began
               out  == {p \in PlanIds \ request[e].guarded : Present(p) /\ t >= plan[p].expires}
               gone == {p \in out : t > plan[p].expires + PlanTTL}
    <2>1. out \in SUBSET (PlanIds \ request[e].guarded) /\ gone \in SUBSET (PlanIds \ request[e].guarded)
          /\ \A p \in gone : t >= plan[p].expires
      OBVIOUS
    <2> QED
      BY <2>1 DEF SweepPlans
  <1>2. PICK r : r = [request[e] EXCEPT !.op = "staging",
                                        !.known = {p \in PlanIds \ ancient : Present(p)}]
    OBVIOUS
  <1>3. /\ r \in RequestType /\ r.op = "staging" /\ r.guarded = request[e].guarded
        /\ r.checks = request[e].checks /\ r.state = request[e].state
        /\ r.plan = request[e].plan /\ r.began = request[e].began /\ r.began \in Nat
    <2>1. request[e].began \in Nat
      BY RequestHere, DataValues DEF RequestType
    <2>z. request[e] \in RequestType
      BY RequestHere
    <2> QED
      BY <1>2, <2>1, <2>z, Zenon DEF RequestType, RequestOps
  <1>4. /\ request' = [request EXCEPT ![e] = r] /\ request[e].op = "plans"
        /\ UNCHANGED <<now, head, installed, state, sessions, kept, disputed, raced>>
    <2>1. /\ request[e].op = "plans"
          /\ UNCHANGED <<now, head, installed, state, sessions, kept, disputed, raced>>
      BY DEF SweepPlans, histories
    <2> QED
      BY <1>1, <1>2, <2>1, RequestHere DEF RequestType
  <1>5. \A i \in DOMAIN sessions \ raced : Alive(i) =>
           /\ sessions[i].plan \in PlanIds \cap request[e].guarded
           /\ plan'[sessions[i].plan] = plan[sessions[i].plan]
           /\ staged'[sessions[i].plan] = staged[sessions[i].plan]
    BY <1>1, <1>4, RequestHere, SessionHere DEF RequestFits, SweepFits
  <1>6. RequestFits(r)'
    <2>1. SweepFits(r)' /\ StateFits(r)'
      BY <1>3, <1>4, <1>5, RequestHere DEF RequestFits, SweepFits, StateFits, HasState, Alive
    <2> QED
      BY <1>3, <2>1 DEF RequestFits, WriteFits, Writes
  <1>7. /\ plan' \in [PlanIds -> Plans]
        /\ staged' \in [PlanIds -> SUBSET {"file", "worker"}]
    BY <1>1, DataValues
  <1>8. \A p \in PlanIds : plan'[p] = plan[p] \/ (plan'[p] = NoPlan /\ plan[p].expires <= now)
    <2>1. request[e].began <= now /\ request[e].began \in Nat
      BY <1>3, RequestHere DEF RequestFits, SweepFits
    <2> QED
      BY <1>1, <2>1, DataValues
  <1>9. HeldApart(e, r)'
    BY <1>3 DEF HeldApart, Differ, Writes
  <1> QED
    BY <1>3, <1>4, <1>5, <1>6, <1>7, <1>8, <1>9, DirectoryMoves

LEMMA StagingSwept ==
    ASSUME DataAssumption, DataInv, NEW e \in Engines, SweepStaging(e)
    PROVE  DataInv'
  <1>1. PICK r : r = IF request[e].checks
                     THEN [request[e] EXCEPT !.op = "fetch", !.began = 0, !.guarded = {}, !.known = {}]
                     ELSE Idle
    OBVIOUS
  <1>2. /\ r \in RequestType
        /\ \/ r = Idle
           \/ /\ r.op = "fetch" /\ r.checks /\ request[e].checks /\ r.state = request[e].state
              /\ r.plan = request[e].plan /\ r.began = 0
    <2>1. PICK q : q = [request[e] EXCEPT !.op = "fetch", !.began = 0,
                                          !.guarded = {}, !.known = {}]
      OBVIOUS
    <2>2. 0 \in 0..MaxNow
      BY DEF DataAssumption
    <2>3. q \in RequestType
      <3>z. request[e] \in RequestType
        BY RequestHere
      <3> QED
        BY <2>1, <2>2, <3>z, Zenon DEF RequestType, RequestOps
    <2>4. q.op = "fetch" /\ q.state = request[e].state /\ q.checks = request[e].checks
          /\ q.plan = request[e].plan /\ q.began = 0
      BY <2>1, RequestHere DEF RequestType
    <2> QED
      BY <1>1, <2>1, <2>3, <2>4, IdleFits
  <1>3. /\ request' = [request EXCEPT ![e] = r] /\ request[e].op = "staging"
        /\ UNCHANGED <<now, head, installed, state, plan, sessions, kept, disputed, raced>>
    <2>1. CASE request[e].checks
      <3>1. request' = [request EXCEPT ![e].op = "fetch", ![e].began = 0,
                                       ![e].guarded = {}, ![e].known = {}]
        BY <2>1 DEF SweepStaging
      <3> QED
        BY <1>1, <2>1, <3>1, RequestHere, Zenon DEF SweepStaging, histories
    <2>2. CASE ~request[e].checks
      BY <1>1, <2>2 DEF SweepStaging, Answer, histories
    <2> QED
      BY <2>1, <2>2
  <1>4. staged' = [p \in PlanIds |->
                      IF p \in request[e].known \cup request[e].guarded THEN staged[p] ELSE {}]
    BY DEF SweepStaging
  <1>5. \A i \in DOMAIN sessions \ raced :
           Alive(i) => staged'[sessions[i].plan] = staged[sessions[i].plan]
    BY <1>3, <1>4, RequestHere, SessionHere DEF RequestFits, SweepFits
  <1>6. RequestFits(r)' /\ HeldApart(e, r)'
    <2>1. CASE r = Idle
      BY <1>3, <2>1, IdleStays, DataValues
    <2>2. CASE r.op = "fetch" /\ r.checks /\ request[e].checks /\ r.state = request[e].state
               /\ r.plan = request[e].plan /\ r.began = 0
      BY <1>3, <2>2, RequestHere, DataValues
      DEF RequestFits, SweepFits, StateFits, WriteFits, Writes, HasState, HeldApart, Differ
    <2> QED
      BY <1>2, <2>1, <2>2
  <1>7. staged' \in [PlanIds -> SUBSET {"file", "worker"}]
    BY <1>4, DataValues
  <1> QED
    BY <1>2, <1>3, <1>5, <1>6, <1>7, DataValues, DirectoryMoves

(* A plan record is written: no other is live for the answer, unless it is disputed. *)
LEMMA PlanWritten ==
    ASSUME DataAssumption, DataInv, NEW e \in Engines, savePlan(e) \/ Mark(e)
    PROVE  DataInv'
  <1>1. PICK q \in RequestType, r \in RequestType :
           /\ q = request[e] /\ Writes(q)
           /\ request' = [request EXCEPT ![e] = r]
           /\ r = Idle \/ (/\ r.op = "offer" /\ q.op = "savePlan" /\ r.state = q.state
                           /\ r.checks = q.checks /\ r.plan = q.plan /\ r.began = q.began)
    <2>1. CASE savePlan(e)
      <3>1. PICK r : r = [request[e] EXCEPT !.op = "offer"]
        OBVIOUS
      <3>2. r \in RequestType /\ r.op = "offer" /\ r.state = request[e].state
            /\ r.checks = request[e].checks /\ r.plan = request[e].plan /\ r.began = request[e].began
        <4>z. request[e] \in RequestType
          BY RequestHere
        <4> QED
          BY <3>1, <4>z, Zenon DEF RequestType, RequestOps
      <3>3. request' = [request EXCEPT ![e] = r] /\ request[e].op = "savePlan"
        BY <2>1, <3>1, RequestHere DEF savePlan, Goto
      <3> QED
        BY <3>2, <3>3, RequestHere DEF Writes
    <2>2. CASE Mark(e)
      BY <2>2, RequestHere, IdleFits DEF Mark, Answer, Writes
    <2> QED
      BY <2>1, <2>2
  <1>2. /\ plan' = [plan EXCEPT ![q.id] = q.plan]
        /\ UNCHANGED <<now, head, installed, state, staged, sessions, kept, disputed, raced>>
    BY <1>1 DEF savePlan, Mark, histories
  <1>q. /\ RequestFits(q) /\ q.id \in PlanIds /\ q.plan \in Plans /\ q.plan.code # 0
        /\ q.plan.expires <= now + PlanTTL
        /\ \A i \in DOMAIN sessions : Alive(i) /\ sessions[i].plan = q.id =>
               sessions[i].copy.code = q.plan.code
        /\ q.plan.code \notin disputed =>
               /\ Sole(q.id, q.plan)
               /\ \A i \in DOMAIN sessions : Alive(i) /\ sessions[i].plan = q.id =>
                      Younger(q.plan, sessions[i].copy)
    BY <1>1, RequestHere DEF RequestFits, WriteFits, RequestType
  <1>3. /\ plan' \in [PlanIds -> Plans] /\ plan'[q.id] = q.plan /\ Present(q.id)'
        /\ \A p \in PlanIds \ {q.id} : plan'[p] = plan[p]
    BY <1>q, <1>2, DataValues DEF Present, NoPlan
  <1>a. HeldApart(e, r)'
    BY <1>1, IdleStays, DataValues, <1>2 DEF HeldApart, Differ, Writes
  <1>r. /\ request' \in [Engines -> RequestType] /\ request'[e] = r
        /\ \A f \in Engines \ {e} : request'[f] = request[f]
        /\ RecordsDiffer'
    BY <1>1, <1>2, <1>a, OthersStay
  <1>4. DataType'
    BY <1>r, <1>2, <1>3 DEF DataInv, DataType, DataTypeOK
  <1>5. WorkersBeat'
    BY <1>2 DEF DataInv, DiskFits, WorkersBeat, Alive, sessionIsLive
  <1>6. CopiesFit'
    <2>1. ASSUME NEW i \in DOMAIN sessions, Alive(i)
          PROVE  CopyFits(sessions[i].copy, plan'[sessions[i].plan])
      <3>1. CopyFits(sessions[i].copy, plan[sessions[i].plan]) /\ sessions[i].plan \in PlanIds
        BY <2>1, SessionHere
      <3>2. CASE sessions[i].plan = q.id
        BY <1>3, <1>q, <2>1, <3>1, <3>2 DEF CopyFits
      <3>3. CASE sessions[i].plan # q.id
        BY <1>3, <3>1, <3>3
      <3> QED
        BY <3>2, <3>3
    <2> QED
      BY <1>2, <2>1 DEF CopiesFit, CopyFits, Younger, Alive
  <1>7. ExpiriesFit'
    BY <1>2, <1>3, <1>q DEF DataInv, DiskFits, ExpiriesFit
  <1>8. LiveKeepsFiles' /\ kept' \subseteq state'.skipped
    BY <1>2, <1>3, SessionHere DEF DataInv, DiskFits, LiveKeepsFiles, Present
  <1>9. OnePlanPerAnswer'
    <2>1. \A p \in PlanIds \ {q.id} : Present(p)' <=> Present(p)
      BY <1>3 DEF Present
    <2> QED
      BY <1>2, <1>3, <1>q, <2>1 DEF DataInv, DiskFits, OnePlanPerAnswer, Sole
  <1>10. RequestFits(r)'
    <2>1. CASE r = Idle
      BY <1>2, <2>1, IdleStays, DataValues
    <2>2. CASE /\ r.op = "offer" /\ q.op = "savePlan" /\ r.state = q.state
               /\ r.checks = q.checks /\ r.plan = q.plan /\ r.began = q.began
      BY <1>2, <1>q, <2>2 DEF RequestFits, SweepFits, StateFits, WriteFits, Writes, HasState
    <2> QED
      BY <1>1, <2>1, <2>2
  <1>11. ASSUME NEW f \in Engines \ {e}
         PROVE  RequestFits(request[f])'
    <2>1. PICK g \in RequestType : g = request[f] /\ RequestFits(g)
      BY RequestHere
    <2>2. SweepFits(g)' /\ StateFits(g)'
      BY <1>2, <2>1 DEF RequestFits, SweepFits, StateFits, Alive
    <2>3. WriteFits(g)'
      <3>1. SUFFICES ASSUME Writes(g) PROVE WriteFits(g)'
        BY DEF WriteFits
      <3>2. /\ q.plan.code = g.plan.code => g.plan.code \in disputed
            /\ q.id = g.id => q.plan.code = g.plan.code
        BY <1>1, <2>1, <3>1 DEF DataInv, RecordsDiffer, Differ
      <3>3. /\ g.id \in PlanIds /\ g.plan.code # 0 /\ g.plan.expires <= now + PlanTTL
            /\ plan[g.id].code \in {0, g.plan.code}
            /\ \A i \in DOMAIN sessions : Alive(i) /\ sessions[i].plan = g.id =>
                   sessions[i].copy.code = g.plan.code
            /\ g.plan.code \notin disputed =>
                   /\ Sole(g.id, g.plan) /\ Younger(g.plan, plan[g.id])
                   /\ \A i \in DOMAIN sessions : Alive(i) /\ sessions[i].plan = g.id =>
                          Younger(g.plan, sessions[i].copy)
        BY <2>1, <3>1 DEF RequestFits, WriteFits
      <3>4. plan'[g.id].code \in {0, g.plan.code}
        BY <1>3, <3>2, <3>3
      <3>5. g.plan.code \notin disputed =>
                /\ plan'[g.id] = plan[g.id]
                /\ \A p \in PlanIds \ {g.id} : plan'[p].code = g.plan.code => plan'[p] = plan[p]
        BY <1>3, <3>2, <3>3
      <3>6. g.plan.code \notin disputed => Sole(g.id, g.plan)' /\ Younger(g.plan, plan[g.id])'
        BY <1>2, <3>3, <3>5 DEF Sole, Younger, Present
      <3>7. \A i \in DOMAIN sessions : Younger(g.plan, sessions[i].copy)' <=> Younger(g.plan, sessions[i].copy)
        BY <1>2 DEF Younger
      <3> QED
        BY <1>2, <3>1, <3>3, <3>4, <3>6, <3>7 DEF WriteFits, Alive
    <2> QED
      BY <1>r, <2>1, <2>2, <2>3 DEF RequestFits
  <1> QED
    BY <1>4, <1>5, <1>6, <1>7, <1>8, <1>9, <1>10, <1>11, <1>r DEF DataInv, DiskFits

LEMMA FileDownloaded ==
    ASSUME DataAssumption, DataInv, NEW e \in Engines, DownloadFile(e)
    PROVE  DataInv'
  <1>1. /\ request[e].op = "download"
        /\ UNCHANGED <<now, head, installed, state, plan, sessions, kept, disputed, raced>>
    BY DEF DownloadFile, histories
  <1>2. PICK r \in RequestType :
           /\ request' = [request EXCEPT ![e] = r]
           /\ \/ r = Idle
              \/ /\ r.op = "mark" /\ r.id = request[e].id /\ r.checks = request[e].checks
                 /\ r.state = request[e].state /\ r.began = request[e].began
                 /\ r.plan.code = request[e].plan.code /\ r.plan.expires = request[e].plan.expires
    <2>1. CASE request' = [request EXCEPT ![e].op = "mark", ![e].plan.ready = TRUE]
      <3>1. PICK new : new = [request[e].plan EXCEPT !.ready = TRUE]
        OBVIOUS
      <3>2. new \in Plans /\ new.code = request[e].plan.code /\ new.expires = request[e].plan.expires
        <4>1. request[e].plan \in Plans
          BY RequestHere DEF RequestType
        <4> QED
          BY <3>1, <4>1 DEF Plans
      <3>3. PICK r : r = [request[e] EXCEPT !.op = "mark", !.plan = new]
        OBVIOUS
      <3>4. r \in RequestType /\ r.op = "mark" /\ r.id = request[e].id /\ r.plan = new
            /\ r.checks = request[e].checks /\ r.state = request[e].state /\ r.began = request[e].began
        <4>z. request[e] \in RequestType
          BY RequestHere
        <4> QED
          BY <3>2, <3>3, <4>z, Zenon DEF RequestType, RequestOps
      <3>5. request' = [request EXCEPT ![e] = r]
        <4>1. PICK q : q = request[e]
          OBVIOUS
        <4>2. /\ request' = [request EXCEPT ![e] = [[q EXCEPT !.op = "mark"] EXCEPT !.plan.ready = TRUE]]
              /\ r = [q EXCEPT !.op = "mark", !.plan = new] /\ new = [q.plan EXCEPT !.ready = TRUE]
          BY <2>1, <3>1, <3>3, <4>1, RequestHere DEF RequestType
        <4>3. q \in RequestType
          BY <4>1, RequestHere
        <4> QED
          BY <4>2, <4>3 DEF RequestType
      <3> QED
        BY <3>2, <3>4, <3>5
    <2>2. CASE Answer(e)
      BY <2>2, IdleFits DEF Answer
    <2> QED
      BY <2>1, <2>2 DEF DownloadFile
  <1>3. /\ staged' \in [PlanIds -> SUBSET {"file", "worker"}]
        /\ \A p \in PlanIds : staged[p] \subseteq staged'[p]
    <2>1. CASE staged' = [staged EXCEPT ![request[e].id] = @ \cup {"file"}]
      <3>1. staged \in [PlanIds -> SUBSET {"file", "worker"}]
        BY DataValues
      <3> QED
        BY <2>1, <3>1
    <2>2. CASE UNCHANGED staged
      BY <2>2, DataValues
    <2> QED
      BY <2>1, <2>2 DEF DownloadFile
  <1>4. \A i \in DOMAIN sessions : staged[sessions[i].plan] \subseteq staged'[sessions[i].plan]
    BY <1>3, SessionHere
  <1>5. RequestFits(r)' /\ HeldApart(e, r)'
    <2>1. CASE r = Idle
      BY <1>1, <2>1, IdleStays, DataValues
    <2>2. CASE /\ r.op = "mark" /\ r.id = request[e].id /\ r.checks = request[e].checks
               /\ r.state = request[e].state /\ r.began = request[e].began
               /\ r.plan.code = request[e].plan.code /\ r.plan.expires = request[e].plan.expires
      <3>1. SweepFits(r) /\ StateFits(r)
        BY <1>1, <2>2, RequestHere DEF RequestFits, SweepFits, StateFits, HasState
      <3>2. WriteFits(r)
        BY <1>1, <2>2, RequestHere DEF RequestFits, WriteFits, Writes, Sole, Younger
      <3>3. RequestFits(r)
        BY <3>1, <3>2 DEF RequestFits
      <3>4. RequestFits(r)'
        BY <1>1, <3>1, <3>3, FitStays DEF Alive, StateFits
      <3>5. HeldApart(e, r)'
        <4>1. \A f \in Engines \ {e} : request'[f] = request[f]
          BY <1>2, RequestHere
        <4>2. \A f \in Engines \ {e} : Differ(request[e], request[f])
          BY DEF DataInv, RecordsDiffer
        <4> QED
          BY <1>1, <2>2, <4>1, <4>2 DEF HeldApart, Differ, Writes
      <3> QED
        BY <3>4, <3>5
    <2> QED
      BY <1>2, <2>1, <2>2
  <1>6. \A p \in PlanIds : plan'[p] = plan[p]
    BY <1>1
  <1> QED
    BY <1>1, <1>2, <1>3, <1>4, <1>5, <1>6, DataValues, DirectoryMoves

(* An apply is accepted, and its worker started; a sweep that is under way does not know
   of it. *)
LEMMA ApplyAccepted ==
    ASSUME DataAssumption, DataInv, NEW e \in Engines, NEW p \in PlanIds, Accept(e, p)
    PROVE  DataInv'
  <1>t. plan[p] \in Plans
    BY DataValues
  <1>1. PICK s : s = [plan |-> p, phase |-> "working", sign |-> now, there |-> TRUE,
                      worker |-> "wait", copy |-> plan[p]]
    OBVIOUS
  <1>2. s \in SessionType /\ s.plan = p /\ s.worker = "wait" /\ s.copy = plan[p]
    BY <1>t, <1>1, DataValues DEF SessionType
  <1>3. sessionIsLive(s, now)
    BY <1>1, DataValues DEF sessionIsLive
  <1>4. /\ Present(p) /\ sessions' = Append(sessions, s) /\ Len(sessions) < MaxSessions
        /\ \A i \in DOMAIN sessions : ~Alive(i)
        /\ staged' = [staged EXCEPT ![p] = @ \cup {"worker"}]
        /\ raced' = IF \E f \in Engines : request[f].op \in {"clean", "plans", "staging"}
                    THEN raced \cup {Len(sessions) + 1} ELSE raced
        /\ UNCHANGED <<now, head, installed, state, plan, request, kept, disputed>>
    BY <1>1 DEF Accept, Alive
  <1>5. /\ sessions' \in Seq(SessionType) /\ Len(sessions') = Len(sessions) + 1
        /\ sessions'[Len(sessions')] = s
        /\ \A i \in DOMAIN sessions' : i = Len(sessions') \/ (i \in DOMAIN sessions /\ sessions'[i] = sessions[i])
    BY <1>2, <1>4, DataValues, AppendProperties
  <1>6. \A i \in DOMAIN sessions' : Alive(i)' => i = Len(sessions') /\ sessions'[i] = s
    BY <1>4, <1>5 DEF Alive
  <1>7. "worker" \in staged'[p] /\ staged' \in [PlanIds -> SUBSET {"file", "worker"}]
    BY <1>4, DataValues
  <1>8. DataType'
    <2>1. raced' \subseteq 1..MaxSessions
      BY <1>4, DataValues
    <2> QED
      BY <1>4, <1>5, <1>7, <2>1 DEF DataInv, DataType, DataTypeOK
  <1>9. WorkersBeat'
    BY <1>3, <1>4, <1>6 DEF WorkersBeat, sessionIsLive
  <1>10. CopiesFit'
    <2>1. CopyFits(plan[p], plan[p])
      BY <1>4, RecordHere, DataValues DEF CopyFits, Younger
    <2> QED
      BY <1>2, <1>4, <1>6, <2>1 DEF CopiesFit, CopyFits, Younger
  <1>11. LiveKeepsFiles'
    BY <1>2, <1>4, <1>6, <1>7 DEF LiveKeepsFiles, Alive, Present
  <1>12. ExpiriesFit' /\ OnePlanPerAnswer' /\ kept' \subseteq state'.skipped
    BY <1>4 DEF DataInv, DiskFits, ExpiriesFit, OnePlanPerAnswer, Present
  <1>13. ASSUME NEW f \in Engines
         PROVE  RequestFits(request[f])'
    <2>1. PICK r \in RequestType : r = request[f] /\ RequestFits(r)
      BY RequestHere
    <2>2. SweepFits(r)' /\ StateFits(r)'
      <3>1. r.op \in {"clean", "plans", "staging"} => Len(sessions') \in raced'
        BY <1>4, <1>5, <2>1
      <3> QED
        BY <1>4, <1>6, <2>1, <3>1 DEF RequestFits, SweepFits, StateFits
    <2>3. WriteFits(r)'
      <3>1. SUFFICES ASSUME Writes(r) PROVE WriteFits(r)'
        BY DEF WriteFits
      <3>2. /\ r.id \in PlanIds /\ r.plan.code # 0 /\ r.plan.expires <= now + PlanTTL
            /\ plan[r.id].code \in {0, r.plan.code}
            /\ r.plan.code \notin disputed =>
                   Sole(r.id, r.plan) /\ Younger(r.plan, plan[r.id])
        BY <2>1, <3>1 DEF RequestFits, WriteFits
      <3>3. r.id = p => plan[p].code = r.plan.code
        BY <1>4, <2>1, <3>1, RecordHere
      <3>4. r.plan.code \notin disputed => Sole(r.id, r.plan)' /\ Younger(r.plan, plan[r.id])'
        BY <1>4, <3>2 DEF Sole, Younger, Present
      <3>5. \A i \in DOMAIN sessions' : Alive(i)' /\ sessions'[i].plan = r.id =>
                /\ sessions'[i].copy.code = r.plan.code
                /\ r.plan.code \notin disputed => Younger(r.plan, sessions[i].copy)'
        BY <1>2, <1>4, <1>6, <3>2, <3>3 DEF Younger
      <3> QED
        BY <1>4, <3>1, <3>2, <3>4, <3>5 DEF WriteFits
    <2> QED
      BY <1>4, <2>1, <2>2, <2>3 DEF RequestFits
  <1>14. RecordsDiffer'
    BY <1>4 DEF DataInv, RecordsDiffer, Differ
  <1> QED
    BY <1>8, <1>9, <1>10, <1>11, <1>12, <1>13, <1>14 DEF DataInv, DiskFits

-----------------------------------------------------------------------------
(* Every step keeps what the files and the requests have in common. *)
LEMMA DataStep ==
    ASSUME DataAssumption, DataInv, [DataNext]_dataVars
    PROVE  DataInv'
  <1>1. CASE UNCHANGED dataVars
    <2>1. UNCHANGED <<now, head, installed, state, plan, staged, sessions, request, kept, disputed, raced>>
      BY <1>1 DEF dataVars, histories
    <2>2. DataType'
      BY <2>1 DEF DataInv, DataType, DataTypeOK
    <2>3. DiskFits'
      BY <2>1 DEF DataInv, DiskFits, WorkersBeat, CopiesFit, CopyFits, Younger, ExpiriesFit,
                  LiveKeepsFiles, OnePlanPerAnswer, Alive, Present, sessionIsLive
    <2>4. ASSUME NEW e \in Engines PROVE RequestFits(request[e])'
      <3>1. RequestFits(request[e])
        BY DEF DataInv
      <3> QED
        BY <2>1, <3>1 DEF RequestFits, SweepFits, StateFits, WriteFits, Sole, Alive, Present, Younger
    <2>5. RecordsDiffer'
      BY <2>1 DEF DataInv, RecordsDiffer, Differ
    <2> QED
      BY <2>2, <2>3, <2>4, <2>5 DEF DataInv
  <1>2. CASE Tick \/ Publish
    BY <1>2, WorldMoves
  <1>3. ASSUME NEW e \in Engines, EngineSteps(e)
        PROVE  DataInv'
    <2>1. CASE BeginCheck(e) \/ Clean(e)
      BY <2>1, SweepBegins
    <2>2. CASE SweepPlans(e)
      BY <2>2, PlansSwept
    <2>3. CASE SweepStaging(e)
      BY <2>3, StagingSwept
    <2>4. CASE NoOffer(e) \/ Offer(e)
      BY <2>4, AnswerGiven
    <2>5. CASE Fetch(e)
      BY <2>5, IndexFetched
    <2>6. CASE buildPlan(e)
      BY <2>6, PlanBuilt
    <2>7. CASE savePlan(e) \/ Mark(e)
      BY <2>7, PlanWritten
    <2>8. CASE BeginCleanup(e)
      BY <2>8, CleanupBegins
    <2>9. CASE \E code \in Unwanted : BeginSkip(e, code)
      BY <2>9, SkipBegins
    <2>10. CASE Skip(e)
      BY <2>10, SkipGoesOn
    <2>11. CASE CloseState(e) \/ CloseShared(e)
      BY <2>11, StateCloses, StateIsTorn
    <2>12. CASE \E p \in PlanIds : BeginDownload(e, p) \/ Accept(e, p)
      BY <2>12, DownloadBegins, ApplyAccepted
    <2>13. CASE DownloadFile(e)
      BY <2>13, FileDownloaded
    <2>14. CASE RequestDies(e)
      BY <2>14, RequestStops
    <2> QED
      BY <1>3, <2>1, <2>2, <2>3, <2>4, <2>5, <2>6, <2>7, <2>8, <2>9, <2>10, <2>11, <2>12, <2>13,
         <2>14
      DEF EngineSteps, CheckSteps, SkipSteps
  <1>4. ASSUME NEW i \in DOMAIN sessions, WorkerSteps(i)
        PROVE  DataInv'
    BY <1>4, WorkerWorks DEF WorkerSteps
  <1> QED
    BY <1>1, <1>2, <1>3, <1>4 DEF DataNext

(* The strengthened invariant holds in every reachable state, however many engines
   serve requests beside each other (check.go, plans.go, download.go, store.go). *)
THEOREM DataInvariance == DataSpec => []DataInv
  <1>1. DataInit => DataInv
    BY DataAssumption, InitData
  <1>2. DataInv /\ [DataNext]_dataVars => DataInv'
    BY DataAssumption, DataStep
  <1> QED
    BY <1>1, <1>2, PTL DEF DataSpec

(* No sweep and no cleanup that began after the apply takes the plan record, the
   directory or the file of a worker that is alive, however many engines and sessions
   there are, whatever died, and however the expiries fall (sweep, sessionIsLive,
   handleCleanup). *)
THEOREM WorkersKeepFiles == DataSpec => []LiveKeepsFiles
  <1>1. DataInv => LiveKeepsFiles
    BY DEF DataInv, DiskFits
  <1> QED
    BY <1>1, DataInvariance, PTL

(* For any number of engines beside each other: a skip that was answered, when nobody
   else was about to write the state without it, is never forgotten and never offered
   again, and an answer that is repeated keeps its plan, unless two requests held a
   record of it at once; although requests and workers write back what they read long
   before (buildPlan, reusablePlan, saveState, handleSkip, downloadPlanFiles). *)
THEOREM AnswersAreKept == DataSpec => []AnswersHold
  <1>1. DataInv => AnswersHold
    <2>1. ASSUME DataInv
          PROVE  SkipHolds
      <3>1. \A e \in Engines : request[e].checks =>
                request[e].plan.code \notin request[e].state.skipped \ Mandatory
                /\ kept \subseteq request[e].state.skipped
        BY <2>1, RequestHere DEF RequestFits, StateFits, HasState
      <3> QED
        BY <2>1, <3>1 DEF SkipHolds, DataInv, DiskFits
    <2> QED
      BY <2>1 DEF AnswersHold, DataInv, DiskFits
  <1> QED
    BY <1>1, DataInvariance, PTL

(* Engines that run one after another are exempt from nothing: then neither a sweep nor
   another request is ever under way beside what they do. *)
LEMMA NobodyElse ==
    ASSUME \A e, f \in Engines : e = f
    PROVE  DataSpec => [](disputed = {} /\ raced = {})
  <1> DEFINE Alone == disputed = {} /\ raced = {}
  <1>1. DataInit => Alone
    BY DEF DataInit
  <1>2. Alone /\ [DataNext]_dataVars => Alone'
    <2> SUFFICES ASSUME Alone, [DataNext]_dataVars PROVE Alone'
      OBVIOUS
    <2>1. CASE UNCHANGED histories
      BY <2>1 DEF histories
    <2>2. ASSUME NEW e \in Engines, EngineSteps(e), histories' # histories
          PROVE  Alone'
      <3>1. Engines \ {e} = {}
        OBVIOUS
      <3>2. \A code : Takes(e, code) => disputed' = disputed
        BY <3>1 DEF Takes
      <3>3. CASE buildPlan(e) \/ \E p \in PlanIds : BeginDownload(e, p)
        BY <3>2, <3>3 DEF buildPlan, BeginDownload
      <3>4. CASE \E p \in PlanIds : Accept(e, p)
        <4>1. \A f \in Engines : request[f].op = "idle"
          BY <3>4 DEF Accept
        <4> QED
          BY <3>4, <4>1 DEF Accept
      <3>5. CASE CloseState(e) \/ CloseShared(e)
        BY <3>5 DEF CloseState, CloseShared
      <3> QED
        BY <2>2, <3>3, <3>4, <3>5
        DEF EngineSteps, CheckSteps, SkipSteps, BeginCheck, SweepPlans, SweepStaging, NoOffer, Fetch,
            savePlan, Offer, BeginSkip, Skip, RequestDies, DownloadFile, Mark, BeginCleanup, Clean
    <2>3. CASE \E i \in DOMAIN sessions : WorkerSteps(i)
      BY <2>1, <2>3 DEF WorkerSteps, Wait, WorkerFetch, WorkerSave, WorkerFails, WorkerEnds, WriterDies
    <2>4. CASE Tick \/ Publish \/ UNCHANGED dataVars
      BY <2>1, <2>4 DEF Tick, Publish, dataVars
    <2> QED
      BY <2>1, <2>2, <2>3, <2>4 DEF DataNext
  <1> QED
    BY <1>1, <1>2, PTL DEF DataSpec

================================================================================

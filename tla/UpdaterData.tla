------------------------------ MODULE UpdaterData ------------------------------
(***************************************************************************)
(* The data directory of the updater: what a check decided, what is staged  *)
(* for it, and what may be thrown away (internal/updater check.go, plans.go, *)
(* download.go, store.go, engine.go handleCleanup; the worker of apply.go   *)
(* as far as it uses a plan).                                               *)
(*                                                                          *)
(* A request of the host is one engine process; the apply worker is another *)
(* one.  Nothing in the directory is locked: each reads files, works, and   *)
(* writes whole files back by a rename.  Any number of engines may run.     *)
(*                                                                          *)
(* Abstractions.  The index with sequence s offers the release with code s. *)
(* Time is counted in steps of a part of PlanTTL; it does not pass by so    *)
(* much that a worker that is alive shows no sign for PlanTTL (it beats     *)
(* while it waits; a download or a copy is taken to be shorter).  A plan is *)
(* not tampered with, and its record is written at once.  The file of the   *)
(* state exists; if two engines write it at the same moment, to the one     *)
(* temporary file that they share, one copy is left or nothing.  The        *)
(* install lock admits one session at a time.                               *)
(***************************************************************************)
EXTENDS Naturals, FiniteSets, Sequences

CONSTANTS
    Engines,     \* processes that may serve requests at the same time
    First,       \* the one that runs when they run one after another
    Loads,       \* what hosts ask for in a behaviour (bound)
    PlanIds,
    MaxCode,     \* bound of the releases
    Mandatory,   \* codes that may not be skipped
    Unwanted,    \* codes that the user asks to skip
    PlanTTL,
    MaxNow,      \* bound of the clock
    MaxSessions, \* bound of the applies
    NoId

Codes == 1..MaxCode

ASSUME DataAssumption ==
    /\ MaxCode \in Nat \ {0} /\ Mandatory \cup Unwanted \subseteq Codes
    /\ PlanTTL \in Nat \ {0} /\ MaxNow \in Nat /\ MaxSessions \in Nat
    /\ NoId \notin PlanIds
    /\ First \in Engines /\ Loads \subseteq {"all", "answers", "turns"}

VARIABLES
    load,       \* what hosts ask for: everything, no applies, at one
                \* moment, or everything of one engine after another
    now,
    head,       \* newest published sequence
    installed,  \* code that the host reports as its own
    state,      \* state.pb: sequence floor and skipped codes
    plan,       \* plans/<id>.pb
    staged,     \* staging/<id>: the downloaded file, the copy of the worker
    sessions,   \* session records in the order of their start
    request,    \* what each engine process is doing
    kept,       \* history: codes whose skip was answered with Ok when nobody else was
                \* about to write the state without it
    disputed,   \* history: codes of records that two requests held at once
    raced       \* history: sessions that began while a sweep was under way

histories == <<kept, disputed, raced>>
dataVars == <<load, now, head, installed, state, plan, staged, sessions, request, histories>>

NoPlan == [code |-> 0, expires |-> 0, ready |-> FALSE]
Plans  == [code : 0..MaxCode, expires : 0..MaxNow + PlanTTL, ready : BOOLEAN]

NoState == [floor |-> 0, skipped |-> {}]

Idle == [op |-> "idle", checks |-> FALSE, state |-> NoState, began |-> 0, guarded |-> {},
         known |-> {}, id |-> NoId, plan |-> NoPlan]

Present(p) == plan[p] # NoPlan
Expired(p) == Present(p) /\ now >= plan[p].expires

(* planFileReady, for the one file of a plan. *)
planFileReady(p, record) == record.ready /\ "file" \in staged[p]

(* sessionIsLive: a working phase and a sign within PlanTTL of time t. *)
sessionIsLive(s, t) == s.there /\ s.phase = "working" /\ s.sign + PlanTTL > t

DataInit ==
    /\ load \in Loads
    /\ now = 0 /\ head = 0 /\ installed = 0
    /\ state = NoState
    /\ plan = [p \in PlanIds |-> NoPlan]
    /\ staged = [p \in PlanIds |-> {}]
    /\ sessions = <<>>
    /\ request = [e \in Engines |-> Idle]
    /\ kept = {} /\ disputed = {} /\ raced = {}

-----------------------------------------------------------------------------
(* The world. *)

(* A worker that is alive beats often enough. *)
Beaten(s) == s.worker = "none" \/ s.sign + PlanTTL > now + 1

Tick ==
    /\ now < MaxNow /\ load # "answers"
    /\ \A i \in DOMAIN sessions : Beaten(sessions[i])
    /\ now' = now + 1
    /\ UNCHANGED <<load, head, installed, state, plan, staged, sessions, request, histories>>

Publish ==
    /\ head < MaxCode
    /\ head' = head + 1
    /\ UNCHANGED <<load, now, installed, state, plan, staged, sessions, request, histories>>

-----------------------------------------------------------------------------
(* The parts of a request. *)

Goto(e, op) == request' = [request EXCEPT ![e].op = op]
Answer(e)   == request' = [request EXCEPT ![e] = Idle]

(* Mutant: a session that has not begun to copy does not count. *)
Guarded_CopyOnly(t) ==
    {sessions[i].plan : i \in {j \in DOMAIN sessions :
        sessionIsLive(sessions[j], t) /\ sessions[j].worker = "copy"}}

(* sweepSessions at time t: plans of live sessions are protected, old records
   go, except the newest. *)
Guarded(t) == {sessions[i].plan : i \in {j \in DOMAIN sessions : sessionIsLive(sessions[j], t)}}

sweepSessions(t) ==
    sessions' = [i \in DOMAIN sessions |->
        IF sessionIsLive(sessions[i], t) \/ i = Len(sessions) \/ t <= sessions[i].sign + PlanTTL
        THEN sessions[i] ELSE [sessions[i] EXCEPT !.there = FALSE]]

(* handleCheck reads the state and begins its sweep. *)
BeginCheck(e) ==
    /\ request[e].op = "idle"
    /\ sweepSessions(now)
    /\ request' = [request EXCEPT ![e] =
           [Idle EXCEPT !.op = "plans", !.checks = TRUE, !.state = state,
                        !.began = now, !.guarded = Guarded(now)]]
    /\ UNCHANGED <<load, now, head, installed, state, plan, staged, histories>>

(* handleCleanup: the staging of the newest session goes when it is over. *)
BeginCleanup(e) ==
    /\ request[e].op = "idle"
    /\ LET over == sessions # <<>> /\ sessions[Len(sessions)].phase = "done"
       IN  request' = [request EXCEPT ![e] =
               [Idle EXCEPT !.op = "clean",
                            !.id = IF over THEN sessions[Len(sessions)].plan ELSE NoId]]
    /\ UNCHANGED <<load, now, head, installed, state, plan, staged, sessions, histories>>

Clean(e) ==
    /\ request[e].op = "clean"
    /\ staged' = [p \in PlanIds |-> IF p = request[e].id THEN {} ELSE staged[p]]
    /\ sweepSessions(now)
    /\ request' = [request EXCEPT ![e] =
           [Idle EXCEPT !.op = "plans", !.began = now, !.guarded = Guarded(now)]]
    /\ UNCHANGED <<load, now, head, installed, state, plan, histories>>

(* Mutant: a plan whose file was downloaded keeps it. *)
SweepPlans_NotReady(e) ==
    /\ request[e].op = "plans"
    /\ LET t       == request[e].began
           stale   == {p \in PlanIds \ request[e].guarded :
                         Present(p) /\ t >= plan[p].expires /\ ~plan[p].ready}
           ancient == {p \in stale : t > plan[p].expires + PlanTTL}
       IN  /\ staged' = [p \in PlanIds |-> IF p \in stale THEN {} ELSE staged[p]]
           /\ plan' = [p \in PlanIds |-> IF p \in ancient THEN NoPlan ELSE plan[p]]
           /\ request' = [request EXCEPT ![e].op = "staging",
                                       ![e].known = {p \in PlanIds \ ancient : Present(p)}]
    /\ UNCHANGED <<load, now, head, installed, state, sessions, histories>>

(* The plan records: staging goes with the expiry, the record after another
   PlanTTL. *)
SweepPlans(e) ==
    /\ request[e].op = "plans"
    /\ LET t       == request[e].began
           stale   == {p \in PlanIds \ request[e].guarded : Present(p) /\ t >= plan[p].expires}
           ancient == {p \in stale : t > plan[p].expires + PlanTTL}
       IN  /\ staged' = [p \in PlanIds |-> IF p \in stale THEN {} ELSE staged[p]]
           /\ plan' = [p \in PlanIds |-> IF p \in ancient THEN NoPlan ELSE plan[p]]
           /\ request' = [request EXCEPT ![e].op = "staging",
                                       ![e].known = {p \in PlanIds \ ancient : Present(p)}]
    /\ UNCHANGED <<load, now, head, installed, state, sessions, histories>>

(* Staging directories without a record.  A cleanup is over then. *)
SweepStaging(e) ==
    /\ request[e].op = "staging"
    /\ staged' = [p \in PlanIds |->
                    IF p \in request[e].known \cup request[e].guarded THEN staged[p] ELSE {}]
    /\ IF request[e].checks
       THEN request' = [request EXCEPT ![e].op = "fetch", ![e].began = 0,
                                     ![e].guarded = {}, ![e].known = {}]
       ELSE Answer(e)
    /\ UNCHANGED <<load, now, head, installed, state, plan, sessions, histories>>

(* Who will write the state that it read, and who holds a record of the code. *)
HasState(r) == r.checks \/ r.op \in {"skip", "save", "share"}
HasRecord(r, code) == r.op \in {"savePlan", "download", "mark"} /\ r.plan.code = code

(* saveState opens its temporary file; those who write at the same time share it. *)
OpenState(e) ==
    LET writing == {f \in Engines \ {e} : request[f].op \in {"save", "share"}}
    IN  request' = [f \in Engines |->
            IF f = e THEN [request[e] EXCEPT !.op = IF writing = {} THEN "save" ELSE "share"]
            ELSE IF f \in writing THEN [request[f] EXCEPT !.op = "share"]
            ELSE request[f]]

(* The answer is no new plan: throttled, up to date or failed. *)
NoOffer(e) ==
    /\ request[e].op \in {"fetch", "decide"}
    /\ OpenState(e)
    /\ UNCHANGED <<load, now, head, installed, state, plan, staged, sessions, histories>>

(* Mutant: what the request knows of the state replaces all of it. *)
SaveState_FloorOnly(e) ==
    state' = [floor |-> request[e].state.floor, skipped |-> {}]

(* saveState writes back what the request read, with its own changes. *)
SaveState(e) == state' = request[e].state

(* The rename, and the answer. *)
CloseState(e) ==
    /\ request[e].op = "save"
    /\ SaveState(e)
    /\ kept' = IF request[e].checks \/ \E f \in Engines \ {e} :
                    HasState(request[f]) /\ request[e].plan.code \notin request[f].state.skipped
               THEN kept ELSE kept \cup {request[e].plan.code}
    /\ Answer(e)
    /\ UNCHANGED <<load, now, head, installed, plan, staged, sessions, disputed, raced>>

(* With a shared temporary file: the rename of either may come first, also before
   the other has written what it had truncated. *)
CloseShared(e) ==
    /\ request[e].op = "share"
    /\ state' \in {state, NoState} \cup
           {request[f].state : f \in {g \in Engines : request[g].op = "share"}}
    /\ kept' = {}
    /\ Answer(e)
    /\ UNCHANGED <<load, now, head, installed, plan, staged, sessions, disputed, raced>>

(* Any mirror may answer, not below the floor that was read. *)
Fetch(e) ==
    /\ request[e].op = "fetch"
    /\ \E s \in 1..head :
          /\ s >= request[e].state.floor
          /\ request' = [request EXCEPT ![e].op = "decide", ![e].state.floor = s]
    /\ UNCHANGED <<load, now, head, installed, state, plan, staged, sessions, histories>>

(* Mutant: a skip is not looked up. *)
Offerable_All(e, code) == code > installed

Offerable(e, code) ==
    code > installed /\ (code \in Mandatory \/ code \notin request[e].state.skipped)

(* The live plans that answer the same; those with their file come first. *)
Reusable(code) == {p \in PlanIds : plan[p].code = code /\ Present(p) /\ now < plan[p].expires}
Best(code) ==
    LET ready == {p \in Reusable(code) : planFileReady(p, plan[p])}
    IN  IF ready # {} THEN ready ELSE Reusable(code)

(* newID never gives a name twice. *)
Fresh == {p \in PlanIds : /\ ~Present(p) /\ staged[p] = {}
                          /\ \A i \in DOMAIN sessions : sessions[i].plan # p
                          /\ \A e \in Engines : request[e].id # p}

(* A request takes a record of the code into its hands. *)
Takes(e, code) ==
    disputed' = IF \E f \in Engines \ {e} : HasRecord(request[f], code)
                THEN disputed \cup {code} ELSE disputed

(* Mutant: every check makes a plan of its own. *)
buildPlan_Fresh(e) ==
    /\ request[e].op = "decide"
    /\ Offerable(e, request[e].state.floor)
    /\ \E p \in Fresh :
          request' = [request EXCEPT ![e].op = "savePlan", ![e].id = p,
              ![e].plan = [code |-> request[e].state.floor, expires |-> now + PlanTTL,
                           ready |-> FALSE]]
    /\ UNCHANGED <<load, now, head, installed, state, plan, staged, sessions, histories>>

(* buildPlan with reusablePlan and refreshPlan: the expiry is moved, a mark
   without its file is dropped. *)
buildPlan(e) ==
    /\ request[e].op = "decide"
    /\ Offerable(e, request[e].state.floor)
    /\ LET code == request[e].state.floor
       IN  \E p \in IF Reusable(code) # {} THEN Best(code) ELSE Fresh :
              request' = [request EXCEPT ![e].op = "savePlan", ![e].id = p,
                  ![e].plan = [code |-> code, expires |-> now + PlanTTL,
                               ready |-> Present(p) /\ planFileReady(p, plan[p])]]
    /\ Takes(e, request[e].state.floor)
    /\ UNCHANGED <<load, now, head, installed, state, plan, staged, sessions, kept, raced>>

savePlan(e) ==
    /\ request[e].op = "savePlan"
    /\ plan' = [plan EXCEPT ![request[e].id] = request[e].plan]
    /\ Goto(e, "offer")
    /\ UNCHANGED <<load, now, head, installed, state, staged, sessions, histories>>

Offer(e) ==
    /\ request[e].op = "offer"
    /\ OpenState(e)
    /\ UNCHANGED <<load, now, head, installed, state, plan, staged, sessions, histories>>

(* handleSkip reads the state ... *)
BeginSkip(e, code) ==
    /\ request[e].op = "idle"
    /\ request' = [request EXCEPT ![e] =
           [Idle EXCEPT !.op = "skip", !.plan.code = code,
                        !.state = [state EXCEPT !.skipped = @ \cup {code}]]]
    /\ UNCHANGED <<load, now, head, installed, state, plan, staged, sessions, histories>>

(* ... and writes it, unless a plan record says that the code is mandatory. *)
Skip(e) ==
    /\ request[e].op = "skip"
    /\ LET code == request[e].plan.code
       IN  IF \E p \in PlanIds : Present(p) /\ plan[p].code = code /\ code \in Mandatory
           THEN Answer(e)
           ELSE OpenState(e)
    /\ UNCHANGED <<load, now, head, installed, state, plan, staged, sessions, histories>>

(* handleDownload: the record is read, the files fetched, the record with the
   mark written. *)
BeginDownload(e, p) ==
    /\ request[e].op = "idle"
    /\ Present(p) /\ now <= plan[p].expires
    /\ request' = [request EXCEPT ![e] = [Idle EXCEPT !.op = "download", !.id = p, !.plan = plan[p]]]
    /\ Takes(e, plan[p].code)
    /\ UNCHANGED <<load, now, head, installed, state, plan, staged, sessions, kept, raced>>

DownloadFile(e) ==
    /\ request[e].op = "download"
    /\ \/ /\ staged' = [staged EXCEPT ![request[e].id] = @ \cup {"file"}]
          /\ request' = [request EXCEPT ![e].op = "mark", ![e].plan.ready = TRUE]
       \/ Answer(e) /\ UNCHANGED staged
    /\ UNCHANGED <<load, now, head, installed, state, plan, sessions, histories>>

Mark(e) ==
    /\ request[e].op = "mark"
    /\ plan' = [plan EXCEPT ![request[e].id] = request[e].plan]
    /\ Answer(e)
    /\ UNCHANGED <<load, now, head, installed, state, staged, sessions, histories>>

(* handleApply, from the plan to the worker that was started. *)
Accept(e, p) ==
    /\ request[e].op = "idle"
    /\ Present(p) /\ now <= plan[p].expires
    /\ plan[p].ready => planFileReady(p, plan[p])
    /\ \A i \in DOMAIN sessions : sessions[i].worker = "none"
    /\ Len(sessions) < MaxSessions
    /\ sessions' = Append(sessions,
           [plan |-> p, phase |-> "working", sign |-> now, there |-> TRUE,
            worker |-> "wait", copy |-> plan[p]])
    /\ staged' = [staged EXCEPT ![p] = @ \cup {"worker"}]
    /\ raced' = IF \E f \in Engines : request[f].op \in {"clean", "plans", "staging"}
                THEN raced \cup {Len(sessions) + 1} ELSE raced
    /\ UNCHANGED <<load, now, head, installed, state, plan, request, kept, disputed>>

(* A process may die between any two of its steps. *)
RequestDies(e) ==
    /\ request[e].op # "idle"
    /\ Answer(e)
    /\ UNCHANGED <<load, now, head, installed, state, plan, staged, sessions, histories>>

-----------------------------------------------------------------------------
(* The worker of session i. *)

At(i, point) == sessions[i].worker = point

(* It beats while the host runs, then takes the next phase. *)
Wait(i) ==
    /\ At(i, "wait")
    /\ \E next \in {"wait", IF planFileReady(sessions[i].plan, sessions[i].copy)
                            THEN "copy" ELSE "fetch"} :
          sessions' = [sessions EXCEPT ![i].worker = next, ![i].sign = now]
    /\ UNCHANGED <<load, now, head, installed, state, plan, staged, request, histories>>

(* downloadPlanFiles. *)
WorkerFetch(i) ==
    /\ At(i, "fetch")
    /\ staged' = [staged EXCEPT ![sessions[i].plan] = @ \cup {"file"}]
    /\ sessions' = [sessions EXCEPT ![i].worker = "save", ![i].copy.ready = TRUE]
    /\ UNCHANGED <<load, now, head, installed, state, plan, request, histories>>

(* The record that was read when the worker started, with the mark; then the
   phase. *)
WorkerSave(i) ==
    /\ At(i, "save")
    /\ plan' = [plan EXCEPT ![sessions[i].plan] = sessions[i].copy]
    /\ sessions' = [sessions EXCEPT ![i].worker = "copy", ![i].sign = now]
    /\ UNCHANGED <<load, now, head, installed, state, staged, request, histories>>

(* The session is recorded as failed, and the worker ends. *)
WorkerFails(i) ==
    /\ sessions[i].worker \in {"wait", "fetch"}
    /\ sessions' = [sessions EXCEPT ![i].worker = "none", ![i].copy = NoPlan, ![i].phase = "failed", ![i].sign = now,
                                    ![i].there = TRUE]
    /\ UNCHANGED <<load, now, head, installed, state, plan, staged, request, histories>>

(* Installed, or rolled back. *)
WorkerEnds(i) ==
    /\ At(i, "copy")
    /\ sessions' = [sessions EXCEPT ![i].worker = "none", ![i].copy = NoPlan, ![i].phase = "done", ![i].sign = now,
                                    ![i].there = TRUE]
    /\ installed' \in {installed, sessions[i].copy.code}
    /\ UNCHANGED <<load, now, head, state, plan, staged, request, histories>>

WriterDies(i) ==
    /\ sessions[i].worker # "none"
    /\ sessions' = [sessions EXCEPT ![i].worker = "none", ![i].copy = NoPlan]
    /\ UNCHANGED <<load, now, head, installed, state, plan, staged, request, histories>>

-----------------------------------------------------------------------------

CheckSteps(e) ==
    \/ BeginCheck(e) \/ SweepPlans(e) \/ SweepStaging(e)
    \/ NoOffer(e) \/ Fetch(e) \/ buildPlan(e) \/ savePlan(e) \/ Offer(e)

SkipSteps(e) ==
    \/ \E code \in Unwanted : BeginSkip(e, code)
    \/ Skip(e) \/ CloseState(e) \/ CloseShared(e) \/ RequestDies(e)

EngineSteps(e) ==
    /\ load = "turns" => e = First
    /\ \/ CheckSteps(e) \/ SkipSteps(e)
       \/ \E p \in PlanIds : BeginDownload(e, p)
       \/ DownloadFile(e) \/ Mark(e)
       \/ load # "answers" /\
             \/ BeginCleanup(e) \/ Clean(e)
             \/ \E p \in PlanIds : Accept(e, p)

WorkerSteps(i) ==
    \/ Wait(i) \/ WorkerFetch(i) \/ WorkerSave(i)
    \/ WorkerFails(i) \/ WorkerEnds(i) \/ WriterDies(i)

DataNext ==
    \/ Tick \/ Publish
    \/ \E e \in Engines : EngineSteps(e)
    \/ \E i \in DOMAIN sessions : WorkerSteps(i)

DataSpec == DataInit /\ [][DataNext]_dataVars

(* Hosts check on a timer, and not every check dies half way; what an engine
   has begun it ends, unless it dies; the clock goes on. *)
Fairness ==
    /\ SF_dataVars(\E e \in Engines : BeginCheck(e))
    /\ SF_dataVars(\E e \in Engines : SweepPlans(e))
    /\ SF_dataVars(\E e \in Engines : SweepStaging(e))
    /\ WF_dataVars(\E e \in Engines : request[e].op # "idle" /\ EngineSteps(e))
    /\ WF_dataVars(Tick)

FairDataSpec == DataSpec /\ Fairness

-----------------------------------------------------------------------------
(* Properties. *)

DataTypeOK ==
    /\ now \in 0..MaxNow /\ head \in 0..MaxCode /\ installed \in 0..MaxCode
    /\ state \in [floor : 0..MaxCode, skipped : SUBSET Codes]
    /\ plan \in [PlanIds -> Plans]
    /\ staged \in [PlanIds -> SUBSET {"file", "worker"}]
    /\ kept \subseteq Codes /\ disputed \subseteq Codes
    /\ raced \subseteq 1..MaxSessions

(* A worker that is alive finds its plan record and its own directory, the
   file too once it copies: no sweep or cleanup that begins after the apply takes
   them away ("anything a live apply session points at is never touched",
   plans.go). *)
LiveKeepsFiles ==
    \A i \in DOMAIN sessions \ raced : sessions[i].worker # "none" =>
        /\ Present(sessions[i].plan)
        /\ "worker" \in staged[sessions[i].plan]
        /\ sessions[i].worker \in {"save", "copy"} => "file" \in staged[sessions[i].plan]

(* One answer, one plan: hosts that check again and again do not pile up
   plans and downloads of the same release (plans.go, rule 1), unless two requests
   held a record of it at once. *)
OnePlanPerAnswer ==
    \A p, q \in PlanIds :
        Present(p) /\ Present(q) /\ now < plan[p].expires /\ now < plan[q].expires
            /\ plan[p].code = plan[q].code /\ plan[p].code \notin disputed => p = q

(* A skip that was answered with Ok is never forgotten, and no check is about to
   offer that release, whatever other engines do from then on; those that read the
   state before the skip and write it after may lose it (handleSkip, handleCheck,
   ADR 0010). *)
SkipHolds ==
    /\ kept \subseteq state.skipped
    /\ \A e \in Engines : request[e].checks /\ request[e].op \in {"savePlan", "offer", "save", "share"} =>
          request[e].plan.code \notin kept \ Mandatory

(* What the engine answered stays true of its data, whichever engines died
   since (buildPlan, saveState). *)
AnswersHold == OnePlanPerAnswer /\ SkipHolds

Held(p) == \E i \in DOMAIN sessions : sessions[i].plan = p /\ sessionIsLive(sessions[i], now)

(* What was staged for a plan is gone some time after the plan expired, unless
   it is refreshed or a session holds it: also after deaths (plans.go, rule 2). *)
StagingReclaimed ==
    \A p \in PlanIds : []<>(staged[p] = {} \/ Held(p) \/ (Present(p) /\ ~Expired(p)))

=============================================================================

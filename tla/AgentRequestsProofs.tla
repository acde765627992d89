-------------------------- MODULE AgentRequestsProofs --------------------------
(***************************************************************************)
(* Proofs about AgentRequests, for every set of requests, trees, versions  *)
(* and goroutines.                                                         *)
(*                                                                         *)
(* IInv is inductive.  All steps of a handler but three change its record  *)
(* only, so one lemma (HandlerMoves) covers them; the three that change    *)
(* the index hold the product lock, so no other handler is at a point      *)
(* whose plan they could make stale (HandlersOK).                          *)
(***************************************************************************)
EXTENDS AgentRequests, TLAPS

IInv == TypeOK /\ RequestInv

(* What every step preserves of the releases that are listed or were removed. *)
Known == listed \cup removed

-----------------------------------------------------------------------------
(* The site. *)

(* A step that neither asks for a rebuild nor is part of one. *)
LEMMA SiteIsLeft ==
    ASSUME SiteOK, UNCHANGED <<trigger, rebuilt>>
    PROVE  SiteOK'
  BY DEF SiteOK, trigger, rebuilt

(* A trigger. *)
LEMMA SiteIsTriggered ==
    ASSUME SiteOK, TriggerSiteRebuild, UNCHANGED rebuilt
    PROVE  SiteOK'
  <1>1. pending' \in BOOLEAN /\ running' \in BOOLEAN /\ behind' \in BOOLEAN
    BY DEF SiteOK, TriggerSiteRebuild, Wake, rebuilt
  <1>2. worker' \in [Workers -> {"off", "loop", "rebuild", "restart"}]
    BY DEF SiteOK, TriggerSiteRebuild, Wake
  <1>3. asked' \in Nat /\ seen' \in 0 .. asked'
    BY DEF SiteOK, TriggerSiteRebuild, rebuilt
  <1> QED
    BY <1>1, <1>2, <1>3 DEF SiteOK, rebuilt

(* A step of the goroutine. *)
LEMMA SiteIsRebuilt ==
    ASSUME SiteOK, listed \subseteq Trees, NEW w \in Workers, Rebuild(w)
    PROVE  SiteOK'
  <1>1. CASE BeginRebuild(w)
    <2>1. pending' \in BOOLEAN /\ running' \in BOOLEAN /\ behind' \in BOOLEAN
      BY <1>1, Zenon DEF SiteOK, BeginRebuild
    <2>2. worker' \in [Workers -> {"off", "loop", "rebuild", "restart"}]
      BY <1>1 DEF SiteOK, BeginRebuild
    <2>3. snap' \in (SUBSET Trees) \cup {None}
      <3>1. snap' = snap \/ snap' = listed \/ snap' = None
        BY <1>1 DEF BeginRebuild
      <3>2. snap \in (SUBSET Trees) \cup {None}
        BY DEF SiteOK
      <3> QED
        BY <3>1, <3>2
    <2>4. seen' \in 0 .. asked'
      BY <1>1 DEF SiteOK, BeginRebuild
    <2> QED
      BY <1>1, <2>1, <2>2, <2>3, <2>4 DEF SiteOK, BeginRebuild
  <1>2. CASE EndRebuild(w)
    <2>1. site' \subseteq Trees
      <3>1. site' = site \/ (site' = snap /\ snap # None)
        BY <1>2 DEF EndRebuild
      <3>2. site \subseteq Trees /\ snap \in (SUBSET Trees) \cup {None}
        BY DEF SiteOK
      <3> QED
        BY <3>1, <3>2
    <2>2. behind' \in BOOLEAN /\ worker' \in [Workers -> {"off", "loop", "rebuild", "restart"}]
      BY <1>2 DEF SiteOK, EndRebuild
    <2>3. UNCHANGED <<pending, running, snap, panics, asked, seen>>
      BY <1>2 DEF EndRebuild
    <2> QED
      BY <2>1, <2>2, <2>3 DEF SiteOK
  <1>3. CASE Panic(w)
    <2>1. pending' \in BOOLEAN /\ running' \in BOOLEAN /\ behind' \in BOOLEAN
      BY <1>3, Zenon DEF SiteOK, Panic
    <2>2. worker' \in [Workers -> {"off", "loop", "rebuild", "restart"}]
      BY <1>3 DEF SiteOK, Panic
    <2> QED
      BY <1>3, <2>1, <2>2 DEF SiteOK, Panic
  <1>4. CASE Restart(w)
    BY <1>4 DEF SiteOK, Restart, Wake, rebuilt
  <1> QED
    BY <1>1, <1>2, <1>3, <1>4 DEF Rebuild

-----------------------------------------------------------------------------
(* Handlers. *)

(* One handler moves; only the holder of the lock changes the index. *)
LEMMA HandlerMoves ==
    ASSUME HandlersOK, RequestInv,
           NEW r \in Requests, NEW h \in Handlers,
           req' = [req EXCEPT ![r] = h],
           HandlerInv(h)',
           lock' = IF h.at \in Locked THEN r ELSE IF lock = r THEN None ELSE lock,
           lock \in {r, None} \/ h.at \notin Locked,
           listed' = listed \/ lock = r
    PROVE  /\ HandlersOK'
           /\ \A q \in Requests : HandlerInv(req[q])'
  <1>1. req' \in [Requests -> Handlers] /\ req'[r] = h
    BY DEF HandlersOK
  <1>2. \A q \in Requests \ {r} : req'[q] = req[q]
    BY DEF HandlersOK
  <1>3. \A q \in Requests : req'[q].at \in Locked <=> lock' = q
    BY <1>1, <1>2, TreesAssumption DEF HandlersOK
  <1>4. lock' \in Requests \cup {None}
    BY DEF HandlersOK
  <1>5. ASSUME NEW q \in Requests \ {r}
        PROVE  HandlerInv(req[q])'
    <2>1. req[q].at \in {"planned", "remove", "listed", "remembered"} => listed' = listed
      BY DEF HandlersOK, Locked
    <2> QED
      BY <1>2, <2>1 DEF RequestInv, HandlerInv, Fits
  <1> QED
    BY <1>1, <1>3, <1>4, <1>5 DEF HandlersOK, HandlerInv, Fits

(* A handler moves and leaves the index and the remembered answers. *)
LEMMA HandlerAnswers ==
    ASSUME IInv, NEW r \in Requests, NEW h \in Handlers,
           req' = [req EXCEPT ![r] = h],
           HandlerInv(h),
           lock' = IF h.at \in Locked THEN r ELSE IF lock = r THEN None ELSE lock,
           lock \in {r, None} \/ h.at \notin Locked,
           UNCHANGED <<saved, index, crashes>>,
           told' \subseteq listed,
           tree' \in [Versions -> Trees \cup {None}],
           sha' \in [Versions -> Trees \cup {None}],
           SiteOK'
    PROVE  IInv'
  <1>1. HandlerInv(h)'
    BY DEF HandlerInv, Fits, index
  <1>2. listed' = listed
    BY DEF index
  <1>3. HandlersOK' /\ \A q \in Requests : HandlerInv(req[q])'
    BY <1>1, <1>2, HandlerMoves DEF IInv, TypeOK
  <1>4. FilesOK'
    BY DEF IInv, TypeOK, FilesOK, index
  <1> QED
    BY <1>3, <1>4 DEF IInv, TypeOK, RequestInv, ToldIsListed, index

(* A handler moves and tells nobody anything. *)
LEMMA HandlerIsQuiet ==
    ASSUME IInv, NEW r \in Requests, NEW h \in Handlers,
           req' = [req EXCEPT ![r] = h],
           HandlerInv(h),
           lock' = IF h.at \in Locked THEN r ELSE IF lock = r THEN None ELSE lock,
           lock \in {r, None} \/ h.at \notin Locked,
           UNCHANGED <<answers, index, crashes>>,
           tree' \in [Versions -> Trees \cup {None}],
           sha' \in [Versions -> Trees \cup {None}],
           SiteOK'
    PROVE  IInv'
  <1>1. UNCHANGED <<saved, index, crashes>>
    BY DEF answers
  <1>2. told' \subseteq listed
    BY DEF answers, IInv, RequestInv, ToldIsListed
  <1> QED
    BY <1>1, <1>2, HandlerAnswers

(* The record of a handler that returned. *)
LEMMA AnswerFits ==
    ASSUME NEW a \in Answers \ {"none"}
    PROVE  /\ Answered(a) \in Handlers
           /\ Answered(a).at = "done"
           /\ HandlerInv(Answered(a))
  BY DEF Answered, New, Handlers, Points, Answers, HandlerInv, Fits

(* An early return. *)
LEMMA HandlerFails ==
    ASSUME IInv, NEW r \in Requests, req[r].at \in Locked \/ lock = None,
           Answer(r, "failed"),
           UNCHANGED <<answers, index, crashes>>,
           tree' \in [Versions -> Trees \cup {None}],
           sha' \in [Versions -> Trees \cup {None}],
           SiteOK'
    PROVE  IInv'
  <1> DEFINE h == Answered("failed")
  <1>1. req[r] \in Handlers
    BY DEF IInv, TypeOK, HandlersOK
  <1>2. h \in Handlers /\ h.at = "done" /\ HandlerInv(h)
    BY AnswerFits DEF Answers
  <1>3. lock \in {r, None}
    BY DEF IInv, TypeOK, HandlersOK
  <1>4. "done" \notin Locked
    BY DEF Locked
  <1>5. req' = [req EXCEPT ![r] = h] /\ lock' = None
    BY DEF Answer
  <1>6. lock' = IF h.at \in Locked THEN r ELSE IF lock = r THEN None ELSE lock
    BY <1>2, <1>3, <1>4, <1>5
  <1> HIDE DEF h
  <1> QED
    BY <1>2, <1>3, <1>5, <1>6, HandlerIsQuiet

-----------------------------------------------------------------------------
(* Staged uploads. *)

LEMMA ConflictStep ==
    ASSUME IInv, NEW r \in Requests, NEW t \in Trees, NEW kind \in {"put", "unpublish"},
           Conflict(r, t, kind)
    PROVE  IInv'
  <1> DEFINE h == Answered("conflict")
  <1>2. h \in Handlers /\ h.at = "done" /\ HandlerInv(h)
    BY AnswerFits DEF Answers
  <1>3. lock # r
    BY DEF IInv, TypeOK, HandlersOK, Conflict, Locked
  <1>4. SiteOK'
    BY SiteIsLeft DEF IInv, TypeOK, Conflict
  <1>5. "done" \notin Locked
    BY DEF Locked
  <1>6. req' = [req EXCEPT ![r] = h] /\ UNCHANGED <<staging, lock, answers, index, crashes>>
    BY DEF Conflict
  <1> HIDE DEF h
  <1> QED
    BY <1>2, <1>3, <1>4, <1>5, <1>6, HandlerIsQuiet DEF IInv, TypeOK, FilesOK, staging

(* A staged upload: tree and digest of the version are replaced under the product lock. *)
LEMMA PutStep ==
    ASSUME IInv, NEW r \in Requests, Put(r)
    PROVE  IInv'
  <1> USE DEF IInv, TypeOK
  <1>r. req[r] \in Handlers /\ HandlerInv(req[r]) /\ (req[r].at \in Locked <=> lock = r)
    BY DEF HandlersOK, RequestInv
  <1>s. SiteOK'
    BY SiteIsLeft DEF Put, BeginPut, Extract, ExtractFails, Record, RecordFails
  <1>1. ASSUME NEW t \in Trees, BeginPut(r, t)
        PROVE  IInv'
    <2> DEFINE h == [Kind("put", t) EXCEPT !.at = "extract"]
    <2>1. h \in Handlers /\ h.at = "extract" /\ HandlerInv(h)
      BY TreesAssumption DEF Kind, New, Handlers, Points, Answers, HandlerInv, Fits
    <2>2. req' = [req EXCEPT ![r] = h] /\ lock = None /\ lock' = r
      BY <1>1 DEF BeginPut
    <2>3. tree' \in [Versions -> Trees \cup {None}]
      BY <1>1 DEF BeginPut, FilesOK
    <2>4. UNCHANGED <<sha, answers, index, crashes>>
      BY <1>1 DEF BeginPut
    <2>5. "extract" \in Locked
      BY DEF Locked
    <2> HIDE DEF h
    <2> QED
      BY <1>s, <2>1, <2>2, <2>3, <2>4, <2>5, HandlerIsQuiet DEF FilesOK
  <1>2. CASE Extract(r)
    <2> DEFINE h == [req[r] EXCEPT !.at = "record"]
    <2>1. h \in Handlers /\ h.at = "record" /\ HandlerInv(h)
      BY <1>r, <1>2 DEF Extract, Handlers, Points, HandlerInv, Fits
    <2>2. req' = [req EXCEPT ![r] = h] /\ lock = r /\ lock' = r
      BY <1>r, <1>2 DEF Extract, Reached, Locked
    <2>3. tree' \in [Versions -> Trees \cup {None}]
      BY <1>r, <1>2 DEF Extract, FilesOK, HandlerInv, Fits
    <2>4. UNCHANGED <<sha, answers, index, crashes>>
      BY <1>2 DEF Extract
    <2>5. "record" \in Locked
      BY DEF Locked
    <2> HIDE DEF h
    <2> QED
      BY <1>s, <2>1, <2>2, <2>3, <2>4, <2>5, HandlerIsQuiet DEF FilesOK
  <1>3. CASE ExtractFails(r)
    BY <1>s, <1>3, HandlerFails DEF ExtractFails, FilesOK, staging, Locked
  <1>4. CASE Record(r)
    <2> DEFINE h == Answered("ok")
    <2>1. h \in Handlers /\ h.at = "done" /\ HandlerInv(h)
      BY AnswerFits DEF Answers
    <2>2. req' = [req EXCEPT ![r] = h] /\ lock = r /\ lock' = None
      BY <1>r, <1>4 DEF Record, Answer, Locked
    <2>3. sha' \in [Versions -> Trees \cup {None}]
      BY <1>r, <1>4 DEF Record, FilesOK, HandlerInv, Fits
    <2>4. UNCHANGED <<tree, answers, index, crashes>>
      BY <1>4 DEF Record
    <2>5. "done" \notin Locked
      BY DEF Locked
    <2> HIDE DEF h
    <2> QED
      BY <1>s, <2>1, <2>2, <2>3, <2>4, <2>5, HandlerIsQuiet DEF FilesOK
  <1>5. CASE RecordFails(r)
    BY <1>s, <1>5, HandlerFails DEF RecordFails, FilesOK, Locked
  <1> QED
    BY <1>1, <1>2, <1>3, <1>4, <1>5 DEF Put

-----------------------------------------------------------------------------
(* Publishing. *)

(* Up to the plan nothing but the handler, the lock and what was told changes. *)
LEMMA PublishPrepares ==
    ASSUME IInv, NEW r \in Requests,
           \/ \E t \in Trees : MatchStaged(r, t)
           \/ Replay(r) \/ LockAndLoad(r) \/ Plan(r) \/ PlanFails(r) \/ ConfirmFails(r)
    PROVE  IInv'
  <1> USE DEF IInv, TypeOK
  <1>r. req[r] \in Handlers /\ HandlerInv(req[r]) /\ (req[r].at \in Locked <=> lock = r)
    BY DEF HandlersOK, RequestInv
  <1>s. SiteOK'
    BY SiteIsLeft, SiteIsTriggered
       DEF MatchStaged, Replay, LockAndLoad, Plan, PlanFails, ConfirmFails
  <1>f. /\ tree' \in [Versions -> Trees \cup {None}]
        /\ sha' \in [Versions -> Trees \cup {None}]
        /\ UNCHANGED <<saved, index, crashes>>
    BY DEF FilesOK, staging, answers, MatchStaged, Replay, LockAndLoad, Plan, PlanFails, ConfirmFails
  <1>a. (\E t \in Trees : MatchStaged(r, t)) \/ LockAndLoad(r) \/ Plan(r)
            => UNCHANGED answers
    BY DEF MatchStaged, LockAndLoad, Plan
  <1>l. {"new", "matched", "missed", "done"} \cap Locked = {} /\ {"loaded", "planned"} \subseteq Locked
    BY DEF Locked
  <1>1. ASSUME NEW t \in Trees, MatchStaged(r, t)
        PROVE  IInv'
    <2> DEFINE k == Kind("publish", t)
               h == IF sha[Version[t]] = t THEN [k EXCEPT !.at = "matched"]
                    ELSE Answered("failed")
    <2>1. k \in Handlers
      BY TreesAssumption DEF Kind, New, Handlers, Points, Answers
    <2>2. h \in Handlers /\ h.at \in {"matched", "done"} /\ HandlerInv(h)
      <3>1. CASE sha[Version[t]] = t
        BY <3>1, TreesAssumption DEF Kind, New, Handlers, Points, Answers, HandlerInv, Fits
      <3>2. CASE sha[Version[t]] # t
        <4>1. h = Answered("failed")
          BY <3>2
        <4> HIDE DEF h, k
        <4> QED
          BY <4>1, AnswerFits DEF Answers
      <3> QED
        BY <3>1, <3>2
    <2>3. req' = [req EXCEPT ![r] = h] /\ lock # r /\ lock' = lock
      BY <1>r, <1>l, <1>1 DEF MatchStaged
    <2> HIDE DEF h
    <2> QED
      BY <1>s, <1>f, <1>a, <1>l, <2>2, <2>3, <1>1, HandlerIsQuiet
  <1>2. CASE Replay(r)
    <2>1. req[r].tree \in Trees /\ req[r].kind = "publish" /\ req[r].answer = "none"
      BY <1>r, <1>2 DEF Replay, HandlerInv, Fits, Handlers
    <2>2. CASE saved[req[r].tree] # None
      <3> DEFINE h == Answered("replayed")
      <3>1. saved[req[r].tree] \in listed \cup removed
        BY <2>1, <2>2 DEF RequestInv
      <3>2. h \in Handlers /\ h.at = "done" /\ HandlerInv(h)
        BY AnswerFits DEF Answers
      <3>3. req' = [req EXCEPT ![r] = h] /\ lock # r /\ lock' = lock
        BY <1>r, <1>l, <1>2, <2>2 DEF Replay
      <3>4. told' \subseteq listed
        BY <1>2, <2>2, <3>1 DEF Replay, RequestInv, ToldIsListed
      <3> HIDE DEF h
      <3> QED
        BY <1>s, <1>f, <1>l, <3>2, <3>3, <3>4, HandlerAnswers
    <2>3. CASE saved[req[r].tree] = None
      <3> DEFINE h == [req[r] EXCEPT !.at = "missed"]
      <3>1. h \in Handlers /\ h.at = "missed" /\ HandlerInv(h)
        BY <1>r, <1>2, <2>1 DEF Replay, Handlers, Points, HandlerInv, Fits
      <3>2. req' = [req EXCEPT ![r] = h] /\ lock # r /\ lock' = lock /\ UNCHANGED answers
        BY <1>r, <1>l, <1>2, <2>3 DEF Replay, Reached, answers
      <3> HIDE DEF h
      <3> QED
        BY <1>s, <1>f, <1>l, <3>1, <3>2, HandlerIsQuiet
    <2> QED
      BY <2>2, <2>3
  <1>3. CASE LockAndLoad(r)
    <2>1. lock # r
      BY <1>r, <1>l, <1>3 DEF LockAndLoad
    <2>2. CASE lock # None
      <3> DEFINE h == Answered("conflict")
      <3>1. h \in Handlers /\ h.at = "done" /\ HandlerInv(h)
        BY AnswerFits DEF Answers
      <3>2. req' = [req EXCEPT ![r] = h] /\ lock' = lock
        BY <1>3, <2>2 DEF LockAndLoad
      <3> HIDE DEF h
      <3> QED
        BY <1>s, <1>f, <1>a, <1>l, <2>1, <3>1, <3>2, <1>3, HandlerIsQuiet
    <2>3. CASE lock = None /\ tree[req[r].version] = None
      BY <1>s, <1>f, <1>3, <2>3, HandlerFails DEF LockAndLoad, answers
    <2>4. CASE lock = None /\ tree[req[r].version] # None
      <3> DEFINE h == [req[r] EXCEPT !.at = "loaded", !.staged = tree[req[r].version]]
      <3>1. req[r].version \in Versions /\ tree[req[r].version] \in Trees
        BY <1>r, <1>3, <2>4 DEF LockAndLoad, HandlerInv, Fits, FilesOK
      <3>2. h \in Handlers /\ h.at = "loaded" /\ HandlerInv(h)
        BY <1>r, <1>3, <3>1 DEF LockAndLoad, Handlers, Points, HandlerInv, Fits
      <3>3. req' = [req EXCEPT ![r] = h] /\ lock' = r
        BY <1>3, <2>4 DEF LockAndLoad
      <3> HIDE DEF h
      <3> QED
        BY <1>s, <1>f, <1>a, <1>l, <2>4, <3>2, <3>3, <1>3, HandlerIsQuiet
    <2> QED
      BY <2>2, <2>3, <2>4
  <1>4. CASE Plan(r)
    <2> DEFINE h == [req[r] EXCEPT !.at = "planned", !.plan = listed]
    <2>1. h \in Handlers /\ h.at = "planned" /\ HandlerInv(h)
      BY <1>r, <1>4 DEF Plan, FilesOK, Handlers, Points, HandlerInv, Fits
    <2>2. req' = [req EXCEPT ![r] = h] /\ lock = r /\ lock' = lock
      BY <1>r, <1>l, <1>4 DEF Plan
    <2> HIDE DEF h
    <2> QED
      BY <1>s, <1>f, <1>a, <1>l, <2>1, <2>2, <1>4, HandlerIsQuiet
  <1>5. CASE PlanFails(r) \/ ConfirmFails(r)
    BY <1>s, <1>f, <1>5, HandlerFails DEF PlanFails, ConfirmFails, Locked
  <1> QED
    BY <1>1, <1>2, <1>3, <1>4, <1>5

(* The pointer, which the holder of the lock writes over the index it read. *)
LEMMA PublishCommits ==
    ASSUME IInv, NEW r \in Requests, Commit(r) \/ CommitFails(r)
    PROVE  IInv'
  <1> USE DEF IInv, TypeOK
  <1>r. req[r] \in Handlers /\ HandlerInv(req[r]) /\ lock = r
    BY DEF HandlersOK, RequestInv, Commit, CommitFails, Locked
  <1>1. /\ req[r].plan = listed /\ req[r].staged \in Trees
        /\ req[r].kind = "publish" /\ req[r].answer = "none"
    BY <1>r DEF HandlerInv, Fits, Handlers, Commit, CommitFails
  <1>2. listed' = listed \cup {req[r].staged} /\ removed' = removed \ {req[r].staged}
    BY <1>1 DEF Commit, CommitFails, Listing
  <1>3. Known \subseteq Known' /\ req[r].staged \in listed'
    BY <1>2 DEF Known
  <1>4. SiteOK'
    BY SiteIsLeft DEF Commit, CommitFails
  <1>5. FilesOK'
    BY <1>1, <1>2 DEF FilesOK, Commit, CommitFails, staging, answers
  <1>6. \A t \in Trees : saved'[t] # None => saved'[t] \in Known'
    BY <1>3 DEF Commit, CommitFails, RequestInv, Known, answers
  <1>7. HandlersOK' /\ \A q \in Requests : HandlerInv(req[q])'
    <2>1. CASE Commit(r)
      <3>h. PICK h : h = [req[r] EXCEPT !.at = "listed"]
        OBVIOUS
      <3>1. /\ h \in Handlers /\ h.at = "listed" /\ h.staged = req[r].staged
            /\ Fits(h)
        BY <1>r, <1>1, <2>1, <3>h DEF Handlers, Points, HandlerInv, Fits, Commit
      <3>2. HandlerInv(h)'
        BY <1>3, <3>1 DEF HandlerInv, Fits
      <3>3. req' = [req EXCEPT ![r] = h] /\ lock' = r
        BY <1>r, <2>1, <3>h DEF Commit, Reached
      <3>4. "listed" \in Locked
        BY DEF Locked
      <3> QED
        BY <1>r, <1>3, <3>1, <3>2, <3>3, <3>4, HandlerMoves
    <2>2. CASE CommitFails(r)
      <3>h. PICK h : h = Answered("failed")
        OBVIOUS
      <3>1. h \in Handlers /\ h.at = "done" /\ HandlerInv(h)'
        BY <1>r, <3>h DEF Answered, New, Handlers, Points, Answers, HandlerInv, Fits
      <3>2. req' = [req EXCEPT ![r] = h] /\ lock' = None
        BY <2>2, <3>h DEF CommitFails, Answer
      <3>3. "done" \notin Locked
        BY DEF Locked
      <3> QED
        BY <1>r, <1>3, <3>1, <3>2, <3>3, HandlerMoves
    <2> QED
      BY <2>1, <2>2
  <1> QED
    BY <1>2, <1>4, <1>5, <1>6, <1>7
       DEF RequestInv, Known, ToldIsListed, Commit, CommitFails, answers

(* The answer of a publish is remembered and sent; the release was listed before. *)
LEMMA PublishConcludes ==
    ASSUME IInv, NEW r \in Requests, Remember(r) \/ AnswerPublish(r)
    PROVE  IInv'
  <1> USE DEF IInv, TypeOK
  <1>r. req[r] \in Handlers /\ HandlerInv(req[r]) /\ lock = r
    BY DEF HandlersOK, RequestInv, Remember, AnswerPublish, Locked
  <1>1. /\ req[r].staged \in Trees /\ req[r].staged \in listed /\ req[r].tree \in Trees
        /\ req[r].kind = "publish" /\ req[r].answer = "none"
    BY <1>r DEF HandlerInv, Fits, Handlers, Remember, AnswerPublish
  <1>2. SiteOK'
    BY SiteIsLeft, SiteIsTriggered DEF Remember, AnswerPublish
  <1>3. CASE Remember(r)
    <2>h. PICK h : h = [req[r] EXCEPT !.at = "remembered"]
      OBVIOUS
    <2>1. /\ h \in Handlers /\ h.at = "remembered" /\ h.staged = req[r].staged
          /\ Fits(h)
      BY <1>r, <1>1, <1>3, <2>h DEF Handlers, Points, HandlerInv, Fits, Remember
    <2>2. UNCHANGED <<listed, removed, diverged, stale, told, crashes, tree, sha, lock>>
      BY <1>3 DEF Remember, index, staging
    <2>3. HandlerInv(h)'
      BY <1>1, <2>1, <2>2 DEF HandlerInv, Fits
    <2>4. req' = [req EXCEPT ![r] = h]
      BY <1>3, <2>h DEF Remember, Reached
    <2>5. "remembered" \in Locked
      BY DEF Locked
    <2>6. HandlersOK' /\ \A q \in Requests : HandlerInv(req[q])'
      BY <1>r, <2>1, <2>2, <2>3, <2>4, <2>5, HandlerMoves DEF Known
    <2>7. saved' \in [Trees -> Trees \cup {None}]
      BY <1>1, <1>3 DEF Remember, FilesOK
    <2>8. \A t \in Trees : saved'[t] # None => saved'[t] \in Known
      BY <1>1, <1>3 DEF Remember, FilesOK, RequestInv, Known
    <2> QED
      BY <1>2, <2>2, <2>6, <2>7, <2>8 DEF FilesOK, RequestInv, Known, ToldIsListed
  <1>4. CASE AnswerPublish(r)
    <2> DEFINE h == Answered("ok")
    <2>1. h \in Handlers /\ h.at = "done" /\ HandlerInv(h)
      BY AnswerFits DEF Answers
    <2>2. req' = [req EXCEPT ![r] = h] /\ lock' = None
      BY <1>4 DEF AnswerPublish, Answer
    <2>3. "done" \notin Locked
      BY DEF Locked
    <2>4. UNCHANGED <<saved, index, crashes, tree, sha>> /\ told' \subseteq listed
      BY <1>1, <1>4 DEF AnswerPublish, staging, RequestInv, ToldIsListed
    <2> HIDE DEF h
    <2> QED
      BY <1>r, <1>2, <2>1, <2>2, <2>3, <2>4, HandlerAnswers DEF FilesOK
  <1> QED
    BY <1>3, <1>4

-----------------------------------------------------------------------------
(* Unpublishing. *)

LEMMA UnpublishStep ==
    ASSUME IInv, NEW r \in Requests, Unpublish(r)
    PROVE  IInv'
  <1> USE DEF IInv, TypeOK
  <1>r. req[r] \in Handlers /\ HandlerInv(req[r]) /\ (req[r].at \in Locked <=> lock = r)
    BY DEF HandlersOK, RequestInv
  <1>s. SiteOK'
    BY SiteIsLeft, SiteIsTriggered
       DEF Unpublish, BeginUnpublish, Remove, RemoveFails, AnswerUnpublish
  <1>l. {"remove", "removed"} \subseteq Locked /\ "done" \notin Locked
    BY DEF Locked
  <1>1. ASSUME NEW t \in Trees, BeginUnpublish(r, t)
        PROVE  IInv'
    <2> DEFINE h == [Kind("unpublish", t) EXCEPT !.at = "remove", !.plan = listed]
    <2>1. h \in Handlers /\ h.at = "remove" /\ HandlerInv(h)
      BY TreesAssumption DEF FilesOK, Kind, New, Handlers, Points, Answers, HandlerInv, Fits
    <2>2. req' = [req EXCEPT ![r] = h] /\ lock = None /\ lock' = r
      BY <1>1 DEF BeginUnpublish
    <2>3. UNCHANGED <<answers, index, crashes, tree, sha>>
      BY <1>1 DEF BeginUnpublish, staging
    <2> HIDE DEF h
    <2> QED
      BY <1>s, <1>l, <2>1, <2>2, <2>3, HandlerIsQuiet DEF FilesOK
  <1>2. CASE Remove(r)
    <2>h. PICK h : h = [req[r] EXCEPT !.at = "removed"]
      OBVIOUS
    <2>1. /\ h \in Handlers /\ h.at = "removed" /\ h.kind = "unpublish"
          /\ Fits(h) /\ req[r].plan = listed
      BY <1>r, <1>2, <2>h DEF Remove, Handlers, Points, HandlerInv, Fits
    <2>2. /\ listed' = Kept(r) /\ Kept(r) \subseteq listed
          /\ removed' = removed \cup (listed \ Kept(r))
      BY <1>2, <2>1 DEF Remove, Kept
    <2>3. Known \subseteq Known'
      BY <2>2 DEF Known
    <2>4. HandlerInv(h)'
      BY <2>1 DEF HandlerInv, Fits
    <2>5. req' = [req EXCEPT ![r] = h] /\ lock = r /\ lock' = r
      BY <1>r, <1>l, <1>2, <2>h DEF Remove, Reached
    <2>6. FilesOK'
      BY <1>2, <2>2 DEF FilesOK, Remove, staging
    <2>7. HandlersOK' /\ \A q \in Requests : HandlerInv(req[q])'
      BY <1>l, <2>1, <2>3, <2>4, <2>5, HandlerMoves
    <2>8. \A t \in Trees : saved'[t] # None => saved'[t] \in Known'
      BY <1>2, <2>3 DEF Remove, RequestInv, Known
    <2> QED
      BY <1>2, <1>s, <2>1, <2>2, <2>6, <2>7, <2>8 DEF RequestInv, Known, ToldIsListed, Remove
  <1>3. CASE RemoveFails(r)
    BY <1>s, <1>l, <1>3, HandlerFails DEF RemoveFails, FilesOK, staging
  <1>4. CASE AnswerUnpublish(r)
    <2> DEFINE h == Answered("ok")
    <2>1. h \in Handlers /\ h.at = "done" /\ HandlerInv(h)
      BY AnswerFits DEF Answers
    <2>2. req' = [req EXCEPT ![r] = h] /\ lock = r /\ lock' = None
      BY <1>r, <1>l, <1>4 DEF AnswerUnpublish, Answer
    <2>3. UNCHANGED <<answers, index, crashes, tree, sha>>
      BY <1>4 DEF AnswerUnpublish, staging
    <2> HIDE DEF h
    <2> QED
      BY <1>s, <1>l, <2>1, <2>2, <2>3, HandlerIsQuiet DEF FilesOK
  <1> QED
    BY <1>1, <1>2, <1>3, <1>4 DEF Unpublish

-----------------------------------------------------------------------------
(* Rebuilds, crashes and the theorems. *)

LEMMA RebuildStep ==
    ASSUME IInv, NEW w \in Workers, Rebuild(w)
    PROVE  IInv'
  <1>1. SiteOK'
    BY SiteIsRebuilt DEF IInv, TypeOK, FilesOK
  <1>2. UNCHANGED <<tree, sha, lock, answers, index, req, crashes>>
    BY DEF Rebuild, BeginRebuild, EndRebuild, Panic, Restart, staging
  <1> QED
    BY <1>1, <1>2
       DEF IInv, TypeOK, FilesOK, HandlersOK, RequestInv, HandlerInv, Fits, ToldIsListed,
           answers, index

(* A death of the agent forgets handlers and triggers; files, answers and indexes stay. *)
LEMMA CrashStep ==
    ASSUME IInv, Crash
    PROVE  IInv'
  <1> USE DEF IInv, TypeOK
  <1>1. SiteOK'
    <2>1. pending' \in BOOLEAN /\ running' \in BOOLEAN /\ behind' \in BOOLEAN
      BY Zenon DEF Crash
    <2> QED
      BY <2>1 DEF Crash, SiteOK
  <1>2. UNCHANGED <<saved, told, listed, diverged, stale, removed>> /\ crashes' \in Nat
    BY DEF Crash, index, answers, FilesOK
  <1>3. /\ tree' \in [Versions -> Trees \cup {None}]
        /\ sha' \in [Versions -> Trees \cup {None}]
    <2>1. lock # None => req[lock].tree \in Trees \cup {None}
      BY DEF HandlersOK, Handlers
    <2>2. CASE tree' = tree
      BY <2>2 DEF Crash, FilesOK
    <2>3. CASE tree' # tree
      BY <2>1, <2>3 DEF Crash, FilesOK, Installing
    <2>4. sha' \in [Versions -> Trees \cup {None}]
      BY DEF Crash, FilesOK
    <2> QED
      BY <2>2, <2>3, <2>4 DEF Crash, FilesOK
  <1>4. ASSUME NEW r \in Requests
        PROVE  /\ req'[r] \in Handlers /\ HandlerInv(req[r])'
               /\ req'[r].at \in {"new", "done"}
    <2>1. req[r] \in Handlers /\ HandlerInv(req[r])
      BY DEF HandlersOK, RequestInv
    <2>2. CASE req[r].at \in {"new", "done"}
      BY <1>2, <2>1, <2>2 DEF Crash, HandlerInv, Fits
    <2>3. CASE req[r].at \notin {"new", "done"}
      <3>h. PICK h : h = Answered("lost")
        OBVIOUS
      <3>1. req'[r] = h
        BY <2>3, <3>h DEF Crash
      <3>2. h \in Handlers /\ h.at = "done" /\ HandlerInv(h)'
        BY <2>1, <3>h DEF Answered, New, Handlers, Points, Answers, HandlerInv, Fits
      <3> QED
        BY <3>1, <3>2 DEF HandlerInv, Fits
    <2> QED
      BY <2>2, <2>3
  <1>5. HandlersOK'
    BY <1>4, TreesAssumption DEF Crash, HandlersOK, Locked
  <1> QED
    BY <1>1, <1>2, <1>3, <1>4, <1>5 DEF FilesOK, RequestInv, ToldIsListed

(* The initial states satisfy the invariant. *)
LEMMA Initially == Init => IInv
  <1> SUFFICES ASSUME Init PROVE IInv
    OBVIOUS
  <1>1. FilesOK
    BY DEF Init, FilesOK
  <1>2. New \in Handlers /\ HandlerInv(New)
    BY DEF New, Handlers, Points, Answers, HandlerInv, Fits
  <1>3. HandlersOK
    BY <1>2, TreesAssumption DEF Init, HandlersOK, New, Locked
  <1>4. SiteOK
    <2>1. pending \in BOOLEAN /\ running \in BOOLEAN /\ behind \in BOOLEAN
      BY Zenon DEF Init
    <2> QED
      BY <2>1 DEF Init, SiteOK
  <1>5. RequestInv
    BY <1>2 DEF Init, RequestInv, ToldIsListed
  <1> QED
    BY <1>1, <1>3, <1>4, <1>5 DEF IInv, TypeOK

(* A stuttering step preserves the invariant. *)
LEMMA Stutters ==
    ASSUME IInv, UNCHANGED vars
    PROVE  IInv'
  BY DEF vars, IInv, TypeOK, FilesOK, HandlersOK, SiteOK, RequestInv, HandlerInv, Fits,
         ToldIsListed

(* Every step preserves the invariant, by the lemma of its action. *)
LEMMA Inductive == IInv /\ [Next]_vars => IInv'
  <1> SUFFICES ASSUME IInv, [Next]_vars PROVE IInv'
    OBVIOUS
  <1>1. ASSUME NEW r \in Requests, NEW t \in Trees, NEW kind \in {"put", "unpublish"},
               Conflict(r, t, kind)
        PROVE  IInv'
    BY <1>1, ConflictStep
  <1>2. ASSUME NEW r \in Requests, Put(r)
        PROVE  IInv'
    BY <1>2, PutStep
  <1>3. ASSUME NEW r \in Requests, Publish(r)
        PROVE  IInv'
    BY <1>3, PublishPrepares, PublishCommits, PublishConcludes DEF Publish
  <1>4. ASSUME NEW r \in Requests, Unpublish(r)
        PROVE  IInv'
    BY <1>4, UnpublishStep
  <1>5. ASSUME NEW w \in Workers, Rebuild(w)
        PROVE  IInv'
    BY <1>5, RebuildStep
  <1>6. CASE Crash
    BY <1>6, CrashStep
  <1>7. CASE UNCHANGED vars
    BY <1>7, Stutters
  <1> QED
    BY <1>1, <1>2, <1>3, <1>4, <1>5, <1>6, <1>7 DEF Next

(* Every variable keeps its type, and whatever handler returns early, fails or
   dies: the product lock is held exactly between TryLock and return. *)
THEOREM TypeCorrect == Spec => []TypeOK
  <1>1. IInv => TypeOK
    BY DEF IInv
  <1> QED
    BY <1>1, Initially, Inductive, PTL DEF Spec

(* A release whose publish was answered ok, or whose answer was replayed, stays
   listed until an unpublish names its version, for any requests at once. *)
THEOREM ToldStaysListed == Spec => []ToldIsListed
  <1>1. IInv => ToldIsListed
    BY DEF IInv, RequestInv
  <1> QED
    BY <1>1, Initially, Inductive, PTL DEF Spec

-----------------------------------------------------------------------------
(* What the site shows.  One goroutine at most looks after the requests, and  *)
(* while nobody waits for a rebuild, what the one under way has read, or else *)
(* what the site shows, is what callers were told.                            *)

Busy(w) == worker[w] \in {"loop", "rebuild"}

Idle == \A w \in Workers : worker[w] # "rebuild"

OneIsBusy ==
    /\ \A w \in Workers : Busy(w) => running
    /\ \A v, w \in Workers : Busy(v) /\ Busy(w) => v = w

SiteInv ==
    /\ OneIsBusy
    /\ ~pending /\ ~Idle /\ snap # None => Shows(snap)
    /\ ~pending /\ Idle /\ ~behind => Shows(site)

(* Asking for a rebuild starts no second goroutine. *)
LEMMA WakesOne ==
    ASSUME OneIsBusy, worker \in [Workers -> {"off", "loop", "rebuild", "restart"}],
           NEW work \in [Workers -> {"off", "loop", "rebuild", "restart"}],
           \A w \in Workers : work[w] \in {worker[w], "off"},
           Wake(work)
    PROVE  OneIsBusy' /\ pending'
  <1>1. pending' /\ running'
    BY DEF Wake
  <1>2. CASE running
    BY <1>1, <1>2 DEF Wake, OneIsBusy, Busy
  <1>3. CASE ~running
    <2> DEFINE x == CHOOSE w \in Workers : work[w] = "off"
    <2>1. worker' = [work EXCEPT ![x] = "loop"]
      BY <1>3 DEF Wake
    <2>2. \A w \in Workers : work[w] \notin {"loop", "rebuild"}
      BY <1>3 DEF OneIsBusy, Busy
    <2> HIDE DEF x
    <2>3. \A w \in Workers : Busy(w)' => w = x
      BY <2>1, <2>2 DEF Busy
    <2> QED
      BY <1>1, <2>3 DEF OneIsBusy
  <1> QED
    BY <1>2, <1>3

(* A trigger: whatever changed, a rebuild is to come. *)
LEMMA TriggerShows ==
    ASSUME IInv, SiteInv, TriggerSiteRebuild
    PROVE  SiteInv'
  <1>1. worker \in [Workers -> {"off", "loop", "rebuild", "restart"}]
    BY DEF IInv, TypeOK, SiteOK
  <1>2. OneIsBusy' /\ pending'
    BY <1>1, WakesOne DEF TriggerSiteRebuild, SiteInv
  <1> QED
    BY <1>2 DEF SiteInv

(* A step that asks for no rebuild tells nobody anything, and what it takes off
   the index is in the hands of an unpublish that has not answered. *)
LEMMA QuietShows ==
    ASSUME SiteInv, UNCHANGED <<trigger, rebuilt>>, told' \subseteq told,
           \/ /\ listed \subseteq listed'
              /\ \A q \in Requests : req[q].at = "removed" => req'[q].at = "removed"
           \/ \E q \in Requests : req'[q].at = "removed"
    PROVE  SiteInv'
  <1>1. Shows(snap) => Shows(snap)'
    BY DEF Shows, rebuilt
  <1>2. Shows(site) => Shows(site)'
    BY DEF Shows, rebuilt
  <1> QED
    BY <1>1, <1>2 DEF SiteInv, OneIsBusy, Busy, Idle, Shows, trigger, rebuilt

(* Handlers. *)
LEMMA HandlerShows ==
    ASSUME IInv, SiteInv, NEW r \in Requests,
           \/ \E t \in Trees, kind \in {"put", "unpublish"} : Conflict(r, t, kind)
           \/ Put(r) \/ Publish(r) \/ Unpublish(r)
    PROVE  SiteInv'
  <1>t. req \in [Requests -> Handlers]
    BY DEF IInv, TypeOK, HandlersOK
  <1>1. CASE TriggerSiteRebuild
    BY <1>1, TriggerShows
  <1>2. CASE Remove(r)
    <2>1. req'[r].at = "removed"
      BY <1>t, <1>2 DEF Remove, Reached, Handlers
    <2>2. told' \subseteq told /\ UNCHANGED <<trigger, rebuilt>>
      BY <1>2 DEF Remove
    <2> QED
      BY <2>1, <2>2, QuietShows
  <1>3. CASE ~TriggerSiteRebuild /\ ~Remove(r)
    <2>1. UNCHANGED <<trigger, rebuilt>> /\ told' = told
      BY <1>3 DEF Conflict, Put, BeginPut, Extract, ExtractFails, Record, RecordFails,
                  Publish, MatchStaged, Replay, LockAndLoad, Plan, PlanFails, Commit,
                  CommitFails, Remember, ConfirmFails, AnswerPublish, Unpublish,
                  BeginUnpublish, RemoveFails, AnswerUnpublish, answers
    <2>2. req[r].at # "removed"
      BY <1>3 DEF Conflict, Put, BeginPut, Extract, ExtractFails, Record, RecordFails,
                  Publish, MatchStaged, Replay, LockAndLoad, Plan, PlanFails, Commit,
                  CommitFails, Remember, ConfirmFails, AnswerPublish, Unpublish,
                  BeginUnpublish, RemoveFails, AnswerUnpublish
    <2>3. listed \subseteq listed'
      <3>1. CASE Commit(r) \/ CommitFails(r)
        <4>1. req[r].plan = listed
          BY <3>1 DEF Commit, CommitFails, IInv, RequestInv, HandlerInv
        <4> QED
          BY <3>1, <4>1 DEF Commit, CommitFails, Listing
      <3>2. CASE ~Commit(r) /\ ~CommitFails(r)
        BY <1>3, <3>2
           DEF Conflict, Put, BeginPut, Extract, ExtractFails, Record, RecordFails,
               Publish, MatchStaged, Replay, LockAndLoad, Plan, PlanFails, Remember,
               ConfirmFails, AnswerPublish, Unpublish, BeginUnpublish, RemoveFails,
               AnswerUnpublish, index
      <3> QED
        BY <3>1, <3>2
    <2>4. \A q \in Requests \ {r} : req'[q] = req[q]
      BY <1>t, <1>3
         DEF Conflict, Put, BeginPut, Extract, ExtractFails, Record, RecordFails,
             Publish, MatchStaged, Replay, LockAndLoad, Plan, PlanFails, Commit,
             CommitFails, Remember, ConfirmFails, AnswerPublish, Unpublish,
             BeginUnpublish, RemoveFails, AnswerUnpublish, Reached, Answer
    <2> QED
      BY <2>1, <2>2, <2>3, <2>4, QuietShows
  <1> QED
    BY <1>1, <1>2, <1>3

(* A rebuild reads what is listed, so what callers were told, unless documents
   are stale, and is the only one to deploy. *)
LEMMA RebuildShows ==
    ASSUME IInv, SiteInv, NEW w \in Workers, Rebuild(w)
    PROVE  SiteInv'
  <1>t. worker \in [Workers -> {"off", "loop", "rebuild", "restart"}]
    BY DEF IInv, TypeOK, SiteOK
  <1>u. UNCHANGED <<told, listed, req>>
    BY DEF Rebuild, BeginRebuild, EndRebuild, Panic, Restart, answers, index
  <1>v. \A S : Shows(S) => (told' \subseteq S /\ (S \subseteq listed' \/ \E r \in Requests : req'[r].at = "removed"))
    BY <1>u DEF Shows
  <1>1. CASE BeginRebuild(w)
    <2>1. OneIsBusy'
      BY <1>t, <1>1 DEF BeginRebuild, SiteInv, OneIsBusy, Busy
    <2>2. CASE pending
      <3>1. snap' = listed \/ snap' = None
        BY <1>1, <2>2 DEF BeginRebuild
      <3>2. snap' # None => Shows(snap)'
        BY <1>u, <3>1 DEF Shows, IInv, RequestInv, ToldIsListed
      <3>3. ~Idle'
        BY <1>t, <1>1, <2>2 DEF BeginRebuild, Idle
      <3> QED
        BY <2>1, <3>2, <3>3 DEF SiteInv
    <2>3. CASE ~pending
      <3>1. Idle /\ Idle'
        BY <1>t, <1>1, <2>3 DEF BeginRebuild, SiteInv, OneIsBusy, Busy, Idle
      <3>2. ~behind' => Shows(site)
        BY <1>1, <2>3, <3>1 DEF SiteInv, BeginRebuild
      <3>3. ~behind' => Shows(site)'
        BY <1>1, <1>u, <3>2 DEF BeginRebuild, Shows
      <3> QED
        BY <2>1, <3>1, <3>3 DEF SiteInv
    <2> QED
      BY <2>2, <2>3
  <1>2. CASE EndRebuild(w)
    <2>1. OneIsBusy' /\ Idle' /\ ~Idle
      BY <1>t, <1>2 DEF EndRebuild, SiteInv, OneIsBusy, Busy, Idle
    <2>2. ~pending' /\ ~behind' => Shows(snap) /\ site' = snap
      BY <1>2, <2>1 DEF EndRebuild, SiteInv
    <2>3. ~pending' /\ ~behind' => Shows(site)'
      BY <1>u, <2>2 DEF Shows
    <2> QED
      BY <2>1, <2>3 DEF SiteInv
  <1>3. CASE Panic(w)
    <2>1. behind' /\ OneIsBusy' /\ Idle'
      BY <1>t, <1>3 DEF Panic, SiteInv, OneIsBusy, Busy, Idle
    <2> QED
      BY <2>1 DEF SiteInv
  <1>4. CASE Restart(w)
    <2> DEFINE work == [worker EXCEPT ![w] = "off"]
    <2>1. work \in [Workers -> {"off", "loop", "rebuild", "restart"}]
      BY <1>t
    <2>2. \A v \in Workers : work[v] \in {worker[v], "off"}
      BY <1>t
    <2>3. Wake(work)
      BY <1>4 DEF Restart
    <2> HIDE DEF work
    <2>4. OneIsBusy' /\ pending'
      BY <1>t, <2>1, <2>2, <2>3, WakesOne DEF SiteInv
    <2> QED
      BY <2>4 DEF SiteInv
  <1> QED
    BY <1>1, <1>2, <1>3, <1>4 DEF Rebuild

(* Once nobody asks for a rebuild and none is under way, and the last one could
   deploy what the documents list, the site shows what callers were told and
   nothing that is not listed but what an unpublish is about to answer for:
   for any requests, panics and deaths of the agent. *)
THEOREM SiteShowsWhatWasAnswered == Spec => []SiteShowsAnswered
  <1>1. Init => SiteInv
    BY DEF Init, SiteInv, OneIsBusy, Busy, Idle, Shows
  <1>2. IInv /\ SiteInv /\ [Next]_vars => SiteInv'
    <2> SUFFICES ASSUME IInv, SiteInv, [Next]_vars PROVE SiteInv'
      OBVIOUS
    <2>1. ASSUME NEW r \in Requests,
                 \/ \E t \in Trees, kind \in {"put", "unpublish"} : Conflict(r, t, kind)
                 \/ Put(r) \/ Publish(r) \/ Unpublish(r)
          PROVE  SiteInv'
      BY <2>1, HandlerShows
    <2>2. ASSUME NEW w \in Workers, Rebuild(w)
          PROVE  SiteInv'
      BY <2>2, RebuildShows
    <2>3. CASE Crash
      <3>1. OneIsBusy' /\ Idle' /\ behind'
        BY <2>3 DEF Crash, OneIsBusy, Busy, Idle
      <3> QED
        BY <3>1 DEF SiteInv
    <2>4. CASE UNCHANGED vars
      BY <2>4 DEF vars, SiteInv, OneIsBusy, Busy, Idle, Shows
    <2> QED
      BY <2>1, <2>2, <2>3, <2>4 DEF Next
  <1>3. SiteInv => SiteShowsAnswered
    BY DEF SiteInv, SiteShowsAnswered, Idle
  <1> QED
    BY <1>1, <1>2, <1>3, Initially, Inductive, PTL DEF Spec
=============================================================================

---------------------------- MODULE InProcessClient ----------------------------
(***************************************************************************)
(* The check of an installed program (internal/inprocess/updater.go, run   *)
(* by internal/updater/check.go): it reads a directory from one of its     *)
(* entry URLs, the index from one of the services listed there, and        *)
(* refuses documents older than the newest it has seen.  Every backend is  *)
(* an entry.  What was learned of sources only orders the attempts, so any *)
(* order is possible.                                                      *)
(***************************************************************************)
EXTENDS ServiceDirectory

VARIABLES
    saved,     \* sequences the engine's state file remembers, 0 when none
    seen,      \* those of the running check
    check,     \* the running check, or None
    answer     \* what the last one told the host, or None

client == <<saved, seen, check, answer>>

NothingSeen == [directory |-> 0, index |-> 0]

ClientInit ==
    /\ saved = NothingSeen /\ seen = NothingSeen
    /\ check = None /\ answer = None

AcceptsSequence(seq, last) == seq >= last

-----------------------------------------------------------------------------
(* exact: the host names the release it wants (FetchExact). *)
CheckForce(exact) ==
    /\ check = None
    /\ seen' = saved
    /\ check' = [step |-> "plan", left |-> Backends, exact |-> exact, keep |-> saved,
                 verdict |-> "error", lost |-> FALSE, stale |-> FALSE,
                 served |-> /\ \E b \in Backends : directory[b] # None
                            /\ \E b \in Backends : index[b] # NoIndex]
    /\ answer' = None
    /\ UNCHANGED <<published, job, jobs, saved>>

(* After the index the fallback document is looked for, with a directory that
   is resolved anew; the engine takes over what was seen by then, and looks
   up an exact release with another directory and index. *)
Leave(c, last) ==
    CASE c.step \in {"plan", "index"} ->
           [c EXCEPT !.step = "fallback", !.left = Backends]
      [] c.step = "fallback" /\ c.exact ->
           [c EXCEPT !.step = "exact plan", !.left = Backends, !.keep = last, !.verdict = "error"]
      [] c.step = "fallback" /\ ~c.exact ->
           [c EXCEPT !.step = "answer", !.keep = last]
      [] OTHER -> [c EXCEPT !.step = "answer"]

(* Mutant: the first source that is refused ends the search. *)
Drop_First(c, u, last) == Leave(c, last)

Drop(c, u, last) == IF c.left = {u} THEN Leave(c, last) ELSE [c EXCEPT !.left = @ \ {u}]

Planning == check # None /\ check.step \in {"plan", "fallback", "exact plan"}
Indexing == check # None /\ check.step \in {"index", "exact index"}

CurrentDirectory(u) == directory[u] # None /\ AcceptsSequence(directory[u].seq, seen.directory)
CurrentIndex(u)     == index[u] # NoIndex /\ AcceptsSequence(index[u].seq, seen.index)

loadDirectory(u) ==
    /\ Planning /\ u \in check.left /\ CurrentDirectory(u)
    /\ seen' = [seen EXCEPT !.directory = directory[u].seq]
    /\ check' = IF check.step = "fallback" THEN Leave(check, seen')
                ELSE [check EXCEPT !.left = directory[u].services, !.stale = TRUE,
                                   !.step = IF @ = "plan" THEN "index" ELSE "exact index"]
    /\ UNCHANGED <<published, job, jobs, saved, answer>>

SkipDirectory(u) ==
    /\ Planning /\ u \in check.left /\ ~CurrentDirectory(u)
    /\ check' = Drop(check, u, seen)
    /\ UNCHANGED <<published, job, jobs, saved, seen, answer>>

(* The first index that is not older and has its release ends the search.  A
   release that was named may not be listed, or not any more. *)
checkIndex(u) ==
    /\ Indexing /\ u \in check.left /\ CurrentIndex(u)
    /\ seen' = [seen EXCEPT !.index = index[u].seq]
    /\ \E v \in {"answered"} \cup (IF check.step = "exact index" THEN {"not listed"} ELSE {}) :
           check' = Leave([check EXCEPT !.verdict = v, !.stale = FALSE], seen')
    /\ UNCHANGED <<published, job, jobs, saved, answer>>

SkipIndex(u) ==
    /\ Indexing /\ u \in check.left /\ ~CurrentIndex(u)
    /\ check' = Drop([check EXCEPT !.stale = @ /\ index[u] # NoIndex], u, seen)
    /\ UNCHANGED <<published, job, jobs, saved, seen, answer>>

(* A directory or an index cannot be fetched, or an index was accepted and
   observed but no mirror of its manifest answers. *)
FetchFails(u) ==
    /\ Planning \/ Indexing
    /\ u \in check.left
    /\ \/ UNCHANGED seen
       \/ /\ Indexing /\ CurrentIndex(u)
          /\ seen' = [seen EXCEPT !.index = index[u].seq]
    /\ check' = Drop([check EXCEPT !.lost = TRUE, !.stale = FALSE], u, seen')
    /\ UNCHANGED <<published, job, jobs, saved, answer>>

(* The host is answered whether or not the state could be saved. *)
emitCheck ==
    /\ check # None /\ check.step = "answer"
    /\ saved' \in {saved, check.keep}
    /\ answer' = [verdict |-> check.verdict, lost |-> check.lost, stale |-> check.stale,
                  served |-> check.served]
    /\ check' = None /\ seen' = NothingSeen
    /\ UNCHANGED <<published, job, jobs>>

EngineDies ==
    /\ check # None
    /\ check' = None /\ seen' = NothingSeen
    /\ UNCHANGED <<published, job, jobs, saved, answer>>

ClientNext ==
    \/ \E exact \in BOOLEAN : CheckForce(exact)
    \/ \E u \in Backends :
           \/ loadDirectory(u) \/ SkipDirectory(u)
           \/ checkIndex(u) \/ SkipIndex(u) \/ FetchFails(u)
    \/ emitCheck \/ EngineDies

CheckInit == DirectoryInit /\ ClientInit

CheckNext ==
    \/ DirectoryNext /\ UNCHANGED client
    \/ ClientNext

CheckSpec == CheckInit /\ [][CheckNext]_<<published, job, jobs, client>>

-----------------------------------------------------------------------------
CheckOK ==
    /\ DirectoryOK
    /\ saved \in [directory : Nat, index : Nat] /\ seen \in [directory : Nat, index : Nat]
    /\ check # None => check.left \subseteq Backends

(* A check that began when a directory and an index were published, and that
   could fetch what it asked for, does not fail: whatever publish was
   interrupted where, on which mirrors, and whatever the client has seen of it,
   some entry and some service are not older (checkIndex, directory.Set). *)
CheckAnswers ==
    answer # None /\ answer.served /\ ~answer.lost => answer.verdict # "error"

(* SPEC.md 12.4: that every source is older than what was seen is not an error
   to report, but no update this time. *)
StaleIsNoError == answer # None /\ answer.stale => answer.verdict # "error"

=============================================================================

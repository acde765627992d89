--------------------------- MODULE InstallModesProofs ---------------------------
(***************************************************************************)
(* Proofs about InstallModes, for every table of paths, every set of       *)
(* bundles, and every library of versions.  Each layout has an invariant of *)
(* its own, which the steps of the others leave alone.                      *)
(***************************************************************************)
EXTENDS InstallModes, TLAPS

-----------------------------------------------------------------------------
(* The open directory. *)

(* What is in the way of the entry of path p, or was, is put in its place again
   by a rollback, as long as no restore failed. *)
CanGoBack(p) ==
    \/ journal[p] = before.disk[p]
    \/ journal[p] = "none" /\ disk[p] = before.disk[p]

Untouched(p) == journal[p] = "none" /\ disk[p] = before.disk[p]

InTable(p) == Table[release][p] # None

(* Where each path is while an apply goes through the table, and after it. *)
TreeFits ==
    /\ step \in {"write", "entry"} => \A p \in Paths :
          /\ p \in left => InTable(p) /\ (p \in Tree!Writing \/ Untouched(p))
          /\ p \notin left => IF InTable(p) THEN disk[p] = Tree!Due(p) ELSE Untouched(p)
    /\ step = "entry" => \E p \in left : /\ Tree!Writing = {p} /\ disk[p] = None /\ journal[p] = before.disk[p]
                                         /\ p \notin Preserved \/ before.disk[p] = None
    /\ step = "drop" => \A p \in Paths :
          IF p \in left
          THEN Untouched(p) /\ ~InTable(p) /\ p \notin Preserved /\ baseline[p] # None
          ELSE disk[p] = Tree!Due(p)
    /\ step \in {"write", "entry", "drop", "save"} => baseline = before.baseline
    /\ step \in {"save", "commit", "clean"} => \A p \in Paths : disk[p] = Tree!Due(p)

TreeInv ==
    /\ Tree!TreeOK /\ Tree!EndsOldOrNew
    /\ TreeFits
    /\ step = "idle" => left = {} /\ journal = Tree!NoJournal
    /\ ended # "no" => step = "idle"
    /\ step # "rollback" /\ step # "idle" => ~stuck
    /\ step # "idle" /\ ~stuck => \A p \in Paths : CanGoBack(p)
    /\ \A p \in Paths : journal[p] # "none" => disk[p] # Mine

-----------------------------------------------------------------------------
(* The bundle. *)

BundleInv ==
    /\ Bundle!BundleOK /\ Bundle!BundleInv
    /\ place # "idle" => target # Bundle!NoBundle

-----------------------------------------------------------------------------
(* The library. *)

LibraryInv ==
    /\ Library!LibraryOK /\ Library!ActiveIsInstalled
    /\ active # Library!NoActive => active.id # None
    /\ stage = "build" => version[Id[plan]] = 0
    /\ stage = "rename" => version[Id[plan]] = 0
    /\ stage = "pointer" => version[Id[plan]] = Code[plan]
    /\ stage = "prune" =>
          /\ version[Id[plan]] = Code[plan]
          /\ \A i \in excess :
                /\ i \in Library!Installed \ running
                /\ i # active.id /\ i # Id[plan]
                /\ Retain >= 2 => i # active.previous
                /\ version[i] \notin Reserved

IInv == TreeInv /\ BundleInv /\ LibraryInv

-----------------------------------------------------------------------------
(* Steps of the bundle. *)

(* What a directory may be. *)
LEMMA BundleDirs ==
    /\ None \in Bundle!Dirs /\ Bundle!NoBundle \in Bundle!Dirs /\ Bundle!NoBundle # None
    /\ \A r \in Bundles : /\ Bundle!Whole(r) \in Bundle!Dirs /\ Bundle!Pieces(r) \in Bundle!Dirs
                          /\ Bundle!Whole(r) \notin {None, Bundle!NoBundle}
                          /\ Bundle!Whole(r).whole /\ Bundle!Whole(r).release = r
    /\ \A d \in Bundle!Dirs : Bundle!Rest(d) \in Bundle!Dirs /\ (d \notin {None, Bundle!NoBundle} => d.release \in Bundles)
  <1>1. \A d \in Bundle!Dirs : d = None \/ d = Bundle!NoBundle \/ d \in [release : Bundles, whole : BOOLEAN]
    BY DEF Bundle!Dirs
  <1>2. Bundle!Rest(None) = None
    BY DEF Bundle!Rest
  <1>3. Bundle!Rest(Bundle!NoBundle) = Bundle!NoBundle
    BY BundleAssumption DEF Bundle!Rest, Bundle!NoBundle
  <1>4. \A d \in [release : Bundles, whole : BOOLEAN] :
            Bundle!Rest(d) \in [release : Bundles, whole : BOOLEAN] /\ d.release \in Bundles
    BY BundleAssumption DEF Bundle!Rest
  <1>5. \A r \in Bundles : /\ Bundle!Whole(r) \in [release : Bundles, whole : BOOLEAN]
                           /\ Bundle!Pieces(r) \in [release : Bundles, whole : BOOLEAN]
                           /\ Bundle!Whole(r).whole = TRUE /\ Bundle!Whole(r).release = r
    BY DEF Bundle!Whole, Bundle!Pieces
  <1>6. Bundle!NoBundle # None /\ Bundle!NoBundle.release = None
    <2>1. Bundle!NoBundle \in [release : Bundles \cup {None}, whole : BOOLEAN] /\ Bundle!NoBundle.release = None
      BY DEF Bundle!NoBundle
    <2> QED
      BY <2>1, BundleAssumption
  <1>7. \A r \in Bundles : Bundle!Whole(r) # None /\ Bundle!Whole(r) # Bundle!NoBundle
    BY <1>5, <1>6, BundleAssumption
  <1> QED
    BY <1>1, <1>2, <1>3, <1>4, <1>5, <1>6, <1>7 DEF Bundle!Dirs

(* An install begins with one whole bundle. *)
LEMMA InitBundle == ASSUME Bundle!BundleInit PROVE BundleInv
  <1>1. PICK r \in Bundles : target = Bundle!Whole(r)
    BY DEF Bundle!BundleInit
  <1>2. partial = None /\ old = None /\ place = "idle" /\ planned = None
    BY DEF Bundle!BundleInit
  <1> QED
    BY <1>1, <1>2, BundleDirs, BundleAssumption
    DEF BundleInv, Bundle!BundleOK, Bundle!BundleInv, Bundle!Kept, Bundle!Places

(* Every step of an apply keeps the bundle that matters whole. *)
LEMMA BundleStep == ASSUME BundleInv, Bundle!BundleNext PROVE BundleInv'
  <1> DEFINE Gone == {None, Bundle!NoBundle}
  <1>1. /\ target \in Bundle!Dirs /\ partial \in Bundle!Dirs /\ old \in Bundle!Dirs
        /\ place \in Bundle!Places /\ planned \in Bundles \cup {None} /\ (planned = None <=> place = "idle")
    BY DEF BundleInv, Bundle!BundleOK
  <1>2. /\ target \in Gone => old \notin Gone /\ old.whole
        /\ target \notin Gone => target.whole
        /\ place \in {"exchange", "clearOld", "aside", "inside"} => partial = Bundle!Whole(planned)
        /\ place \in {"build", "fill", "exchange", "clearOld", "aside", "commitPartial", "commitOld"} => target \notin Gone
        /\ place = "inside" => target = None
        /\ place # "idle" => target # Bundle!NoBundle
    BY DEF BundleInv, Bundle!BundleInv, Bundle!Kept
  <1>3. SUFFICES
        /\ target' \in Bundle!Dirs /\ partial' \in Bundle!Dirs /\ old' \in Bundle!Dirs
        /\ place' \in Bundle!Places /\ planned' \in Bundles \cup {None} /\ (planned' = None <=> place' = "idle")
        /\ target' \in Gone => old' \notin Gone /\ old'.whole
        /\ target' \notin Gone => target'.whole
        /\ place' \in {"exchange", "clearOld", "aside", "inside"} => partial' = Bundle!Whole(planned')
        /\ place' \in {"build", "fill", "exchange", "clearOld", "aside", "commitPartial", "commitOld"} => target' \notin Gone
        /\ place' = "inside" => target' = None
        /\ place' # "idle" => target' # Bundle!NoBundle
    BY DEF BundleInv, Bundle!BundleOK, Bundle!BundleInv, Bundle!Kept
  <1>4. CASE \E r \in Bundles : Bundle!Accepted(r)
    BY <1>1, <1>2, <1>4, BundleAssumption DEF Bundle!Accepted, Bundle!Places
  <1>5. CASE Bundle!Refused
    BY <1>1, <1>2, <1>5, BundleDirs DEF Bundle!Refused
  <1>6. CASE Bundle!Restore
    BY <1>1, <1>2, <1>6, BundleDirs DEF Bundle!Restore, Bundle!Move, Bundle!Ends, Bundle!Places
  <1>7. CASE Bundle!SweepOld \/ Bundle!SweepPartial
    BY <1>1, <1>2, <1>7, BundleDirs
    DEF Bundle!SweepOld, Bundle!SweepPartial, Bundle!Move, Bundle!Ends, Bundle!Places
  <1>8. CASE Bundle!Check \/ Bundle!Build \/ Bundle!Fill
    BY <1>1, <1>2, <1>8, BundleDirs
    DEF Bundle!Check, Bundle!Build, Bundle!Fill, Bundle!Move, Bundle!Ends, Bundle!Places
  <1>9. CASE Bundle!Exchange \/ Bundle!ClearOld
    BY <1>1, <1>2, <1>9, BundleDirs
    DEF Bundle!Exchange, Bundle!ClearOld, Bundle!Move, Bundle!Ends, Bundle!Places
  <1>10. CASE Bundle!Aside
    BY <1>1, <1>2, <1>10, BundleDirs DEF Bundle!Aside, Bundle!Move, Bundle!Places
  <1>13. CASE Bundle!Inside
    BY <1>1, <1>2, <1>13, BundleDirs DEF Bundle!Inside, Bundle!Move, Bundle!Places
  <1>11. CASE Bundle!GiveUp \/ Bundle!CommitPartial \/ Bundle!CommitOld
    BY <1>1, <1>2, <1>11, BundleDirs
    DEF Bundle!GiveUp, Bundle!CommitPartial, Bundle!CommitOld, Bundle!Move, Bundle!Ends, Bundle!Places
  <1>12. CASE Bundle!WorkerDies
    BY <1>1, <1>2, <1>12, BundleDirs DEF Bundle!WorkerDies, Bundle!Ends, Bundle!Places
  <1> QED
    BY <1>4, <1>5, <1>6, <1>7, <1>8, <1>9, <1>10, <1>11, <1>12, <1>13 DEF Bundle!BundleNext

(* A step replaces the bundle that matters by the planned one, or keeps it: it
   is a step of the install that is replaced as a whole, or none. *)
LEMMA BundleImplements ==
    ASSUME BundleInv, Bundle!BundleNext
    PROVE  Bundle!Install!InstallationNext \/ UNCHANGED <<Bundle!Current, planned>>
  <1> DEFINE Gone == {None, Bundle!NoBundle}
             Main(t, o) == IF t \in Gone THEN o ELSE t
             Now(t, o) == IF Main(t, o) \notin Gone /\ Main(t, o).whole THEN Main(t, o).release ELSE None
  <1>1. Bundle!Current = Now(target, old) /\ Bundle!Current' = Now(target', old')
    BY DEF Bundle!Current, Bundle!Kept
  <1>2. /\ target \in Gone => old \notin Gone /\ old.whole
        /\ target \notin Gone => target.whole
        /\ place \in {"exchange", "clearOld", "aside", "inside"} => partial = Bundle!Whole(planned)
        /\ place \in {"build", "fill", "exchange", "clearOld", "aside", "commitPartial", "commitOld"} => target \notin Gone
        /\ place = "inside" => target = None
        /\ place # "idle" => target # Bundle!NoBundle
        /\ planned \in Bundles \cup {None} /\ (planned = None <=> place = "idle")
    BY DEF BundleInv, Bundle!BundleOK, Bundle!BundleInv, Bundle!Kept
  <1>3. SUFFICES \/ planned = None /\ planned' \in Bundles /\ Now(target', old') = Now(target, old)
                 \/ planned # None /\ Now(target', old') = planned /\ planned' = planned
                 \/ planned # None /\ planned' = None /\ Now(target', old') = Now(target, old)
                 \/ planned' = planned /\ Now(target', old') = Now(target, old)
    BY <1>1 DEF Bundle!Install!InstallationNext, Bundle!Install!Accept, Bundle!Install!Replace, Bundle!Install!End
  <1>4. CASE \E r \in Bundles : Bundle!Accepted(r)
    BY <1>2, <1>4 DEF Bundle!Accepted
  <1>5. CASE Bundle!Refused
    BY <1>2, <1>5, BundleDirs DEF Bundle!Refused
  <1>6. CASE Bundle!Restore
    BY <1>2, <1>6, BundleDirs DEF Bundle!Restore, Bundle!Move, Bundle!Ends
  <1>7. CASE Bundle!SweepOld \/ Bundle!SweepPartial
    BY <1>2, <1>7, BundleDirs DEF Bundle!SweepOld, Bundle!SweepPartial, Bundle!Move, Bundle!Ends
  <1>8. CASE Bundle!Check \/ Bundle!Build \/ Bundle!Fill
    BY <1>2, <1>8 DEF Bundle!Check, Bundle!Build, Bundle!Fill, Bundle!Move, Bundle!Ends
  <1>9. CASE Bundle!Exchange
    BY <1>2, <1>9, BundleDirs DEF Bundle!Exchange, Bundle!Move
  <1>10. CASE Bundle!ClearOld
    BY <1>2, <1>10 DEF Bundle!ClearOld, Bundle!Move
  <1>11. CASE Bundle!Aside
    BY <1>2, <1>11 DEF Bundle!Aside, Bundle!Move
  <1>12. CASE Bundle!Inside
    BY <1>2, <1>12, BundleDirs DEF Bundle!Inside, Bundle!Move
  <1>13. CASE Bundle!GiveUp \/ Bundle!CommitPartial \/ Bundle!CommitOld
    BY <1>2, <1>13 DEF Bundle!GiveUp, Bundle!CommitPartial, Bundle!CommitOld, Bundle!Move, Bundle!Ends
  <1>14. CASE Bundle!WorkerDies
    BY <1>2, <1>14 DEF Bundle!WorkerDies, Bundle!Ends
  <1> QED
    BY <1>4, <1>5, <1>6, <1>7, <1>8, <1>9, <1>10, <1>11, <1>12, <1>13, <1>14 DEF Bundle!BundleNext

-----------------------------------------------------------------------------
(* Steps of the open directory. *)

(* What a file may hold. *)
LEMMA TreeParts ==
    TreeInv =>
        /\ disk \in [Paths -> Contents \cup {Mine, Torn, None}]
        /\ baseline \in [Paths -> Contents \cup {None}]
        /\ before.disk \in [Paths -> Contents \cup {Mine, Torn, None}]
        /\ before.baseline \in [Paths -> Contents \cup {None}]
        /\ journal \in [Paths -> Contents \cup {Mine, Torn, None, "none"}]
        /\ left \subseteq Paths /\ step \in Tree!Steps /\ release \in Releases
        /\ stuck \in BOOLEAN /\ ended \in {"no", "completed", "rolledBack"}
        /\ \A r \in Releases, p \in Paths : Table[r][p] \in Contents \cup {None}
        /\ \A r \in Releases : Table[r] \in [Paths -> Contents \cup {None}]
        /\ \A p \in Paths : disk[p] # "none" /\ before.disk[p] # "none"
        /\ Mine \notin Contents \cup {None}
  BY TreeAssumption DEF TreeInv, Tree!TreeOK

(* An install begins empty, or with a release. *)
LEMMA InitTree == ASSUME Tree!TreeInit PROVE TreeInv
  <1>1. /\ disk \in {[p \in Paths |-> None]} \cup {Table[r] : r \in Releases} /\ baseline = disk
        /\ step = "idle" /\ release \in Releases /\ left = {} /\ journal = Tree!NoJournal
        /\ before = [disk |-> disk, baseline |-> baseline] /\ stuck = FALSE /\ ended = "no"
    BY DEF Tree!TreeInit
  <1>2. disk \in [Paths -> Contents \cup {None}]
    BY <1>1, TreeAssumption
  <1>3. disk \in [Paths -> Contents \cup {Mine, Torn, None}]
    BY <1>2
  <1>4. before.disk = disk /\ before.baseline = disk
    BY <1>1
  <1>5. journal \in [Paths -> Contents \cup {Mine, Torn, None, "none"}] /\ \A p \in Paths : journal[p] = "none"
    BY <1>1 DEF Tree!NoJournal
  <1>6. Tree!TreeOK
    BY <1>1, <1>2, <1>3, <1>4, <1>5 DEF Tree!TreeOK, Tree!Steps
  <1>7. TreeFits /\ Tree!EndsOldOrNew
    BY <1>1 DEF TreeFits, Tree!EndsOldOrNew
  <1> QED
    BY <1>1, <1>5, <1>6, <1>7 DEF TreeInv

(* The user changes files, and an apply begins. *)
LEMMA TreeBegins ==
    ASSUME TreeInv, Tree!UserEdits \/ \E r \in Releases : Tree!Begin(r)
    PROVE  TreeInv'
  <1>1. step = "idle" /\ left = {} /\ journal = Tree!NoJournal
    BY DEF TreeInv, Tree!UserEdits, Tree!Begin
  <1>2. CASE Tree!UserEdits
    <2>1. PICK p \in Paths, c \in {Mine, None} : disk' = [disk EXCEPT ![p] = c]
      BY <1>2 DEF Tree!UserEdits
    <2>2. ended' = "no" /\ UNCHANGED <<baseline, step, release, left, journal, before, stuck>>
      BY <1>2 DEF Tree!UserEdits
    <2>3. disk' \in [Paths -> Contents \cup {Mine, Torn, None}]
      BY <2>1, TreeParts
    <2>4. Tree!TreeOK'
      BY <2>2, <2>3, TreeParts DEF Tree!TreeOK
    <2>5. TreeFits' /\ Tree!EndsOldOrNew'
      BY <1>1, <2>2 DEF TreeFits, Tree!EndsOldOrNew
    <2>6. \A q \in Paths : journal'[q] = "none"
      BY <1>1, <2>2 DEF Tree!NoJournal
    <2> QED
      BY <1>1, <2>2, <2>4, <2>5, <2>6 DEF TreeInv, Tree!NoJournal
  <1>3. ASSUME NEW r \in Releases, Tree!Begin(r) PROVE TreeInv'
    <2>1. /\ step' = "write" /\ release' = r /\ left' = {p \in Paths : Table[r][p] # None}
          /\ before' = [disk |-> disk, baseline |-> baseline] /\ stuck' = FALSE /\ ended' = "no"
          /\ UNCHANGED <<disk, baseline, journal>>
      BY <1>3 DEF Tree!Begin
    <2>2. before'.disk = disk /\ before'.baseline = baseline
      BY <2>1
    <2>3. \A q \in Paths : journal'[q] = "none"
      BY <1>1, <2>1 DEF Tree!NoJournal
    <2>4. Tree!TreeOK'
      BY <1>3, <2>1, <2>2, TreeParts DEF Tree!TreeOK, Tree!Steps
    <2>5. TreeFits'
      BY <2>1, <2>2, <2>3 DEF TreeFits, Untouched, InTable
    <2>6. Tree!EndsOldOrNew' /\ \A q \in Paths : CanGoBack(q)'
      BY <2>1, <2>2, <2>3 DEF Tree!EndsOldOrNew, CanGoBack
    <2> QED
      BY <2>1, <2>3, <2>4, <2>5, <2>6 DEF TreeInv
  <1> QED
    BY <1>2, <1>3

(* What holds while entries are written. *)
LEMMA WriteFacts ==
    ASSUME TreeInv, step \in {"write", "entry"}
    PROVE  /\ ~stuck /\ ended = "no" /\ baseline = before.baseline
           /\ \A p \in left : InTable(p) /\ (p \in Tree!Writing \/ Untouched(p))
           /\ \A p \in Paths \ left : IF InTable(p) THEN disk[p] = Tree!Due(p) ELSE Untouched(p)
           /\ \A p \in Paths : CanGoBack(p) /\ (journal[p] # "none" => disk[p] # Mine)
           /\ step = "write" => Tree!Writing = {}
  BY TreeParts DEF TreeInv, TreeFits, Tree!Writing

(* An entry is left alone, or what is in its way is moved aside. *)
LEMMA EntryBegins ==
    ASSUME TreeInv, NEW p \in Paths, Tree!Skip(p) \/ Tree!MoveAside(p)
    PROVE  TreeInv'
  <1>1. step = "write" /\ p \in left
    BY DEF Tree!Skip, Tree!MoveAside
  <1>2. /\ ~stuck /\ ended = "no" /\ baseline = before.baseline /\ InTable(p) /\ Untouched(p)
        /\ \A q \in left : InTable(q) /\ Untouched(q)
        /\ \A q \in Paths \ left : IF InTable(q) THEN disk[q] = Tree!Due(q) ELSE Untouched(q)
        /\ \A q \in Paths : CanGoBack(q) /\ (journal[q] # "none" => disk[q] # Mine)
    BY <1>1, WriteFacts
  <1>3. CASE Tree!Skip(p)
    <2>1. /\ p \in Preserved /\ disk[p] # None /\ left' = left \ {p}
          /\ UNCHANGED <<disk, baseline, step, release, journal, before, stuck, ended>>
      BY <1>3 DEF Tree!Skip
    <2>2. \A q \in Paths : /\ Tree!Due(q)' = Tree!Due(q) /\ InTable(q)' = InTable(q) /\ Untouched(q)' = Untouched(q)
                           /\ CanGoBack(q)' = CanGoBack(q)
      BY <2>1 DEF Tree!Due, InTable, Untouched, CanGoBack
    <2>3. disk[p] = Tree!Due(p)
      BY <1>2, <2>1 DEF Tree!Due, Untouched
    <2>4. TreeFits'
      BY <1>1, <1>2, <2>1, <2>2, <2>3 DEF TreeFits
    <2>5. Tree!TreeOK' /\ Tree!EndsOldOrNew'
      BY <1>2, <2>1, TreeParts DEF Tree!TreeOK, Tree!EndsOldOrNew
    <2> QED
      BY <1>1, <1>2, <2>1, <2>2, <2>4, <2>5 DEF TreeInv
  <1>4. CASE Tree!MoveAside(p)
    <2>1. /\ p \notin Preserved \/ disk[p] = None
          /\ journal' = [journal EXCEPT ![p] = disk[p]] /\ disk' = [disk EXCEPT ![p] = None] /\ step' = "entry"
          /\ UNCHANGED <<baseline, release, left, before, stuck, ended>>
      BY <1>4 DEF Tree!MoveAside
    <2>2. /\ disk'[p] = None /\ journal'[p] = before.disk[p] /\ journal'[p] # "none"
          /\ \A q \in Paths \ {p} : disk'[q] = disk[q] /\ journal'[q] = journal[q]
          /\ disk' \in [Paths -> Contents \cup {Mine, Torn, None}]
          /\ journal' \in [Paths -> Contents \cup {Mine, Torn, None, "none"}]
      BY <1>2, <2>1, TreeParts DEF Untouched
    <2>3. \A q \in Paths : Tree!Due(q)' = Tree!Due(q) /\ InTable(q)' = InTable(q)
      BY <2>1 DEF Tree!Due, InTable
    <2>4. \A q \in Paths \ {p} : Untouched(q)' = Untouched(q) /\ CanGoBack(q)' = CanGoBack(q)
      BY <2>1, <2>2 DEF Untouched, CanGoBack
    <2>5. Tree!Writing' = {p}
      BY <1>1, <1>2, <2>1, <2>2, TreeParts DEF Tree!Writing, Untouched
    <2>6. CanGoBack(p)'
      BY <2>1, <2>2 DEF CanGoBack
    <2>7. TreeFits'
      <3>1. \A q \in left \ {p} : InTable(q)' /\ Untouched(q)'
        BY <1>2, <2>3, <2>4, TreeParts
      <3>2. \A q \in Paths \ left : IF InTable(q)' THEN disk'[q] = Tree!Due(q)' ELSE Untouched(q)'
        BY <1>1, <1>2, <2>2, <2>3, <2>4
      <3>3. p \notin Preserved \/ before.disk[p] = None
        BY <1>2, <2>1 DEF Untouched
      <3> QED
        BY <1>1, <1>2, <2>1, <2>2, <2>3, <2>5, <3>1, <3>2, <3>3, TreeParts DEF TreeFits
    <2>8. Tree!TreeOK' /\ Tree!EndsOldOrNew'
      BY <1>2, <2>1, <2>2, TreeParts DEF Tree!TreeOK, Tree!EndsOldOrNew, Tree!Steps
    <2>9. \A q \in Paths : journal'[q] # "none" => disk'[q] # Mine
      BY <1>2, <2>2, TreeAssumption
    <2> QED
      BY <1>2, <2>1, <2>4, <2>6, <2>7, <2>8, <2>9 DEF TreeInv
  <1> QED
    BY <1>3, <1>4

(* What an apply leaves of a path is settled when it begins. *)
LEMMA DueIsSettled ==
    ASSUME UNCHANGED <<release, before>>, NEW p
    PROVE  Tree!Due(p)' = Tree!Due(p) /\ InTable(p)' = InTable(p)
  BY DEF Tree!Due, InTable

(* The entry is written, or its writing fails. *)
LEMMA EntryEnds ==
    ASSUME TreeInv, Tree!WriteEntry \/ Tree!EntryFails
    PROVE  TreeInv'
  <1>1. step = "entry"
    BY DEF Tree!WriteEntry, Tree!EntryFails
  <1>2. /\ ~stuck /\ ended = "no" /\ baseline = before.baseline
        /\ \A q \in left : InTable(q) /\ (q \in Tree!Writing \/ Untouched(q))
        /\ \A q \in Paths \ left : IF InTable(q) THEN disk[q] = Tree!Due(q) ELSE Untouched(q)
        /\ \A q \in Paths : CanGoBack(q) /\ (journal[q] # "none" => disk[q] # Mine)
    BY <1>1, WriteFacts
  <1>3. PICK p \in left : /\ Tree!Writing = {p} /\ disk[p] = None /\ journal[p] = before.disk[p]
                          /\ p \notin Preserved \/ before.disk[p] = None
    BY <1>1 DEF TreeInv, TreeFits
  <1>4. p \in Paths /\ InTable(p)
    BY <1>2, <1>3, TreeParts
  <1>5. CASE Tree!WriteEntry
    <2>1. /\ disk' = [disk EXCEPT ![p] = Table[release][p]] /\ left' = left \ {p} /\ step' = "write"
          /\ UNCHANGED <<baseline, release, journal, before, stuck, ended>>
      BY <1>3, <1>5 DEF Tree!WriteEntry
    <2>2. /\ disk'[p] = Table[release][p] /\ \A q \in Paths \ {p} : disk'[q] = disk[q]
          /\ disk' \in [Paths -> Contents \cup {Mine, Torn, None}]
      BY <1>4, <2>1, TreeParts
    <2>3. disk'[p] = Tree!Due(p)
      BY <1>3, <1>4, <2>2 DEF Tree!Due, InTable
    <2>4. \A q \in Paths \ {p} : Untouched(q)' = Untouched(q) /\ CanGoBack(q)' = CanGoBack(q)
      BY <2>1, <2>2 DEF Untouched, CanGoBack
    <2>5. CanGoBack(p)'
      BY <1>3, <2>1 DEF CanGoBack
    <2>6. \A q \in Paths : Tree!Due(q)' = Tree!Due(q) /\ InTable(q)' = InTable(q)
      BY <2>1, DueIsSettled
    <2>7. TreeFits'
      <3>1. \A q \in left \ {p} : InTable(q)' /\ Untouched(q)'
        BY <1>2, <1>3, <2>4, <2>6, TreeParts
      <3>2. \A q \in Paths \ left : IF InTable(q)' THEN disk'[q] = Tree!Due(q)' ELSE Untouched(q)'
        BY <1>2, <1>3, <2>2, <2>4, <2>6
      <3> QED
        BY <1>2, <1>4, <2>1, <2>3, <2>6, <3>1, <3>2 DEF TreeFits
    <2>8. Tree!TreeOK' /\ Tree!EndsOldOrNew'
      BY <1>2, <2>1, <2>2, TreeParts DEF Tree!TreeOK, Tree!EndsOldOrNew, Tree!Steps
    <2>9. \A q \in Paths : journal'[q] # "none" => disk'[q] # Mine
      BY <1>2, <1>4, <2>1, <2>2, TreeParts
    <2> QED
      BY <1>2, <2>1, <2>4, <2>5, <2>7, <2>8, <2>9 DEF TreeInv
  <1>6. CASE Tree!EntryFails
    <2>1. PICK c \in {None, Torn} : disk' = [disk EXCEPT ![p] = c]
      BY <1>3, <1>6 DEF Tree!EntryFails
    <2>2. step' = "rollback" /\ UNCHANGED <<baseline, release, left, journal, before, stuck, ended>>
      BY <1>6 DEF Tree!EntryFails
    <2>3. /\ disk'[p] = c /\ \A q \in Paths \ {p} : disk'[q] = disk[q]
          /\ disk' \in [Paths -> Contents \cup {Mine, Torn, None}]
      BY <1>4, <2>1, TreeParts
    <2>4. \A q \in Paths : CanGoBack(q)'
      BY <1>2, <1>3, <2>2, <2>3 DEF CanGoBack
    <2>5. \A q \in Paths : journal'[q] # "none" => disk'[q] # Mine
      BY <1>2, <2>2, <2>3, TreeAssumption
    <2>6. Tree!TreeOK' /\ Tree!EndsOldOrNew' /\ TreeFits'
      BY <1>2, <2>2, <2>3, TreeParts DEF Tree!TreeOK, Tree!EndsOldOrNew, Tree!Steps, TreeFits
    <2> QED
      BY <1>2, <2>2, <2>4, <2>5, <2>6 DEF TreeInv
  <1> QED
    BY <1>5, <1>6

(* What the old release had and the new one has not. *)
LEMMA DropsBegin == ASSUME TreeInv, Tree!EntriesWritten PROVE TreeInv'
  <1>1. /\ step = "write" /\ left = {} /\ step' = "drop"
        /\ left' = {p \in Paths \ Preserved : baseline[p] # None /\ Table[release][p] = None}
        /\ UNCHANGED <<disk, baseline, release, journal, before, stuck, ended>>
    BY DEF Tree!EntriesWritten
  <1>2. /\ ~stuck /\ ended = "no" /\ baseline = before.baseline
        /\ \A q \in Paths : IF InTable(q) THEN disk[q] = Tree!Due(q) ELSE Untouched(q)
        /\ \A q \in Paths : CanGoBack(q) /\ (journal[q] # "none" => disk[q] # Mine)
    BY <1>1, WriteFacts
  <1>3. \A q \in Paths : /\ Tree!Due(q)' = Tree!Due(q) /\ InTable(q)' = InTable(q) /\ Untouched(q)' = Untouched(q)
                         /\ CanGoBack(q)' = CanGoBack(q)
    BY <1>1, DueIsSettled DEF Untouched, CanGoBack
  <1>4. ASSUME NEW q \in Paths, q \notin left' PROVE disk[q] = Tree!Due(q)
    <2>1. CASE InTable(q)
      BY <1>2, <2>1
    <2>2. CASE ~InTable(q)
      <3>1. disk[q] = before.disk[q] /\ (q \in Preserved \/ before.baseline[q] = None)
        BY <1>1, <1>2, <1>4, <2>2 DEF InTable, Untouched
      <3> QED
        BY <2>2, <3>1 DEF Tree!Due, InTable
    <2> QED
      BY <2>1, <2>2
  <1>5. TreeFits'
    <2>1. \A q \in left' : q \in Paths /\ Untouched(q)' /\ ~InTable(q)' /\ q \notin Preserved /\ baseline'[q] # None
      BY <1>1, <1>2, <1>3 DEF InTable
    <2> QED
      BY <1>1, <1>2, <1>3, <1>4, <2>1 DEF TreeFits
  <1>6. Tree!TreeOK' /\ Tree!EndsOldOrNew'
    BY <1>1, <1>2, TreeParts DEF Tree!TreeOK, Tree!EndsOldOrNew, Tree!Steps
  <1> QED
    BY <1>1, <1>2, <1>3, <1>5, <1>6 DEF TreeInv

(* One of them is moved aside if it is still what was recorded. *)
LEMMA PathDropped == ASSUME TreeInv, NEW p \in Paths, Tree!Drop(p) PROVE TreeInv'
  <1>1. /\ step = "drop" /\ p \in left /\ left' = left \ {p}
        /\ UNCHANGED <<baseline, step, release, before, stuck, ended>>
        /\ IF disk[p] = baseline[p]
           THEN journal' = [journal EXCEPT ![p] = disk[p]] /\ disk' = [disk EXCEPT ![p] = None]
           ELSE UNCHANGED <<disk, journal>>
    BY DEF Tree!Drop, Tree!baselineOwns
  <1>2. /\ ~stuck /\ ended = "no" /\ baseline = before.baseline
        /\ \A q \in left : Untouched(q) /\ ~InTable(q) /\ q \notin Preserved /\ baseline[q] # None
        /\ \A q \in Paths \ left : disk[q] = Tree!Due(q)
        /\ \A q \in Paths : CanGoBack(q) /\ (journal[q] # "none" => disk[q] # Mine)
    BY <1>1, TreeParts DEF TreeInv, TreeFits
  <1>3. /\ disk' \in [Paths -> Contents \cup {Mine, Torn, None}]
        /\ journal' \in [Paths -> Contents \cup {Mine, Torn, None, "none"}]
        /\ \A q \in Paths \ {p} : disk'[q] = disk[q] /\ journal'[q] = journal[q]
        /\ \/ disk[p] = baseline[p] /\ disk'[p] = None /\ journal'[p] = disk[p]
           \/ disk[p] # baseline[p] /\ disk'[p] = disk[p] /\ journal'[p] = journal[p]
    BY <1>1, TreeParts
  <1>4. disk'[p] = Tree!Due(p) /\ CanGoBack(p)' /\ (journal'[p] # "none" => disk'[p] # Mine)
    <2>1. disk[p] = before.disk[p] /\ journal[p] = "none" /\ Table[release][p] = None /\ p \notin Preserved
          /\ before.baseline[p] # None
      BY <1>1, <1>2 DEF Untouched, InTable
    <2> QED
      BY <1>1, <1>2, <1>3, <2>1, TreeAssumption DEF Tree!Due, CanGoBack
  <1>5. \A q \in Paths \ {p} : /\ Untouched(q)' = Untouched(q) /\ CanGoBack(q)' = CanGoBack(q)
    BY <1>1, <1>3 DEF Untouched, CanGoBack
  <1>6. \A q \in Paths : Tree!Due(q)' = Tree!Due(q) /\ InTable(q)' = InTable(q)
    BY <1>1, DueIsSettled
  <1>7. TreeFits'
    <2>1. \A q \in left' : q \in Paths /\ Untouched(q)' /\ ~InTable(q)' /\ q \notin Preserved /\ baseline'[q] # None
      BY <1>1, <1>2, <1>5, <1>6, TreeParts
    <2>2. \A q \in Paths \ left' : disk'[q] = Tree!Due(q)'
      BY <1>1, <1>2, <1>3, <1>4, <1>6
    <2> QED
      BY <1>1, <1>2, <2>1, <2>2 DEF TreeFits
  <1>8. Tree!TreeOK' /\ Tree!EndsOldOrNew'
    BY <1>1, <1>2, <1>3, TreeParts DEF Tree!TreeOK, Tree!EndsOldOrNew
  <1> QED
    BY <1>1, <1>2, <1>3, <1>4, <1>5, <1>7, <1>8 DEF TreeInv

(* After the last path the baseline is saved and the apply committed; a failure
   on the way leads to the rollback. *)
LEMMA ApplyGoesOn ==
    ASSUME TreeInv, Tree!PostApply \/ Tree!SaveBaseline \/ Tree!Commit \/ Tree!Fails
    PROVE  TreeInv'
  <1>1. /\ UNCHANGED <<disk, release, left, journal, before, stuck, ended>>
        /\ \/ step = "drop" /\ left = {} /\ step' = "save" /\ baseline' = baseline
           \/ step = "save" /\ step' = "commit" /\ baseline' = Table[release]
           \/ step = "commit" /\ step' = "clean" /\ baseline' = baseline
           \/ step \in {"write", "drop", "save", "commit"} /\ step' = "rollback" /\ baseline' = baseline
    BY DEF Tree!PostApply, Tree!SaveBaseline, Tree!Commit, Tree!Fails
  <1>2. /\ ~stuck /\ ended = "no"
        /\ \A q \in Paths : CanGoBack(q) /\ (journal[q] # "none" => disk[q] # Mine)
        /\ step' # "rollback" => \A q \in Paths : disk[q] = Tree!Due(q)
        /\ step = "drop" => baseline = before.baseline
    BY <1>1, TreeParts DEF TreeInv, TreeFits
  <1>3. \A q \in Paths : Tree!Due(q)' = Tree!Due(q) /\ CanGoBack(q)' = CanGoBack(q)
    BY <1>1, DueIsSettled DEF CanGoBack
  <1>4. baseline' \in [Paths -> Contents \cup {None}]
    BY <1>1, TreeParts
  <1>5. TreeFits'
    BY <1>1, <1>2, <1>3 DEF TreeFits
  <1>6. Tree!TreeOK' /\ Tree!EndsOldOrNew'
    BY <1>1, <1>2, <1>4, TreeParts DEF Tree!TreeOK, Tree!EndsOldOrNew, Tree!Steps
  <1> QED
    BY <1>1, <1>2, <1>3, <1>5, <1>6 DEF TreeInv

(* Nothing is known of an apply that is over but how it ended. *)
LEMMA ApplyEnds ==
    ASSUME TreeInv, step' = "idle", left' = {}, journal' = Tree!NoJournal,
           UNCHANGED <<baseline, release, before, stuck>>,
           disk' \in [Paths -> Contents \cup {Mine, Torn, None}], Tree!EndsOldOrNew',
           ended' \in {"no", "completed", "rolledBack"}
    PROVE  TreeInv'
  <1>1. /\ journal' \in [Paths -> Contents \cup {Mine, Torn, None, "none"}]
        /\ \A q \in Paths : journal'[q] = "none"
    BY DEF Tree!NoJournal
  <1>2. Tree!TreeOK' /\ TreeFits'
    BY <1>1, TreeParts DEF Tree!TreeOK, Tree!Steps, TreeFits
  <1>3. Tree!NoJournal' = Tree!NoJournal
    BY DEF Tree!NoJournal
  <1> QED
    BY <1>1, <1>2, <1>3 DEF TreeInv

(* The backups go, the last one was put back, or the worker dies. *)
LEMMA TreeEnds ==
    ASSUME TreeInv, Tree!Clean \/ Tree!RolledBack \/ Tree!Dies
    PROVE  TreeInv'
  <1>1. /\ step' = "idle" /\ left' = {} /\ journal' = Tree!NoJournal
        /\ UNCHANGED <<baseline, release, before, stuck>>
    BY DEF Tree!Clean, Tree!RolledBack, Tree!Dies
  <1>2. \A q \in Paths : Tree!Due(q)' = Tree!Due(q)
    BY <1>1, DueIsSettled
  <1>3. CASE Tree!Clean
    <2>1. step = "clean" /\ ended' = "completed" /\ disk' = disk
      BY <1>3 DEF Tree!Clean
    <2>2. Tree!EndsOldOrNew'
      BY <1>2, <2>1 DEF TreeInv, TreeFits, Tree!EndsOldOrNew
    <2> QED
      BY <1>1, <2>1, <2>2, ApplyEnds, TreeParts
  <1>4. CASE Tree!RolledBack
    <2>1. step = "rollback" /\ journal = Tree!NoJournal /\ ended' = "rolledBack" /\ disk' = disk
      BY <1>4 DEF Tree!RolledBack
    <2>2. ~stuck => \A q \in Paths : disk[q] = before.disk[q]
      BY <2>1, TreeParts DEF TreeInv, CanGoBack, Tree!NoJournal
    <2>3. ~stuck => disk = before.disk
      BY <2>2, TreeParts
    <2>4. Tree!EndsOldOrNew'
      BY <1>1, <2>1, <2>3 DEF Tree!EndsOldOrNew
    <2> QED
      BY <1>1, <2>1, <2>4, ApplyEnds, TreeParts
  <1>5. CASE Tree!Dies
    <2>1. ended' = "no" /\ disk' \in {disk} \cup {[disk EXCEPT ![p] = Torn] : p \in Tree!Writing}
      BY <1>5 DEF Tree!Dies
    <2>2. disk' \in [Paths -> Contents \cup {Mine, Torn, None}]
      BY <2>1, TreeParts
    <2>3. Tree!EndsOldOrNew'
      BY <2>1 DEF Tree!EndsOldOrNew
    <2> QED
      BY <1>1, <2>1, <2>2, <2>3, ApplyEnds
  <1> QED
    BY <1>3, <1>4, <1>5

(* A backup is put back, or cannot be. *)
LEMMA PathRestored ==
    ASSUME TreeInv, NEW p \in Paths, Tree!Restore(p) \/ Tree!RestoreFails(p)
    PROVE  TreeInv'
  <1>1. /\ step = "rollback" /\ journal[p] # "none" /\ journal' = [journal EXCEPT ![p] = "none"]
        /\ UNCHANGED <<baseline, step, release, left, before, ended>>
        /\ \/ stuck' = stuck /\ disk' = [disk EXCEPT ![p] = journal[p]]
           \/ stuck' = TRUE /\ disk' \in {disk, [disk EXCEPT ![p] = None]}
    BY DEF Tree!Restore, Tree!RestoreFails
  <1>2. /\ ended = "no" /\ (~stuck => \A q \in Paths : CanGoBack(q))
        /\ \A q \in Paths : journal[q] # "none" => disk[q] # Mine
    BY <1>1, TreeParts DEF TreeInv
  <1>3. /\ disk' \in [Paths -> Contents \cup {Mine, Torn, None}]
        /\ journal' \in [Paths -> Contents \cup {Mine, Torn, None, "none"}]
        /\ journal'[p] = "none"
        /\ \A q \in Paths \ {p} : disk'[q] = disk[q] /\ journal'[q] = journal[q]
        /\ ~stuck' => disk'[p] = journal[p] /\ ~stuck
    <2>1. journal[p] \in Contents \cup {Mine, Torn, None}
      BY <1>1, TreeParts
    <2> QED
      BY <1>1, <2>1, TreeParts
  <1>4. ASSUME ~stuck', NEW q \in Paths PROVE CanGoBack(q)'
    BY <1>1, <1>2, <1>3, <1>4 DEF CanGoBack
  <1>5. \A q \in Paths : journal'[q] # "none" => disk'[q] # Mine
    BY <1>2, <1>3
  <1>6. Tree!TreeOK' /\ Tree!EndsOldOrNew' /\ TreeFits'
    BY <1>1, <1>2, <1>3, TreeParts DEF Tree!TreeOK, Tree!EndsOldOrNew, TreeFits
  <1> QED
    BY <1>1, <1>2, <1>4, <1>5, <1>6 DEF TreeInv

(* Every step of an apply keeps the invariant of the directory. *)
LEMMA TreeStep == ASSUME TreeInv, Tree!TreeNext PROVE TreeInv'
  <1>1. CASE Tree!UserEdits \/ \E r \in Releases : Tree!Begin(r)
    BY <1>1, TreeBegins
  <1>2. CASE \E p \in Paths : Tree!Skip(p) \/ Tree!MoveAside(p)
    BY <1>2, EntryBegins
  <1>3. CASE Tree!WriteEntry \/ Tree!EntryFails
    BY <1>3, EntryEnds
  <1>4. CASE Tree!EntriesWritten \/ \E p \in Paths : Tree!Drop(p)
    BY <1>4, DropsBegin, PathDropped
  <1>5. CASE Tree!PostApply \/ Tree!SaveBaseline \/ Tree!Commit \/ Tree!Fails
    BY <1>5, ApplyGoesOn
  <1>6. CASE Tree!Clean \/ Tree!RolledBack \/ Tree!Dies
    BY <1>6, TreeEnds
  <1>7. CASE \E p \in Paths : Tree!Restore(p) \/ Tree!RestoreFails(p)
    BY <1>7, PathRestored
  <1> QED
    BY <1>1, <1>2, <1>3, <1>4, <1>5, <1>6, <1>7 DEF Tree!TreeNext, Tree!ApplyStep

(* No step of an apply touches a file that is only the user's. *)
LEMMA UserFilesStay ==
    ASSUME TreeInv, Tree!TreeNext, step # "idle", NEW p \in Paths, disk[p] = Mine,
           Table[release][p] = None \/ p \in Preserved
    PROVE  disk'[p] = Mine
  <1>0. /\ disk \in [Paths -> Contents \cup {Mine, Torn, None}] /\ journal[p] = "none"
        /\ baseline[p] # Mine /\ Mine # None
    BY TreeParts, TreeAssumption DEF TreeInv
  <1>1. ASSUME NEW q \in Paths, Tree!MoveAside(q) PROVE disk'[p] = Mine
    <2>1. step = "write" /\ q \in left /\ (q \notin Preserved \/ disk[q] = None) /\ disk' = [disk EXCEPT ![q] = None]
      BY <1>1 DEF Tree!MoveAside
    <2>2. InTable(q)
      BY <2>1, WriteFacts
    <2>3. q # p
      BY <1>0, <2>1, <2>2 DEF InTable
    <2> QED
      BY <1>0, <2>1, <2>3
  <1>2. ASSUME NEW q \in Paths, Tree!Drop(q) PROVE disk'[p] = Mine
    BY <1>0, <1>2 DEF Tree!Drop, Tree!baselineOwns
  <1>3. ASSUME NEW q \in Paths, Tree!Restore(q) \/ Tree!RestoreFails(q) PROVE disk'[p] = Mine
    BY <1>0, <1>3 DEF Tree!Restore, Tree!RestoreFails
  <1>4. CASE Tree!WriteEntry \/ Tree!EntryFails \/ Tree!Dies
    <2>1. \A q \in Tree!Writing : q # p
      BY <1>0 DEF Tree!Writing
    <2> QED
      BY <1>0, <1>4, <2>1 DEF Tree!WriteEntry, Tree!EntryFails, Tree!Dies
  <1>5. ASSUME UNCHANGED disk PROVE disk'[p] = Mine
    BY <1>5
  <1> QED
    BY <1>1, <1>2, <1>3, <1>4, <1>5
    DEF Tree!TreeNext, Tree!ApplyStep, Tree!UserEdits, Tree!Begin, Tree!Skip, Tree!EntriesWritten, Tree!PostApply,
        Tree!SaveBaseline, Tree!Commit, Tree!Fails, Tree!Clean, Tree!RolledBack

-----------------------------------------------------------------------------
(* Steps of the library. *)

(* What is known of a library. *)
LEMMA LibraryParts ==
    LibraryInv =>
        /\ version \in [Ids -> {0} \cup {Code[p] : p \in Plans}]
        /\ building \in [Ids -> BOOLEAN] /\ active \in Library!Pointers
        /\ running \subseteq Ids /\ excess \subseteq Ids
        /\ stage \in Library!Stages /\ plan \in Plans /\ only \in BOOLEAN /\ dangling \in BOOLEAN
        /\ Id[plan] \in Ids /\ Id[plan] # None /\ None \notin Ids
        /\ \A p \in Plans : Code[p] \in Nat /\ Code[p] # 0 /\ Id[p] \in Ids
        /\ \A i \in Ids : version[i] \in Nat
        /\ active.id \in Ids \cup {None} /\ active.code \in Nat /\ active.previous \in Ids \cup {None}
        /\ Library!Installed \subseteq Ids
  BY LibraryAssumption DEF LibraryInv, Library!LibraryOK, Library!Pointers, Library!Installed

(* A pointer to an installed version. *)
LEMMA PointersTyped ==
    ASSUME NEW i \in Ids, NEW c \in Nat, NEW q \in Ids \cup {None}
    PROVE  LET a == [id |-> i, code |-> c, previous |-> q]
           IN  a \in Library!Pointers /\ a.id = i /\ a.code = c /\ a.previous = q /\ a # Library!NoActive
  <1> DEFINE a == [id |-> i, code |-> c, previous |-> q]
  <1>1. a.id = i /\ a.code = c /\ a.previous = q /\ a \in Library!Pointers
    BY DEF Library!Pointers
  <1>2. Library!NoActive.id = None
    BY DEF Library!NoActive
  <1> QED
    BY <1>1, <1>2, LibraryAssumption

(* A library begins empty, or with one version that is active. *)
LEMMA InitLibrary == ASSUME Library!LibraryInit PROVE LibraryInv
  <1>1. /\ building = [i \in Ids |-> FALSE] /\ running = {} /\ stage = "idle" /\ plan \in Plans /\ only = FALSE
        /\ excess = {} /\ dangling = FALSE
    BY DEF Library!LibraryInit
  <1>2. CASE version = [i \in Ids |-> 0] /\ active = Library!NoActive
    <2>1. Library!NoActive \in Library!Pointers
      BY DEF Library!NoActive, Library!Pointers
    <2> QED
      BY <1>1, <1>2, <2>1 DEF LibraryInv, Library!LibraryOK, Library!ActiveIsInstalled, Library!Stages
  <1>3. ASSUME NEW p \in Plans, version = [i \in Ids |-> IF i = Id[p] THEN Code[p] ELSE 0],
               active = [id |-> Id[p], code |-> Code[p], previous |-> None]
        PROVE  LibraryInv
    <2>1. Id[p] \in Ids /\ Code[p] \in Nat /\ Code[p] # 0 /\ Id[p] # None
      BY LibraryAssumption
    <2>2. active \in Library!Pointers /\ active.id = Id[p] /\ active.code = Code[p]
      BY <1>3, <2>1, PointersTyped
    <2>3. version[Id[p]] = Code[p] /\ version \in [Ids -> {0} \cup {Code[q] : q \in Plans}]
      BY <1>3, <2>1
    <2>4. Library!ActiveIsInstalled
      BY <2>1, <2>2, <2>3 DEF Library!ActiveIsInstalled, Library!Installed
    <2> QED
      BY <1>1, <2>1, <2>2, <2>3, <2>4 DEF LibraryInv, Library!LibraryOK, Library!Stages
  <1> QED
    BY <1>2, <1>3 DEF Library!LibraryInit

(* Programs start and stop, an apply starts. *)
LEMMA LibraryUsed ==
    ASSUME LibraryInv,
           Library!Run \/ Library!Quit \/ \E p \in Plans, installOnly \in BOOLEAN : Library!Start(p, installOnly)
    PROVE  LibraryInv'
  <1>1. CASE Library!Run \/ Library!Quit
    <2>1. /\ UNCHANGED <<version, building, active, stage, plan, only, excess, dangling>>
          /\ running' \subseteq Ids /\ running' \subseteq running \cup {active.id}
      BY <1>1, LibraryParts DEF Library!Run, Library!Quit
    <2>2. Library!Installed' = Library!Installed /\ Library!ActiveIsInstalled'
      BY <2>1 DEF Library!Installed, Library!ActiveIsInstalled, LibraryInv, Library!NoActive
    <2>3. Library!LibraryOK'
      BY <2>1, LibraryParts DEF Library!LibraryOK
    <2> QED
      BY <2>1, <2>2, <2>3 DEF LibraryInv, Library!NoActive
  <1>2. ASSUME NEW p \in Plans, NEW installOnly \in BOOLEAN, Library!Start(p, installOnly) PROVE LibraryInv'
    <2>1. /\ stage' = "target" /\ plan' = p /\ only' = installOnly
          /\ UNCHANGED <<version, building, active, running, excess, dangling>>
      BY <1>2 DEF Library!Start
    <2>2. Library!ActiveIsInstalled'
      BY <2>1 DEF Library!Installed, Library!ActiveIsInstalled, LibraryInv, Library!NoActive
    <2>3. Library!LibraryOK'
      BY <2>1, LibraryParts DEF Library!LibraryOK, Library!Stages
    <2> QED
      BY <2>1, <2>2, <2>3 DEF LibraryInv, Library!NoActive
  <1> QED
    BY <1>1, <1>2

(* A directory is emptied, or filled with the plan: the pointer stays true, or
   it is known to dangle. *)
LEMMA DirectoryMoves ==
    ASSUME LibraryInv, NEW i \in Ids, NEW c \in {0, Code[plan]}, UNCHANGED <<active, plan>>,
           version' = [version EXCEPT ![i] = c],
           dangling => dangling', active.id = i => dangling'
    PROVE  /\ version' \in [Ids -> {0} \cup {Code[p] : p \in Plans}]
           /\ Library!ActiveIsInstalled' /\ version'[i] = c
           /\ active' # Library!NoActive' => active'.id # None
  <1>1. version' \in [Ids -> {0} \cup {Code[p] : p \in Plans}] /\ version'[i] = c
    BY LibraryParts
  <1>2. ASSUME active # Library!NoActive, ~dangling'
        PROVE  active.id \in Library!Installed' /\ version'[active.id] = active.code
    <2>1. active.id \in Library!Installed /\ version[active.id] = active.code /\ active.id # i
      BY <1>2 DEF LibraryInv, Library!ActiveIsInstalled
    <2> QED
      BY <2>1, LibraryParts DEF Library!Installed
  <1> QED
    BY <1>1, <1>2 DEF Library!ActiveIsInstalled, LibraryInv, Library!NoActive

(* The directory of the plan is made free, or found. *)
LEMMA TargetPrepared == ASSUME LibraryInv, Library!PrepareTarget PROVE LibraryInv'
  <1> DEFINE i == Id[plan]
  <1>1. stage = "target" /\ UNCHANGED <<building, active, excess, running, plan, only>>
    BY DEF Library!PrepareTarget, Library!SetAside, Library!Stage
  <1>2. CASE UNCHANGED <<version, dangling>>
    <2>1. \/ version[i] = 0 /\ stage' = "build"
          \/ version[i] = Code[plan] /\ stage' = "pointer"
          \/ stage' = "idle"
      BY <1>2, LibraryParts DEF Library!PrepareTarget, Library!SetAside, Library!Stage
    <2>2. Library!ActiveIsInstalled'
      BY <1>1, <1>2 DEF Library!Installed, Library!ActiveIsInstalled, LibraryInv, Library!NoActive
    <2>3. Library!LibraryOK'
      BY <1>1, <1>2, <2>1, LibraryParts DEF Library!LibraryOK, Library!Stages
    <2> QED
      BY <1>1, <1>2, <2>1, <2>2, <2>3 DEF LibraryInv, Library!NoActive
  <1>3. CASE Library!SetAside(i)
    <2>1. /\ version' = [version EXCEPT ![i] = 0] /\ dangling' = (dangling \/ active.id = i)
          /\ stage' \in {"build", "idle"}
      BY <1>3 DEF Library!SetAside, Library!Stage
    <2>2. /\ version' \in [Ids -> {0} \cup {Code[p] : p \in Plans}]
          /\ Library!ActiveIsInstalled' /\ version'[i] = 0 /\ (active' # Library!NoActive' => active'.id # None)
      BY <1>1, <2>1, DirectoryMoves, LibraryParts
    <2>3. Library!LibraryOK'
      BY <1>1, <2>1, <2>2, LibraryParts DEF Library!LibraryOK, Library!Stages
    <2> QED
      BY <1>1, <2>1, <2>2, <2>3 DEF LibraryInv
  <1> QED
    BY <1>2, <1>3 DEF Library!PrepareTarget

(* The version is built and takes its place. *)
LEMMA VersionPlaced == ASSUME LibraryInv, Library!Materialize \/ Library!RenameIn PROVE LibraryInv'
  <1> DEFINE i == Id[plan]
  <1>1. /\ UNCHANGED <<active, excess, dangling, running, plan, only>> /\ version[i] = 0
        /\ building' \in [Ids -> BOOLEAN]
        /\ \/ UNCHANGED version /\ stage' \in {"rename", "idle"}
           \/ version' = [version EXCEPT ![i] = Code[plan]] /\ stage' = "pointer"
    BY LibraryParts DEF Library!Materialize, Library!RenameIn, Library!Stage, LibraryInv
  <1>2. CASE UNCHANGED version
    <2>1. Library!ActiveIsInstalled'
      BY <1>1, <1>2 DEF Library!Installed, Library!ActiveIsInstalled, LibraryInv, Library!NoActive
    <2>2. Library!LibraryOK' /\ stage' # "pointer"
      BY <1>1, <1>2, LibraryParts DEF Library!LibraryOK, Library!Stages
    <2> QED
      BY <1>1, <1>2, <2>1, <2>2 DEF LibraryInv, Library!NoActive
  <1>3. CASE version' = [version EXCEPT ![i] = Code[plan]] /\ stage' = "pointer"
    <2>1. active.id = i => dangling
      BY <1>1, LibraryParts DEF LibraryInv, Library!ActiveIsInstalled, Library!Installed, Library!NoActive
    <2>2. /\ version' \in [Ids -> {0} \cup {Code[p] : p \in Plans}]
          /\ Library!ActiveIsInstalled' /\ version'[i] = Code[plan] /\ (active' # Library!NoActive' => active'.id # None)
      BY <1>1, <1>3, <2>1, DirectoryMoves, LibraryParts
    <2>3. Library!LibraryOK'
      BY <1>1, <1>3, <2>2, LibraryParts DEF Library!LibraryOK, Library!Stages
    <2> QED
      BY <1>1, <1>3, <2>2, <2>3 DEF LibraryInv
  <1> QED
    BY <1>1, <1>2, <1>3

(* What is to be removed is none of the versions to keep. *)
LEMMA ExcessSpares ==
    ASSUME LibraryInv, NEW a \in Library!Pointers, NEW i \in Library!Excess(a)
    PROVE  /\ i \in Library!Installed \ running /\ i # a.id /\ i # Id[plan]
           /\ Retain >= 2 => i # a.previous
           /\ version[i] \notin Reserved
  <1>1. i \in Library!Installed /\ i \notin running /\ i \notin Library!Named(a)
    BY DEF Library!Excess, Library!Kept
  <1>2. i # None /\ Id[plan] # None
    BY <1>1, LibraryParts
  <1> QED
    BY <1>1, <1>2 DEF Library!Named

(* The pointer is rewritten, or not, and the excess settled. *)
LEMMA ActiveWritten == ASSUME LibraryInv, Library!WriteActive PROVE LibraryInv'
  <1> DEFINE new == Library!NewPointer
  <1>1. stage = "pointer" /\ version[Id[plan]] = Code[plan] /\ UNCHANGED <<version, running, plan, only>>
    BY DEF Library!WriteActive, Library!Pruning, Library!Stage, LibraryInv
  <1>2. /\ new \in Library!Pointers /\ new.id = Id[plan] /\ new.code = Code[plan]
        /\ new.previous = (IF active.id = Id[plan] THEN active.previous ELSE active.id) /\ new # Library!NoActive
    BY LibraryParts, PointersTyped DEF Library!NewPointer
  <1> HIDE DEF new
  <1>3. Library!Installed' = Library!Installed /\ Id[plan] \in Library!Installed
    BY <1>1, LibraryParts DEF Library!Installed
  <1>4. ASSUME NEW a \in Library!Pointers, Library!Pruning(a)
        PROVE  /\ stage' = "prune" /\ building' \in [Ids -> BOOLEAN] /\ excess' \subseteq Ids
               /\ \A i \in excess' : /\ i \in Library!Installed \ running /\ i # a.id /\ i # Id[plan]
                                     /\ (Retain >= 2 => i # a.previous) /\ version[i] \notin Reserved
    <2>1. stage' = "prune" /\ excess' = Library!Excess(a) /\ building' = [i \in Ids |-> FALSE]
      BY <1>4 DEF Library!Pruning, Library!Stage
    <2> QED
      BY <2>1, ExcessSpares, LibraryParts
  <1>5. CASE active' = new /\ dangling' = FALSE /\ Library!Pruning(new)
    <2>1. Library!ActiveIsInstalled'
      BY <1>1, <1>2, <1>3, <1>5 DEF Library!ActiveIsInstalled
    <2>2. Library!LibraryOK'
      BY <1>1, <1>2, <1>4, <1>5, LibraryParts DEF Library!LibraryOK, Library!Stages
    <2> QED
      BY <1>1, <1>2, <1>3, <1>4, <1>5, <2>1, <2>2, LibraryParts DEF LibraryInv
  <1>6. CASE UNCHANGED <<active, dangling>> /\ Library!Pruning(IF active = Library!NoActive THEN new ELSE active)
    <2> DEFINE a == IF active = Library!NoActive THEN new ELSE active
    <2>1. a \in Library!Pointers
      BY <1>2, LibraryParts
    <2>2. Library!ActiveIsInstalled' /\ (active' # Library!NoActive' => active'.id # None)
      BY <1>1, <1>6 DEF Library!Installed, Library!ActiveIsInstalled, LibraryInv, Library!NoActive
    <2>3. \A i \in excess' : i # active.id /\ (Retain >= 2 => i # active.previous)
      <3>1. CASE active = Library!NoActive
        BY <1>4, <1>6, <2>1, <3>1, LibraryParts DEF Library!NoActive
      <3>2. CASE active # Library!NoActive
        BY <1>4, <1>6, <2>1, <3>2
      <3> QED
        BY <3>1, <3>2
    <2>4. Library!LibraryOK'
      BY <1>1, <1>4, <1>6, <2>1, LibraryParts DEF Library!LibraryOK, Library!Stages
    <2> QED
      BY <1>1, <1>3, <1>4, <1>6, <2>1, <2>2, <2>3, <2>4 DEF LibraryInv
  <1>7. CASE stage' = "idle" /\ UNCHANGED <<active, building, excess, dangling>>
    <2>1. Library!ActiveIsInstalled' /\ (active' # Library!NoActive' => active'.id # None)
      BY <1>1, <1>7 DEF Library!Installed, Library!ActiveIsInstalled, LibraryInv, Library!NoActive
    <2>2. Library!LibraryOK'
      BY <1>1, <1>7, LibraryParts DEF Library!LibraryOK, Library!Stages
    <2> QED
      BY <1>7, <2>1, <2>2 DEF LibraryInv
  <1> QED
    BY <1>5, <1>6, <1>7 DEF Library!WriteActive, Library!Stage, new

(* One version is removed, or the prune is over. *)
LEMMA Pruned == ASSUME LibraryInv, Library!PruneOne \/ Library!Finished \/ Library!WorkerDies PROVE LibraryInv'
  <1>1. CASE Library!PruneOne
    <2>1. PICK i \in excess : excess' = excess \ {i} /\ version' \in {version, [version EXCEPT ![i] = 0]}
      BY <1>1 DEF Library!PruneOne
    <2>2. stage = "prune" /\ UNCHANGED <<building, active, running, stage, plan, only, dangling>>
      BY <1>1 DEF Library!PruneOne
    <2>3. /\ version[Id[plan]] = Code[plan] /\ i \in Ids /\ i # Id[plan] /\ i # active.id
          /\ \A j \in excess : /\ j \in Library!Installed \ running
                               /\ j # active.id /\ j # Id[plan]
                               /\ Retain >= 2 => j # active.previous
                               /\ version[j] \notin Reserved
      BY <2>1, <2>2, LibraryParts DEF LibraryInv
    <2>4. /\ version' \in [Ids -> {0} \cup {Code[p] : p \in Plans}]
          /\ \A j \in Ids \ {i} : version'[j] = version[j]
      BY <2>1, <2>3, LibraryParts
    <2>5. \A j \in Library!Installed \ {i} : j \in Library!Installed' /\ version'[j] = version[j]
      BY <2>4 DEF Library!Installed
    <2>6. Library!ActiveIsInstalled' /\ (active' # Library!NoActive' => active'.id # None)
      BY <2>2, <2>3, <2>5 DEF Library!ActiveIsInstalled, LibraryInv, Library!NoActive
    <2>7. Library!LibraryOK'
      BY <2>1, <2>2, <2>4, LibraryParts DEF Library!LibraryOK
    <2>8. version'[Id[plan]] = Code[plan]
      BY <2>3, <2>4, LibraryParts
    <2>9. \A j \in excess' : /\ j \in Library!Installed' \ running /\ j # active.id /\ j # Id[plan]
                             /\ (Retain >= 2 => j # active.previous) /\ version'[j] \notin Reserved
      BY <2>1, <2>3, <2>5
    <2> QED
      BY <2>2, <2>6, <2>7, <2>8, <2>9 DEF LibraryInv
  <1>2. CASE Library!Finished \/ Library!WorkerDies
    <2>1. /\ stage' = "idle" /\ UNCHANGED <<version, building, active, dangling, running, plan, only>>
          /\ excess' \in {excess, {}}
      BY <1>2 DEF Library!Finished, Library!WorkerDies, Library!Stage
    <2>2. Library!ActiveIsInstalled' /\ (active' # Library!NoActive' => active'.id # None)
      BY <2>1 DEF Library!Installed, Library!ActiveIsInstalled, LibraryInv, Library!NoActive
    <2>3. Library!LibraryOK'
      BY <2>1, LibraryParts DEF Library!LibraryOK, Library!Stages
    <2> QED
      BY <2>1, <2>2, <2>3 DEF LibraryInv
  <1> QED
    BY <1>1, <1>2

(* The pointer is moved by hand, or a version deleted. *)
LEMMA LibraryEdited ==
    ASSUME LibraryInv, NEW i \in Ids,
           Library!Switch(i) \/ Library!Rollback \/ \E inUse \in SUBSET running : Library!Delete(i, inUse)
    PROVE  LibraryInv'
  <1>1. stage = "idle" /\ UNCHANGED <<building, running, stage, plan, only, excess>>
    BY DEF Library!Switch, Library!Rollback, Library!Delete
  <1>2. ASSUME NEW j \in Library!Installed, active' = [id |-> j, code |-> version[j], previous |-> active.id],
               UNCHANGED version, dangling' = FALSE
        PROVE  LibraryInv'
    <2>1. j \in Ids /\ version[j] \in Nat /\ active.id \in Ids \cup {None} /\ j # None
      BY LibraryParts
    <2>2. active' \in Library!Pointers /\ active'.id = j /\ active'.code = version[j]
      BY <1>2, <2>1, PointersTyped
    <2>3. Library!ActiveIsInstalled'
      BY <1>2, <2>2 DEF Library!ActiveIsInstalled, Library!Installed
    <2>4. Library!LibraryOK'
      BY <1>1, <1>2, <2>2, LibraryParts DEF Library!LibraryOK
    <2> QED
      BY <1>1, <2>1, <2>2, <2>3, <2>4 DEF LibraryInv
  <1>3. CASE \E inUse \in SUBSET running : Library!Delete(i, inUse)
    <2>1. /\ version' = [version EXCEPT ![i] = 0] /\ dangling' = (dangling \/ active.id = i) /\ UNCHANGED active
      BY <1>3 DEF Library!Delete
    <2>2. /\ version' \in [Ids -> {0} \cup {Code[p] : p \in Plans}]
          /\ Library!ActiveIsInstalled' /\ (active' # Library!NoActive' => active'.id # None)
      BY <1>1, <2>1, DirectoryMoves, LibraryParts
    <2>3. Library!LibraryOK'
      BY <1>1, <2>1, <2>2, LibraryParts DEF Library!LibraryOK
    <2> QED
      BY <1>1, <2>2, <2>3 DEF LibraryInv
  <1> QED
    BY <1>2, <1>3 DEF Library!Switch, Library!Rollback

(* Every step keeps the invariant of the library. *)
LEMMA LibraryStep == ASSUME LibraryInv, Library!LibraryNext PROVE LibraryInv'
  <1>1. CASE Library!Run \/ Library!Quit \/ \E p \in Plans, installOnly \in BOOLEAN : Library!Start(p, installOnly)
    BY <1>1, LibraryUsed
  <1>2. CASE Library!PrepareTarget \/ Library!Materialize \/ Library!RenameIn
    BY <1>2, TargetPrepared, VersionPlaced
  <1>3. CASE Library!WriteActive \/ Library!PruneOne \/ Library!Finished \/ Library!WorkerDies
    BY <1>3, ActiveWritten, Pruned
  <1>4. CASE (\E i \in Ids : Library!Switch(i)) \/ Library!Rollback
             \/ \E i \in Ids, inUse \in SUBSET running : Library!Delete(i, inUse)
    BY <1>4, LibraryEdited, LibraryParts
  <1> QED
    BY <1>1, <1>2, <1>3, <1>4 DEF Library!LibraryNext

(* A prune spares what is active, runs, was just installed or is kept. *)
LEMMA PruneSpares ==
    ASSUME LibraryInv, Library!LibraryNext, stage = "prune", stage' = "prune", NEW i \in Library!Installed,
           \/ i \in running \/ i = active.id \/ i = Id[plan]
           \/ i = active.previous /\ Retain >= 2
           \/ version[i] \in Reserved
    PROVE  version'[i] = version[i]
  <1>1. i \in Ids /\ i \notin excess
    BY LibraryParts DEF LibraryInv
  <1>2. CASE Library!PruneOne
    BY <1>1, <1>2, LibraryParts DEF Library!PruneOne
  <1>3. CASE UNCHANGED version
    BY <1>3
  <1> QED
    BY <1>2, <1>3
    DEF Library!LibraryNext, Library!Run, Library!Quit, Library!Start, Library!PrepareTarget, Library!Materialize,
        Library!RenameIn, Library!WriteActive, Library!Finished, Library!WorkerDies, Library!Switch, Library!Rollback,
        Library!Delete

-----------------------------------------------------------------------------
(* The theorems. *)

(* The invariant holds of every behaviour. *)
THEOREM Invariance == Spec => []IInv
  <1>1. Init => IInv
    BY InitTree, InitBundle, InitLibrary DEF Init, IInv
  <1>2. IInv /\ [Next]_vars => IInv'
    <2> SUFFICES ASSUME IInv, [Next]_vars PROVE IInv'
      OBVIOUS
    <2>1. TreeInv'
      <3>1. CASE Tree!TreeNext
        BY <3>1, TreeStep DEF IInv
      <3>2. CASE UNCHANGED treeVars
        BY <3>2 DEF treeVars, IInv, TreeInv, Tree!TreeOK, Tree!EndsOldOrNew, TreeFits, CanGoBack, Untouched, InTable,
                    Tree!Due, Tree!Writing, Tree!NoJournal
      <3> QED
        BY <3>1, <3>2 DEF Next, applyReconcile, applySwap, applyLibrary, vars
    <2>2. BundleInv'
      <3>1. CASE Bundle!BundleNext
        BY <3>1, BundleStep DEF IInv
      <3>2. CASE UNCHANGED bundleVars
        BY <3>2 DEF bundleVars, IInv, BundleInv, Bundle!BundleOK, Bundle!BundleInv, Bundle!Kept
      <3> QED
        BY <3>1, <3>2 DEF Next, applyReconcile, applySwap, applyLibrary, vars
    <2>3. LibraryInv'
      <3>1. CASE Library!LibraryNext
        BY <3>1, LibraryStep DEF IInv
      <3>2. CASE UNCHANGED libraryVars
        BY <3>2 DEF libraryVars, IInv, LibraryInv, Library!LibraryOK, Library!ActiveIsInstalled, Library!Installed,
                    Library!NoActive
      <3> QED
        BY <3>1, <3>2 DEF Next, applyReconcile, applySwap, applyLibrary, vars
    <2> QED
      BY <2>1, <2>2, <2>3 DEF IInv
  <1> QED
    BY <1>1, <1>2, PTL DEF Spec

(* The state of each layout keeps its type. *)
THEOREM TypeCorrect == Spec => []TypeOK
  <1>1. Init => unit \in Units /\ placement \in Placements
    BY DEF Init
  <1>2. unit \in Units /\ placement \in Placements /\ [Next]_vars => (unit \in Units /\ placement \in Placements)'
    BY DEF Next, applyReconcile, applySwap, applyLibrary, vars, root, Units, Placements
  <1>3. IInv /\ unit \in Units /\ placement \in Placements => TypeOK
    BY DEF IInv, TreeInv, BundleInv, LibraryInv, TypeOK
  <1> QED
    BY <1>1, <1>2, <1>3, Invariance, PTL DEF Spec

(* A completed reconcile leaves the release and the files of the user, a rolled
   back one leaves what it found unless a restore failed, and no step touches a
   file that is only the user's, whatever fails and whenever the worker dies
   (applyReconcile, baselineOwns, rollbackJournal). *)
THEOREM TreeIsKept == Spec => TreeHolds
  <1> DEFINE Kept == step # "idle" => \A p \in Paths :
                         disk[p] = Mine /\ (Table[release][p] = None \/ p \in Preserved) => disk'[p] = Mine
  <1>1. IInv => Tree!EndsOldOrNew
    BY DEF IInv, TreeInv
  <1>2. IInv /\ [Next]_vars => [Kept]_Tree!tree
    <2> SUFFICES ASSUME IInv, [Next]_vars PROVE [Kept]_Tree!tree
      OBVIOUS
    <2>1. CASE Tree!TreeNext
      BY <2>1, UserFilesStay DEF IInv
    <2>2. CASE UNCHANGED treeVars
      BY <2>2 DEF treeVars, Tree!tree
    <2> QED
      BY <2>1, <2>2 DEF Next, applyReconcile, applySwap, applyLibrary, vars
  <1> HIDE DEF Kept
  <1>3. Spec => []Tree!EndsOldOrNew /\ [][Kept]_Tree!tree
    BY <1>1, <1>2, Invariance, PTL DEF Spec
  <1> QED
    BY <1>3 DEF TreeHolds, Tree!UserFilesKept, Kept

(* The steps of an apply, its failures and the worker's deaths implement an
   install that always holds exactly one whole bundle, which changes in one step
   to the planned release (applySwap, exchange, recoverSwap). *)
THEOREM BundleIsReplacedAtOnce == Spec => ReplacedAtOnce
  <1>1. Init => Bundle!Install!InstallationInit
    <2> SUFFICES ASSUME Init PROVE Bundle!Install!InstallationInit
      OBVIOUS
    <2>1. PICK r \in Bundles : target = Bundle!Whole(r)
      BY DEF Init, Bundle!BundleInit
    <2>2. Bundle!Current = r /\ planned = None
      BY <2>1, BundleDirs DEF Init, Bundle!BundleInit, Bundle!Current, Bundle!Kept
    <2> QED
      BY <2>2 DEF Bundle!Install!InstallationInit
  <1>2. IInv /\ [Next]_vars => [Bundle!Install!InstallationNext]_<<Bundle!Current, planned>>
    <2> SUFFICES ASSUME IInv, [Next]_vars PROVE [Bundle!Install!InstallationNext]_<<Bundle!Current, planned>>
      OBVIOUS
    <2>1. CASE Bundle!BundleNext
      BY <2>1, BundleImplements DEF IInv
    <2>2. CASE UNCHANGED bundleVars
      BY <2>2 DEF bundleVars, Bundle!Current, Bundle!Kept
    <2> QED
      BY <2>1, <2>2 DEF Next, applyReconcile, applySwap, applyLibrary, vars
  <1>3. Spec => Bundle!Install!InstallationInit /\ [][Bundle!Install!InstallationNext]_<<Bundle!Current, planned>>
    BY <1>1, <1>2, Invariance, PTL DEF Spec
  <1> QED
    BY <1>3 DEF ReplacedAtOnce, Bundle!ReplacedAtOnce, Bundle!Install!InstallationSpec

(* The pointer of a library names a version that is installed with the code it
   says, unless a plan with the same version string set it aside and failed, and
   pruning removes no version that is active, runs, was just installed or is to be
   kept (rollbackActive, applyLibrary, pruneVersions). *)
THEOREM LibraryIsKept == Spec => LibraryHolds
  <1> DEFINE Spared == stage = "prune" /\ stage' = "prune" => \A i \in Library!Installed :
                           \/ i \in running \/ i = active.id \/ i = Id[plan]
                           \/ i = active.previous /\ Retain >= 2
                           \/ version[i] \in Reserved
                           => version'[i] = version[i]
  <1>1. IInv => Library!ActiveIsInstalled
    BY DEF IInv, LibraryInv
  <1>2. IInv /\ [Next]_vars => [Spared]_Library!library
    <2> SUFFICES ASSUME IInv, [Next]_vars PROVE [Spared]_Library!library
      OBVIOUS
    <2>1. CASE Library!LibraryNext
      BY <2>1, PruneSpares DEF IInv
    <2>2. CASE UNCHANGED libraryVars
      BY <2>2 DEF libraryVars, Library!library
    <2> QED
      BY <2>1, <2>2 DEF Next, applyReconcile, applySwap, applyLibrary, vars
  <1> HIDE DEF Spared
  <1>3. Spec => []Library!ActiveIsInstalled /\ [][Spared]_Library!library
    BY <1>1, <1>2, Invariance, PTL DEF Spec
  <1> QED
    BY <1>3 DEF LibraryHolds, Library!PruneKeeps, Spared

=============================================================================

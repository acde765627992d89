----------------------------- MODULE ReleaseBuild -----------------------------
(***************************************************************************)
(* What happens to a release before it is uploaded (cmd/relkit): a        *)
(* pipeline claims a release code, has the producer of the product make   *)
(* an artifact for each target, merges what they declare, stages it and    *)
(* releases the staged tree.  Pipelines share a workspace, and a producer *)
(* whose relkit was killed goes on writing.                                *)
(*                                                                         *)
(* Abstractions.  A target has one artifact, a payload or not.  A file is  *)
(* the execution that made it (its digest), or Partial.  Of a file table  *)
(* only what decides on its format and its systems is kept.  The server    *)
(* has one channel, and can be asked for its highest code.                 *)
(***************************************************************************)
EXTENDS Naturals, FiniteSets

CONSTANTS
    Clients,      \* pipelines
    VersionOf,    \* the version each of them releases
    Targets,
    MaxCode, MaxBuilds, MaxFaults,
    Strict,       \* pipelines that stage with --code
    Backfill,     \* pipelines that release with --allow-backfill
    Contents,     \* what an execution of a producer packs, if its artifact is a payload
    Selectors,    \* of the artifact of a target
    Partial,      \* what a reader gets of an artifact that is being written
    None

VARIABLES
    counter,      \* the highest code the server has handed out
    shelf,        \* the highest code it has published
    out,          \* the output directory of a version and target: artifact and artifact set
    producers,    \* running executions of producers
    built,        \* executions so far
    declared,     \* what each execution was for and declared, once it was verified
    bundle,       \* the merged directory of a version
    tree,         \* the staged tree of a version
    run,          \* the pipelines
    released,     \* what the server published
    mishaps

buildVars == <<counter, shelf, out, producers, built, declared, bundle, tree, run,
               released, mishaps>>

Merged == "merged"     \* the merged directory as a source of stage

Versions == {VersionOf[r] : r \in Clients}
Places   == Versions \X Targets
Codes    == 1 .. MaxCode
Builds   == 1 .. MaxBuilds
Files    == [Targets -> Builds \cup {Partial, None}]

-----------------------------------------------------------------------------
(* The payload formats: which one a file table needs, whom it may be for, and
   which client takes it. *)

OSes == {"darwin", "linux", "windows"}
V1 == "relkit-payload"
V2 == "relkit-payload/2"

(* Only bundles and trees with symbolic links need the second format. *)
ApplySelectorFor(table) == IF table.links \/ table.unit = "bundle" THEN V2 ELSE V1

(* What payload build makes of a directory, given as --tree or as --bundle. *)
TableOf(dir) ==
    [unit |-> dir.as, named |-> dir.as = "bundle",
     links |-> dir.links, plist |-> dir.plist, preserve |-> dir.preserve,
     schema |-> IF dir.as = "bundle" \/ dir.links THEN V2 ELSE V1]

CheckTable(table) ==
    /\ table.unit = "tree" => ~table.named
    /\ table.unit = "bundle" => table.named /\ table.plist /\ ~table.preserve
    /\ table.schema = ApplySelectorFor(table)

TargetOS(sel) ==
    IF sel.os # None THEN sel.os
    ELSE IF sel.osArch # None /\ sel.osArch.dashed THEN sel.osArch.os ELSE None

CheckPublishSelectors_AnyTarget(table, sel) ==       \* Mutant: bundles for every system
    sel.apply = ApplySelectorFor(table)

CheckPublishSelectors(table, sel) ==
    /\ sel.apply = ApplySelectorFor(table)
    /\ sel.osArch # None /\ sel.os # None => sel.osArch.os = sel.os
    /\ table.unit = "bundle" => TargetOS(sel) = "darwin"
    /\ table.links => TargetOS(sel) # "windows"

Applied(sel, apply) == [sel EXCEPT !.apply = apply]

(* The engine's own rule. *)
checkUnitSupported(table, goos) ==
    /\ table.links => goos # "windows"
    /\ table.unit = "bundle" => goos = "darwin"

MatchesClientApply(sel, host, prefs) ==
    /\ sel.apply # None => sel.apply \in prefs
    /\ sel.os # None => host.os = sel.os
    /\ sel.osArch # None => host.osArch = sel.osArch

(* Preferred formats first, artifacts without one last. *)
Rank(sel) == IF sel.apply = V2 THEN 0 ELSE IF sel.apply = V1 THEN 1 ELSE 2

(* The artifacts that a client may pick from: ties go by the artifact's name. *)
SelectArtifactPreferring(sels, host, prefs) ==
    LET matches == {s \in sels : MatchesClientApply(s, host, prefs)}
    IN  {s \in matches : \A m \in matches : Rank(s) <= Rank(m)}

-----------------------------------------------------------------------------
(* Artifact sets, and the pipelines' commands on them. *)

(* An artifact set: the file of each target, as its producer declared it. *)
Sets == [code : Codes, of : [Targets -> Builds \cup {None}]]

Declarations == [at : Places, code : Codes]

Formats == {V1, V2, None} \cup {Selectors[t].apply : t \in Targets}

Trees == [code : Codes, set : Sets, files : Files, apply : [Targets -> Formats]]

VerifyFiles(set, files) == \A t \in Targets : set.of[t] # None => files[t] = set.of[t]

Active(r) == run[r].pc \notin {"new", "failed", "done"}

NoneCopied == [t \in Targets |-> None]

Unstarted ==
    [pc |-> "new", code |-> 0, at |-> None, build |-> None, set |-> None,
     files |-> NoneCopied, apply |-> NoneCopied]

(* A command is over. *)
Goes(r, pc) ==
    run' = [run EXCEPT ![r] = [Unstarted EXCEPT !.pc = pc, !.code = run[r].code]]

BuildInit ==
    /\ counter = 0 /\ shelf = 0 /\ built = 0 /\ mishaps = 0
    /\ out = [d \in Places |-> [file |-> None, set |-> None]]
    /\ producers = {} /\ released = {}
    /\ declared = [b \in Builds |-> None]
    /\ bundle = [v \in Versions |-> None]
    /\ tree = [v \in Versions |-> None]
    /\ run = [r \in Clients |-> Unstarted]

(* The next code is fresh, whether or not the answer arrives. *)
NextCode == IF counter > shelf THEN counter + 1 ELSE shelf + 1

ClaimReleaseCode(r) ==
    /\ run[r].pc = "new" /\ NextCode \in Codes
    /\ counter' = NextCode
    /\ run' = [run EXCEPT ![r].pc = "ready", ![r].code = NextCode]
    /\ UNCHANGED <<shelf, out, producers, built, declared, bundle, tree, released, mishaps>>

ClaimLost(r) ==
    /\ run[r].pc = "new" /\ NextCode \in Codes /\ mishaps < MaxFaults
    /\ counter' = NextCode /\ mishaps' = mishaps + 1
    /\ UNCHANGED <<shelf, out, producers, built, declared, bundle, tree, run, released>>

At(r, t) == <<VersionOf[r], t>>

requireEmptyDirectory(d) == out[d].file = None /\ out[d].set = None

(* artifacts produce starts the producer in an empty directory. *)
Produce(r, t) ==
    /\ run[r].pc = "ready" /\ built < MaxBuilds
    /\ requireEmptyDirectory(At(r, t))
    /\ built' = built + 1
    /\ producers' = producers \cup {[at |-> At(r, t), build |-> built + 1]}
    /\ run' = [run EXCEPT ![r].pc = "produce", ![r].at = t, ![r].build = built + 1]
    /\ UNCHANGED <<counter, shelf, out, declared, bundle, tree, released, mishaps>>

(* A producer, watched or left behind, writes its artifact; who reads it meanwhile
   may get it torn. *)
WriteArtifact(p) ==
    /\ out' = [out EXCEPT ![p.at].file = p.build]
    /\ UNCHANGED <<counter, shelf, producers, built, declared, bundle, tree, run,
                   released, mishaps>>

MineOf(r) == {[at |-> At(r, run[r].at), build |-> run[r].build]}

(* Its output is what it declares, under the code it was built with. *)
Verified(r, c) ==
    /\ run[r].pc = "produce"
    /\ out[At(r, run[r].at)].file = run[r].build
    /\ producers' = producers \ MineOf(r)
    /\ declared' = [declared EXCEPT ![run[r].build] = [at |-> At(r, run[r].at), code |-> c]]
    /\ run' = [run EXCEPT ![r].pc = "produced",
                 ![r].set = [code |-> c, of |-> [NoneCopied EXCEPT ![run[r].at] = run[r].build]]]
    /\ UNCHANGED <<counter, shelf, out, built, bundle, tree, released, mishaps>>

(* The artifact set is written once. *)
WriteNew(r) ==
    /\ run[r].pc = "produced" /\ out[At(r, run[r].at)].set = None
    /\ out' = [out EXCEPT ![At(r, run[r].at)].set = run[r].set]
    /\ Goes(r, "ready")
    /\ UNCHANGED <<counter, shelf, producers, built, declared, bundle, tree, released, mishaps>>

(* Sets of one product, version, code and channel can be merged. *)
SameIdentity_OfVersion(sets) == sets # {}     \* Mutant: the code is not compared

SameIdentity(sets) == \A s, q \in sets : s.code = q.code

BeginMerge(r, T) ==
    LET v == VersionOf[r]
        sets == {out[<<v, t>>].set : t \in T}
    IN  /\ run[r].pc = "ready" /\ bundle[v] = None
        /\ Cardinality(T) > 1 /\ None \notin sets /\ SameIdentity(sets)
        /\ \E s \in sets :
              run' = [run EXCEPT ![r].pc = "merge", ![r].files = NoneCopied,
                        ![r].set = [code |-> s.code,
                                    of |-> [t \in Targets |->
                                              IF t \in T THEN out[<<v, t>>].set.of[t] ELSE None]]]
        /\ UNCHANGED <<counter, shelf, out, producers, built, declared, bundle, tree,
                       released, mishaps>>

(* The set of a target or a merged one, and what its files are now: nobody writes to
   a merged directory. *)
SetAt(v, src) == IF src = Merged THEN bundle[v] ELSE out[<<v, src>>].set

FilesAt(v, src) == IF src = Merged THEN bundle[v].of
                   ELSE [t \in Targets |-> out[<<v, t>>].file]

(* A file is copied as it is, or as a producer leaves it meanwhile. *)
copyFile(v, src, t) ==
    {FilesAt(v, src)[t]} \cup
        IF src # Merged /\ \E p \in producers : p.at = <<v, t>> THEN {Partial} ELSE {}

copyArtifactCandidate(r, t) ==
    /\ run[r].pc = "merge" /\ run[r].set.of[t] # None /\ run[r].files[t] = None
    /\ \E x \in copyFile(VersionOf[r], t, t) \ {None} : run' = [run EXCEPT ![r].files[t] = x]
    /\ UNCHANGED <<counter, shelf, out, producers, built, declared, bundle, tree,
                   released, mishaps>>

(* The copies are verified, and take their place if it is free. *)
EndMerge(r) ==
    /\ run[r].pc = "merge" /\ VerifyFiles(run[r].set, run[r].files)
    /\ bundle[VersionOf[r]] = None
    /\ bundle' = [bundle EXCEPT ![VersionOf[r]] = run[r].set]
    /\ Goes(r, "ready")
    /\ UNCHANGED <<counter, shelf, out, producers, built, declared, tree, released, mishaps>>

CodeFits_Any(r, set) == set.code \in Codes     \* Mutant: --code is not compared

CodeFits(r, set) == r \in Strict => set.code = run[r].code

BeginStage(r, src) ==
    LET v == VersionOf[r] IN
    /\ run[r].pc = "ready" /\ SetAt(v, src) # None
    /\ CodeFits(r, SetAt(v, src)) /\ VerifyFiles(SetAt(v, src), FilesAt(v, src))
    /\ run' = [run EXCEPT ![r].pc = "stage", ![r].at = src, ![r].set = SetAt(v, src)]
    /\ UNCHANGED <<counter, shelf, out, producers, built, declared, bundle, tree,
                   released, mishaps>>

IsPayload(b) == b # None /\ Contents[b] # None
Table(b) == TableOf(Contents[b])

(* payload.Validate of what the file has by now. *)
Validates(x) == x \in Builds /\ IsPayload(x) /\ CheckTable(Table(x))

(* The apply selector of a payload is derived from its table. *)
Inspect(r) ==
    LET of == run[r].set.of
        now == FilesAt(VersionOf[r], run[r].at)
        Derived(t) == ApplySelectorFor(Table(now[t]))
    IN  /\ run[r].pc = "stage"
        /\ \A t \in Targets : IsPayload(of[t]) =>
              /\ Validates(now[t])
              /\ Selectors[t].apply \in {None, Derived(t)}
              /\ CheckPublishSelectors(Table(now[t]), Applied(Selectors[t], Derived(t)))
        /\ run' = [run EXCEPT ![r].pc = "copy",
                      ![r].apply = [t \in Targets |-> IF IsPayload(of[t]) THEN Derived(t)
                                                      ELSE Selectors[t].apply]]
        /\ UNCHANGED <<counter, shelf, out, producers, built, declared, bundle, tree,
                       released, mishaps>>

(* The files are copied into a temporary directory ... *)
CopyStaged(r) ==
    /\ run[r].pc = "copy" /\ tree[VersionOf[r]] = None
    /\ \E f \in Files :
          /\ \A t \in Targets :
                f[t] \in IF run[r].set.of[t] = None THEN {None}
                         ELSE copyFile(VersionOf[r], run[r].at, t)
          /\ run' = [run EXCEPT ![r].pc = "rename", ![r].files = f]
    /\ UNCHANGED <<counter, shelf, out, producers, built, declared, bundle, tree,
                   released, mishaps>>

(* ... that takes its place if there is none: staged releases are immutable. *)
RenameStaged(r) ==
    /\ run[r].pc = "rename" /\ tree[VersionOf[r]] = None
    /\ tree' = [tree EXCEPT ![VersionOf[r]] =
                   [code |-> run[r].set.code, set |-> run[r].set, files |-> run[r].files,
                    apply |-> run[r].apply]]
    /\ Goes(r, "staged")
    /\ UNCHANGED <<counter, shelf, out, producers, built, declared, bundle, released, mishaps>>

-----------------------------------------------------------------------------
(* release: the tree of the version, whoever staged it. *)

CheckStagedCode(r) ==
    tree[VersionOf[r]].code > shelf \/ r \in Backfill

preflightStagedCode(r) ==
    /\ run[r].pc = "staged" /\ CheckStagedCode(r)
    /\ run' = [run EXCEPT ![r].pc = "checked"]
    /\ UNCHANGED <<counter, shelf, out, producers, built, declared, bundle, tree,
                   released, mishaps>>

(* Every file is the declared one, and a payload is for the clients that get it. *)
VerifyStagedHashes_Present(w) ==     \* Mutant: the files are there, whatever they are
    \A t \in Targets : w.set.of[t] # None => w.files[t] # None

VerifyStagedHashes(w) ==
    /\ \A t \in Targets : w.files[t] = w.set.of[t]
    /\ \A t \in Targets : IsPayload(w.files[t]) =>
          /\ CheckTable(Table(w.files[t]))
          /\ CheckPublishSelectors(Table(w.files[t]), Applied(Selectors[t], w.apply[t]))

VerifyStaged(r) ==
    /\ run[r].pc = "checked" /\ VerifyStagedHashes(tree[VersionOf[r]])
    /\ run' = [run EXCEPT ![r].pc = "sound"]
    /\ UNCHANGED <<counter, shelf, out, producers, built, declared, bundle, tree,
                   released, mishaps>>

(* The server's own look at the tree. *)
validateVNextStaged(w) == w.set.code = w.code

(* The upload and the publish: the code is compared again. *)
Release(r) ==
    LET w == tree[VersionOf[r]]
    IN  /\ run[r].pc = "sound" /\ CheckStagedCode(r) /\ validateVNextStaged(w)
        /\ released' = released \cup {[by |-> r, v |-> VersionOf[r], tree |-> w]}
        /\ shelf' = IF w.code > shelf THEN w.code ELSE shelf
        /\ Goes(r, "done")
        /\ UNCHANGED <<counter, out, producers, built, declared, bundle, tree, mishaps>>

-----------------------------------------------------------------------------

Leave(r) == run' = [run EXCEPT ![r] = [Unstarted EXCEPT !.pc = "failed"]]

(* A command refuses, or fails; a producer that fails or takes too long ends. *)
CommandFails(r) ==
    /\ Active(r)
    /\ Leave(r)
    /\ producers' = IF run[r].pc = "produce" THEN producers \ MineOf(r) ELSE producers
    /\ UNCHANGED <<counter, shelf, out, built, declared, bundle, tree, released, mishaps>>

(* relkit is killed: a producer that it runs goes on. *)
KillPipeline(r) ==
    /\ run[r].pc = "produce" /\ mishaps < MaxFaults
    /\ Leave(r)
    /\ mishaps' = mishaps + 1
    /\ UNCHANGED <<counter, shelf, out, producers, built, declared, bundle, tree, released>>

(* The pipeline is run again, with a new code. *)
Again(r) ==
    /\ run[r].pc = "failed"
    /\ run' = [run EXCEPT ![r] = Unstarted]
    /\ UNCHANGED <<counter, shelf, out, producers, built, declared, bundle, tree,
                   released, mishaps>>

(* The directories of a version are removed when nobody works on it. *)
Clean(v) ==
    /\ \A r \in Clients : VersionOf[r] = v => ~Active(r)
    /\ out' = [d \in Places |-> IF d[1] = v THEN [file |-> None, set |-> None] ELSE out[d]]
    /\ bundle' = [bundle EXCEPT ![v] = None] /\ tree' = [tree EXCEPT ![v] = None]
    /\ UNCHANGED <<counter, shelf, producers, built, declared, run, released, mishaps>>

BuildNext ==
    \/ \E r \in Clients :
          \/ ClaimReleaseCode(r) \/ ClaimLost(r) \/ WriteNew(r) \/ EndMerge(r) \/ Inspect(r)
          \/ CopyStaged(r) \/ RenameStaged(r) \/ preflightStagedCode(r) \/ VerifyStaged(r)
          \/ Release(r) \/ CommandFails(r) \/ KillPipeline(r) \/ Again(r)
          \/ \E t \in Targets : Produce(r, t) \/ copyArtifactCandidate(r, t)
          \/ \E c \in Codes : Verified(r, c)
          \/ \E T \in SUBSET Targets : BeginMerge(r, T)
          \/ \E src \in Targets \cup {Merged} : BeginStage(r, src)
    \/ \E p \in producers : WriteArtifact(p)
    \/ \E v \in Versions : Clean(v)

-----------------------------------------------------------------------------
(* A release has, file by file, what a producer declared for its version and
   target under its code, whatever orphaned producers wrote between the checks and
   the copies. *)
ReleaseIsItsBuild ==
    \A p \in released, t \in Targets :
        /\ p.tree.files[t] = p.tree.set.of[t]
        /\ p.tree.files[t] # None =>
              declared[p.tree.files[t]] = [at |-> <<p.v, t>>, code |-> p.tree.code]

(* A code names one release of the pipelines that stage with --code, even if they
   may backfill. *)
CodeNamesOneRelease ==
    \A p, q \in released :
        p.by \in Strict /\ q.by \in Strict /\ p.tree.code = q.tree.code => p = q

(* A client is only offered payloads of a format it knows, made for its system;
   links in a payload without a target, which may reach windows, are refused there. *)
Hosts == {[os |-> o, osArch |-> [os |-> o, dashed |-> TRUE]] : o \in OSes}

Offers(w) == {Applied(Selectors[t], w.apply[t]) : t \in {u \in Targets : w.files[u] # None}}

PayloadsFit ==
    \A p \in released, host \in Hosts, prefs \in {{V1}, {V1, V2}}, t \in Targets :
        LET sel == Applied(Selectors[t], p.tree.apply[t])
            table == Table(p.tree.files[t])
        IN  IsPayload(p.tree.files[t])
            /\ sel \in SelectArtifactPreferring(Offers(p.tree), host, prefs) =>
              /\ table.schema \in prefs
              /\ TargetOS(sel) # None => checkUnitSupported(table, host.os)
=============================================================================

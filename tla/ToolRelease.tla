------------------------------ MODULE ToolRelease ------------------------------
(***************************************************************************)
(* The tools that build machines fetch from the agent (cmd/relkit-agent    *)
(* tools.go, catalog.go; internal/vnext/tools, internal/vnext/catalog).    *)
(* A deploy pipeline uploads the files of a version and asks for it to be  *)
(* published: every file gets a signature beside it, then a manifest and   *)
(* the catalog, which names the current version, are written.  None of it  *)
(* is locked: pipelines and hosts overlap, and a pipeline may end anywhere.*)
(*                                                                         *)
(* Abstractions.  A body stands for its digest, a signature for the body   *)
(* it was made of.  A file that is written in place is Torn meanwhile; one *)
(* that is renamed never is.  A tool is a component on a platform.  The    *)
(* sequence of the catalog is left out: nobody reads it.                   *)
(***************************************************************************)
CONSTANTS
    Versions,    \* numbers under which tools are published
    Tools,       \* the files of a version
    Bodies,      \* what a build may produce for a file
    Pipelines,   \* runs of the deploy pipeline, each at most once
    Torn, None

VARIABLES
    tool,        \* tool[v][t]: the file in the directory of the version
    sig,         \* sig[v][t]: the signature beside it
    manifest,    \* manifest[v]: the body of every tool of the version
    catalog,     \* the current version and the rows of the published ones
    pipe,        \* where each pipeline is
    host,        \* the build machine that fetches a tool
    replaced     \* history: files that an upload put in the place of others

tools == <<tool, sig, manifest, catalog, pipe, host, replaced>>

Rows == [Tools -> Bodies \cup {None}]

NoRows == [t \in Tools |-> None]

NoCatalog == [current |-> None, releases |-> [v \in Versions |-> NoRows]]

Waiting == [at |-> "waiting", version |-> None, build |-> NoRows, todo |-> {},
            name |-> None, rows |-> NoRows, read |-> NoCatalog]

Ended == [Waiting EXCEPT !.at = "ended"]

Away == [at |-> "away", tool |-> None, pinned |-> None, version |-> None,
         body |-> None, moved |-> FALSE, torn |-> FALSE]

ToolsInit ==
    /\ tool = [v \in Versions |-> NoRows]
    /\ sig = [v \in Versions |-> NoRows]
    /\ manifest = [v \in Versions |-> None]
    /\ catalog = NoCatalog
    /\ pipe = [p \in Pipelines |-> Waiting]
    /\ host = Away
    /\ replaced = {}

Built(rows) == {t \in Tools : rows[t] # None}

-----------------------------------------------------------------------------
(* A run of the pipeline. *)

(* It has built some of the tools of a version (relkit_tools_publish.py). *)
BeginPipeline(p) ==
    /\ pipe[p].at = "waiting"
    /\ \E v \in Versions, build \in Rows :
          /\ Built(build) # {}
          /\ pipe' = [pipe EXCEPT ![p] = [Waiting EXCEPT !.at = "upload", !.version = v,
                                            !.build = build, !.todo = Built(build)]]
    /\ UNCHANGED <<tool, sig, manifest, catalog, host, replaced>>

(* putTool looks whether the file is there.  The same bytes are accepted once
   more, others refused; a new file is received first. *)
StatTool(p) ==
    LET q == pipe[p] IN
    /\ q.at = "upload"
    /\ \E t \in q.todo :
          LET there == tool[q.version][t] IN
          pipe' = [pipe EXCEPT ![p] =
              IF there = None THEN [q EXCEPT !.at = "receive", !.name = t]
              ELSE IF there = q.build[t] THEN [q EXCEPT !.todo = @ \ {t}]
              ELSE Ended]
    /\ UNCHANGED <<tool, sig, manifest, catalog, host, replaced>>

(* The body is complete and renamed into place, whatever is there by now. *)
PutTool(p) ==
    LET q == pipe[p] IN
    /\ q.at = "receive"
    /\ tool' = [tool EXCEPT ![q.version][q.name] = q.build[q.name]]
    /\ replaced' = IF tool[q.version][q.name] \in {None, q.build[q.name]} THEN replaced
                   ELSE replaced \cup {<<q.version, q.name>>}
    /\ pipe' = [pipe EXCEPT ![p].at = "upload", ![p].todo = @ \ {q.name}]
    /\ UNCHANGED <<sig, manifest, catalog, host>>

(* handleToolPublish compares what is on disk with what was declared, file by
   file ... *)
BeginPublish(p) ==
    /\ pipe[p].at = "upload" /\ pipe[p].todo = {}
    /\ pipe' = [pipe EXCEPT ![p].at = "hash", ![p].todo = Built(pipe[p].build)]
    /\ UNCHANGED <<tool, sig, manifest, catalog, host, replaced>>

HashTool(p) ==
    LET q == pipe[p] IN
    /\ q.at = "hash"
    /\ \E t \in q.todo :
          pipe' = [pipe EXCEPT ![p] = IF tool[q.version][t] = q.build[t]
                                      THEN [q EXCEPT !.at = "sign", !.name = t]
                                      ELSE Ended]
    /\ UNCHANGED <<tool, sig, manifest, catalog, host, replaced>>

(* ... reads it a second time, signs what it read, and overwrites the signature. *)
SignTool(p) ==
    LET q == pipe[p] IN
    /\ q.at = "sign"
    /\ sig' = [sig EXCEPT ![q.version][q.name] = Torn]
    /\ pipe' = [pipe EXCEPT ![p].at = "signed", ![p].rows[q.name] = tool[q.version][q.name]]
    /\ UNCHANGED <<tool, manifest, catalog, host, replaced>>

WriteSignature(p) ==
    LET q == pipe[p] IN
    /\ q.at = "signed"
    /\ sig' = [sig EXCEPT ![q.version][q.name] = q.rows[q.name]]
    /\ pipe' = [pipe EXCEPT ![p].at = "hash", ![p].todo = @ \ {q.name}]
    /\ UNCHANGED <<tool, manifest, catalog, host, replaced>>

(* The manifest is overwritten in place (writeToolManifest). *)
SignManifest(p) ==
    LET q == pipe[p] IN
    /\ q.at = "hash" /\ q.todo = {}
    /\ manifest' = [manifest EXCEPT ![q.version] = Torn]
    /\ pipe' = [pipe EXCEPT ![p].at = "manifest"]
    /\ UNCHANGED <<tool, sig, catalog, host, replaced>>

WriteManifest(p) ==
    LET q == pipe[p] IN
    /\ q.at = "manifest"
    /\ manifest' = [manifest EXCEPT ![q.version] = q.rows]
    /\ pipe' = [pipe EXCEPT ![p].at = "catalog"]
    /\ UNCHANGED <<tool, sig, catalog, host, replaced>>

(* Mutant: the catalog is written before the manifest. *)
LoadCatalog_First(p) ==
    /\ pipe[p].at = "hash" /\ pipe[p].todo = {}
    /\ pipe' = [pipe EXCEPT ![p].at = "merge", ![p].read = catalog]
    /\ UNCHANGED <<tool, sig, manifest, catalog, host, replaced>>

(* writeCatalog reads the catalog, puts the rows in and renames the new one
   over it. *)
LoadCatalog(p) ==
    /\ pipe[p].at = "catalog"
    /\ pipe' = [pipe EXCEPT ![p].at = "merge", ![p].read = catalog]
    /\ UNCHANGED <<tool, sig, manifest, catalog, host, replaced>>

WriteCatalog(p) ==
    LET q == pipe[p] IN
    /\ q.at = "merge"
    /\ catalog' = [current |-> q.version,
                   releases |-> [q.read.releases EXCEPT ![q.version] = q.rows]]
    /\ pipe' = [pipe EXCEPT ![p] = Ended]
    /\ UNCHANGED <<tool, sig, manifest, host, replaced>>

(* A request is cut off, a file operation fails, or the agent dies. *)
PipelineFails(p) ==
    /\ pipe[p].at \notin {"waiting", "ended"}
    /\ pipe' = [pipe EXCEPT ![p] = Ended]
    /\ UNCHANGED <<tool, sig, manifest, catalog, host, replaced>>

-----------------------------------------------------------------------------
(* A host fetches a tool and its signature, of a version it pinned or of the
   current one, which is looked up for each of the two requests. *)

BeginFetch ==
    /\ host.at = "away"
    /\ \E t \in Tools :
          \E v \in {None} \cup {w \in Versions : catalog.releases[w][t] # None} :
             host' = [Away EXCEPT !.at = "resolve", !.tool = t, !.pinned = v]
    /\ UNCHANGED <<tool, sig, manifest, catalog, pipe, replaced>>

Failed == [host EXCEPT !.at = "failed"]

(* currentToolVersion: no catalog, no current version. *)
Resolved(at) ==
    LET v == IF host.pinned = None THEN catalog.current ELSE host.pinned IN
    IF v = None THEN Away
    ELSE [host EXCEPT !.at = at, !.version = v,
                      !.moved = host.body # None /\ host.version # v]

Resolve ==
    /\ host.at \in {"resolve", "again"}
    /\ host' = Resolved(IF host.at = "resolve" THEN "get" ELSE "verify")
    /\ UNCHANGED <<tool, sig, manifest, catalog, pipe, replaced>>

(* The manifest says which file it is and what its digest must be.  One that
   does not have the tool is an answer, one that cannot be read is not. *)
Asked(host1) ==
    LET m == manifest[host.version] IN
    IF m = Torn THEN [Failed EXCEPT !.torn = TRUE]
    ELSE IF m = None THEN Failed
    ELSE IF m[host.tool] = None THEN Away
    ELSE host1

(* The file goes out with the digest of the manifest, which the host compares. *)
Serve ==
    /\ host.at = "get"
    /\ host' = LET body == tool[host.version][host.tool] IN
               Asked(IF body # manifest[host.version][host.tool] THEN Failed
                     ELSE [host EXCEPT !.at = "again", !.body = body])
    /\ UNCHANGED <<tool, sig, manifest, catalog, pipe, replaced>>

(* The signature goes out, ssh-keygen verifies it, and the tool is run. *)
VerifyTool ==
    /\ host.at = "verify"
    /\ host' = LET s == sig[host.version][host.tool] IN
               Asked(IF s = Torn THEN [Failed EXCEPT !.torn = TRUE]
                     ELSE IF s # host.body THEN Failed
                     ELSE [host EXCEPT !.at = "run"])
    /\ UNCHANGED <<tool, sig, manifest, catalog, pipe, replaced>>

FetchEnds ==
    /\ host.at \in {"run", "failed"}
    /\ host' = Away
    /\ UNCHANGED <<tool, sig, manifest, catalog, pipe, replaced>>

ToolsNext ==
    \/ \E p \in Pipelines :
          \/ BeginPipeline(p) \/ StatTool(p) \/ PutTool(p) \/ BeginPublish(p)
          \/ HashTool(p) \/ SignTool(p) \/ WriteSignature(p) \/ SignManifest(p)
          \/ WriteManifest(p) \/ LoadCatalog(p) \/ WriteCatalog(p) \/ PipelineFails(p)
    \/ BeginFetch \/ Resolve \/ Serve \/ VerifyTool \/ FetchEnds

-----------------------------------------------------------------------------
(* A fetch ends with a tool whose signature verifies.  It fails for one of
   three reasons only: another version became the current one between its two
   requests, it read a file while it was overwritten, or two pipelines uploaded
   different files under one version at the same time. *)
HostGetsTool ==
    host.at = "failed" => host.moved \/ host.torn \/ replaced # {}
=============================================================================

# A TLA+ model of relkit

relkit publishes releases of a product to one or more storage backends and
updates installed programs from them. This directory models the parts of it whose
correctness depends on order, failure and concurrency, checks them with TLC on
small instances, and proves the most important properties with TLAPS.

1. [The system](#1-the-system) and what is hard in it
2. [Modules](#2-modules): what models what, action by action
3. [Runs](#3-runs): instances, bounds, fairness, refinement
4. [Proofs](#4-proofs)
5. [Divergences](#5-divergences) between the code and what is said of it
6. [Not modelled](#6-not-modelled)
7. [Plan](#7-plan)

## 1. The system

| Component | State | Operations | Interacts with | Modules |
|---|---|---|---|---|
| version chain (`internal/chain`) | none (functions of an index) | next target, upgrade path, head, reachability | publisher and updater evaluate it | `UpgradeChain`, `ChainIndexes` |
| publish, unpublish (`internal/publish`) | index, manifest, artifact, CAS and web documents on every backend | `Run`, `Unpublish`, sweep of dropped blobs | backends, one remote call per write | `ReleasePublish` |
| retirement (`publish/retire.go`) | the same | `Retire` | registrations | `ProductAdmin` |
| backends (`internal/backends`) | objects behind S3 or relkit-store | put, get, head, promote, delete, multipart | remote stores | `ReleasePublish`, `StorePlane`, `CasUpload` |
| store (`cmd/relkit-store`) | a directory tree, upload leases, collector | GET, PUT, COPY, DELETE, CAS tickets, collection | publisher, CI, clients | `StorePlane` |
| store credentials (`cmd/relkit-store/init.go`, `config.go`) | configuration, token files | the `init` commands, start-up | installer, publishers | `StoreTokens` |
| publish agent (`cmd/relkit-agent`) | staged trees, answers, product locks, site trigger | staged upload, publish, unpublish | CI, publisher package, site | `AgentRequests` |
| chunked uploads (`staged_upload.go`, `internal/stagedput`) | upload directories, locks in memory | create, part, complete, abort, expiry | CI | `StagedUpload`, `Uploads` |
| CAS uploads (`cas_upload.go`, `internal/casput`) | blobs, multipart uploads, transfers of a job | credentials, PUT, complete, abort | CI, backends | `CasUpload`, `Uploads` |
| administration (`internal/agentadmin`, `cmd/relkit-agent/admin.go`) | one document in memory, its file, the view requests are authorised from | products, tokens, codes; accounts, sessions | operators, publishers | `ProductAdmin`, `OperatorAccounts` |
| tools (`cmd/relkit-agent/tools.go`, `catalog.go`) | tool files, signatures, manifest, catalog | upload, publish, fetch | deploy pipelines, build machines | `ToolRelease` |
| directory, runtime profile (`internal/directory`) | one signed pointer per product and backend | `Set` | publish handler, clients | `ServiceDirectory` |
| site (`internal/site`) | dump of web documents, fingerprint, members | rebuild, deploy to sinks | agent trigger, backends | `AgentRequests`, `SiteRebuild` |
| verification (`internal/verify`) | none | reads back what was released | publish handler | `ReleasedVerification` |
| updater (`internal/updater`) | apply lock, sessions, plans, staging, installation | check, skip, download, apply, library operations, sweep | host program, indexes, stores | `ApplySession`, `UpdaterData`, `TreeInstall`, `BundleInstall`, `LibraryInstall` |
| client library (`internal/inprocess`, `internal/sdk`) | sequences it has seen, partial downloads | check, download of an artifact | directory, index, mirrors | `InProcessClient`, `ArtifactDownload` |
| keys (`internal/custody`, `keys`, `vnext/ops/key.go`) | key documents, custody manifest | generate, rename, start of the agent | operators, hosts that pin | `KeyCustody` |
| panel (`cmd/relkit-console`) | signing key, cookie, pages | sign in, write, sign out | agent | `Panel` |
| deployment (`scripts/deploy`, `scripts/ci`) | files of a box, snapshots, units | upgrade, rollback, migration, tool releases | store, agent, console | `ServerDeploy`, `ServeMigration`, `ToolRelease` |
| publisher CLI (`cmd/relkit`, `internal/vnext/release`, `producer`, `artifactset`, `internal/stage`) | release codes, output directories, merged and staged trees | claim a code, produce, merge, stage, release | producers, agent | `ReleaseBuild` |
| payload, selectors (`internal/payload`, `selectors`) | none | format of a file table, checks, selection of an artifact | publisher, agent and updater evaluate it | `ReleaseBuild` |
| drop exchange, operations, documents, configuration | local files | see [Not modelled](#6-not-modelled) | | |

What is hard in it:

* **Several mirrors, no transaction.** A publish writes artifacts, manifests,
  the signed index and the web documents with one remote call each, to every
  backend. Any call may fail, may take effect and report a failure, or may be the
  last one before the agent dies.
* **Collectors.** The store removes what no index names, and the publisher
  sweeps blobs of dropped releases, beside publishes in flight.
* **Plans made before and executed after long uploads.** The index is read and
  validated first and written last.
* **Handlers that check before they lock**, replayed requests, triggers that
  are coalesced, codes allocated from two sources.
* **Copies that drift**: the administration document in memory, on disk and in
  the view of the handlers; configuration and token files; pages and cookies.
* **Files as the only memory**: lock files, journals, plans, partial downloads
  and snapshots are all that is left after a process died at any step.
* **Clients in the field** run any release that was ever listed and must be
  able to move on.

The hazards, with the lines where they bite and the properties that watch them,
are listed in `PROJECT.json`.

## 2. Modules

A component's module has its state as variables and one action per step that other
processes can observe. Five modules compose components:

| Composition | Of | Because |
|---|---|---|
| `InstallModes` | `TreeInstall`, `BundleInstall`, `LibraryInstall` | the worker writes a release in one of three ways, by the placement and the unit of the root |
| `InProcessClient` | extends `ServiceDirectory` | the client reads what publish and directory write meanwhile |
| `Uploads` | `ReleaseBuild`, `StagedUpload`, `CasUpload` | a CI job builds and stages its release, and brings it to the agent in one of two ways |
| `Administration` | `ProductAdmin`, `OperatorAccounts`, `ToolRelease`, `ServerDeploy`, `KeyCustody`, `StoreTokens`, `ServeMigration` | what operators do to a box; each keeps its own account of the one file two of them write |
| `Readers` | `SiteRebuild`, `InProcessClient`, `ChainIndexes`, `ArtifactDownload`, `ReleasedVerification`, `Panel` | those who read published documents without a lock |

In `Uploads`, `Administration` and `Readers` the parts share no state. A
behaviour therefore follows one of them (`way`, `task`, `reader` say which), so that
interleavings that cannot matter are not explored, and the parameters and their
assumptions stand in one place. `ReleasePublish` uses `UpgradeChain` for the
reachability check. `Installation` is the abstract specification that
`BundleInstall` implements. The `MC...` modules hold instances only; `ApplySession`,
`UpdaterData` and `InProcessClient` are checked without one. The `...Proofs` modules hold the
theorems (section 4).

`ReleasePublish` and `AgentRequests` look at the same publish from two sides: the
first takes for granted that one job runs at a time and has every remote write of
it; the second has the concurrent requests and shows that the product lock makes it
so (`HandlersOK`), with `publish.Run` reduced to its read and its pointer write.

The tables below give the main actions; `PROJECT.json` maps every definition to its
lines.

### ReleasePublish

The objects of the stores are variables indexed by backend: `index[b][ch]`,
`manifest[b][v]`, `artifact[b][v]`, `cas[b]`, and the derived web documents
`latest`, `channel`, `release`. `job` is the publish or unpublish that holds the
product lock (`server.go:590`), `gc` what a collector round has marked,
`listed` a history variable.

A manifest is identified by the attempt that wrote it. Since an index node
carries the digest of its manifest, the node is the same value as the manifest, and
`Served(n, b)` says that the digest and the artifact check out at `b`.

| Action | Code |
|---|---|
| `BeginPublish` | `publish.Run` up to the first upload: read the index of every target, refuse divergence, non-monotonic codes and unreachable chains, plan the new index |
| `PutArtifact`, `ArtifactFails` | `putOne`: CAS upload or promotion at the ingest backend, then copies to the replicas |
| `PutManifest`, `ManifestFails` | the manifest loop |
| `PutIndex`, `IndexFails` | the pointer loop, which goes on after a failure |
| `DeleteRelease`, `WriteWeb` | `deleteReleaseDoc`, `writeWebPointers`, `rewriteWebPointersAfterRemoval` |
| `SweepCAS` | `sweepOrphanCAS` |
| `BeginUnpublish` | `unpublishOnBackends` up to the pointer loop |
| `Reply`, `Crash` | the answer; the death of the agent at any point |
| `UploadBlob` | CI uploads an artifact to its content-addressed key |
| `GCScan`, `GCSweep` | the mark and the removal of `gcOnce` |

`Visited` is the loop over backends: it closes the visit of one and enters
the next phase after the last. `*Fails` actions choose whether the write took effect.

Left out because they change no published state: signing and
verification of envelopes, the publisher handshake, changelogs, dry runs. A build has
one artifact; `allowPartial` is refused by the code before anything is read.

### AgentRequests

State that survives a death of the agent: `tree[v]` and `sha[v]`, the staging
directory of a version and the digest recorded for it; `saved[t]`, the answer
remembered under the key of digest `t`; `listed` and `diverged`, the signed index
on the backends; `stale`, whether the web documents of some backend lag behind it (their
failures are warnings, and the site is made of them); `site`. State that does not:
`lock`, the handlers `req[r]`, and the flags `pending`, `running` and goroutines
`worker[w]` of the rebuild. `told`, `removed`, `asked`, `seen`, `behind` are history
variables.

| Action | Code |
|---|---|
| `Conflict` | `TryLock` fails at the first look (`server.go:807`, `unpublish.go:77`) |
| `BeginPut`, `Extract`, `Record`, `ExtractFails`, `RecordFails` | `installStagedArchive`, `writeStagedSHA` |
| `MatchStaged`, `Replay` | the digest check and `loadIdempotent`, both before the lock |
| `LockAndLoad` | `TryLock`, then the staged tree as it is by now |
| `Plan`, `Commit`, `PlanFails`, `CommitFails` | `publish.Run`: index read, pointer written; refused; partial commit |
| `Remember`, `ConfirmFails`, `AnswerPublish` | directory, verification and `saveIdempotent`; their failures; answer, trigger, unlock |
| `BeginUnpublish`, `Remove`, `RemoveFails`, `AnswerUnpublish` | `handleUnpublish` |
| `TriggerSiteRebuild`, `BeginRebuild`, `EndRebuild` | `triggerSiteRebuild` and the loop of its goroutine |
| `Panic`, `Restart` | the deferred recovery, in two steps as in the code |
| `Crash` | the agent dies at any point and starts again |

A tree stands for its digest and for the release made of it. `Workers` is the
number of goroutines that can be alive at once; it must exceed `MaxPanics`, since
every further one comes from a recovery that has not asked again yet.

### Store and uploads

`StorePlane` has files and temporary files, leases and tickets, the requests under way
(`writer[w]`) and the collector (`gc`), one file-system call per step. A body has two
halves: enough to tell a file that is short, torn or of mixed origin.

| Action | Code |
|---|---|
| `Mint`, `PutBlob` | `serveCASMint`, `verifyCASCapability` |
| `Accept`, `PutDocument`, `PutCopy`, `Write`, `Fail`, `Rename`, `Verify` | `upload`, `uploadCopy`, `commitUpload`: the shared temporary file, the rename, the digest check after it |
| `Delete` | `deleteObject` |
| `StartRound`, `ReadIndex`, `ReadLatest`, `ReadManifest` | the mark of `gcOnce`, file by file |
| `ListPrefix`, `Look`, `Remove` | its removal: list, stat, remove |
| `Tick`, `Crash` | leases and grace run out; the store restarts and forgets leases |

`StagedUpload` has uploads as directories (record, parts) with locks that live in
memory, and the clients of `internal/stagedput`.

| Action | Code |
|---|---|
| `Find`, `Create` | `createUpload`, `findOpenUpload` |
| `SendPart`, `StorePart`, `RecordPart` | `putUploadPart` before, at and after the write, under the lock of the upload |
| `BeginComplete`, `Assemble`, `Install`, `Finish`, `Reopen` | `completeUpload` |
| `BeginAbort`, `Abort`, `Loads`, `Drop` | `abortUpload`, `expireUploads`: no lock |
| `Crash`, `Tick` | restart of the agent; time |

`CasUpload` has the area of blobs, the multipart uploads and the transfers of each job:
`AuthorizeBlob`, `AuthorizeFails` (`handleCASCredentials`), `Take`, `PutSucceeds`,
`PutRetried`, `PutFails`, `CompleteSucceeds`, `CompleteFails`, `Cancelled`
(`runTransfer`, `uploadOne`, `completeBlob`), `UploadEnds`, `AbortBlob`, `AbortEnds`
(`uploadAll`, `handleCASAbort`), `Publish`, `PublishFails`, `Rerun`
(`agentpublish.Run`), `Sweep` (`sweepOrphanCAS`). `Uploads` has
`resolvePartSize`, `partLength` and `casMultipartPlan` as functions.

`ReleaseBuild` is what comes before: pipelines (`run[r]`) that share a workspace. It has the
code counter and the shelf of the server (`counter`, `shelf`), per version and target the output
directory (`out`: artifact and artifact set), per version the merged directory and the
staged tree (`bundle`, `tree`), the executions of producers (`producers`, `built`, and as a
history `declared`: what each was for) and what the server published (`released`). The digest
of a file is the execution that made it.

| Action | Code |
|---|---|
| `ClaimReleaseCode`, `ClaimLost` | `cmdReleaseCode`, `NextReleaseCode`: the code is spent, whether or not the answer arrives |
| `Produce`, `Verified`, `WriteNew` | `producer.Run`: the directory must be empty, then the producer runs; its output is verified, then the artifact set is written once |
| `WriteArtifact` | an external producer, also one whose `relkit` was killed (`KillPipeline`, `extension.Run`) |
| `BeginMerge`, `copyArtifactCandidate`, `EndMerge` | `cmdArtifactsMerge`: sets of one identity, file by file into a temporary directory, verified, renamed |
| `BeginStage`, `Inspect`, `CopyStaged`, `RenameStaged` | `release.Stage`: files are verified, opened as payloads, and copied, in this order and each time anew; a tree that is there is not replaced |
| `preflightStagedCode`, `VerifyStaged`, `Release` | the code against the shelf, `VerifyStagedHashes`, the upload with `validateVNextStaged` and the publish |
| `CommandFails`, `Again`, `Clean` | a refusal or an error at any point, the pipeline run again with a new code, directories removed between runs |

`ApplySelectorFor`, `CheckTable`, `CheckPublishSelectors` (publisher and agent), `checkUnitSupported`
(updater) and `SelectArtifactPreferring` (client) are functions of a file table and of selectors.

### Administration of a box

| Module | State | Actions and their code |
|---|---|---|
| `ProductAdmin` | `doc`, `disk`, `view`: document in memory, in its file, as requests see it; indexes and directory at the backends | `IssueToken`, `RotateToken`, `RevokeToken`, `AddProduct`, `FirstToken`, `RemoveProduct` (`admin.go`); `ReloadProducts`, `ReloadCredentials`, `ReloadDone` (`reloadAdmin`); `BeginClaim`, `ReadFloor`, `AllocateReleaseCode` (`releasecode.go`); `BeginRetire`, `RetireChannel`, `RetireDirectory`, `RetireFails`, `Retired` (`retire.go`); `Publish`, `Unpublish`, `Crash` |
| `OperatorAccounts` | the accounts in memory and on disk, sessions, requests, the second process of `init -bootstrap` | `MintBootstrap`, `CreateFirstUser`, `Authenticate`, `NewSession`, `DropSession`, `Admit`, `AddUser`, `SetPassword`, `SetUserProducts`, `SetRole`, `DeleteUser`, `OpenCommand`, `Restart`; each may fail to persist and put back what it changed |
| `ToolRelease` | files, signatures, manifest, catalog; two pipelines, a build machine | `StatTool`, `PutTool` (`putTool`); `HashTool`, `SignTool`, `WriteSignature`, `SignManifest`, `WriteManifest`, `LoadCatalog`, `WriteCatalog` (`handleToolPublish`); `Resolve`, `Serve`, `VerifyTool` (`relkit-tool-verify.sh`) |
| `ServerDeploy` | files by the apply that wrote them, running units, who holds the port, snapshots | `BeginApply` fixes the program of steps; `Backup`, `RetireLegacy`, `Load`, `MergeAdmin`, `WriteFile`, `Restart`, `RequireRunning`, `RequireListener`, `Probe` run it; `StepFails`, `CutShort`, `Killed`; `RollBack`, `CopyBack`, `RollbackFails`, `RolledBack`; `Succeeds`, `PruneByHand` |
| `KeyCustody` | key documents, commands under way, the agent's root, a host's pin | `Generate`, `ReissueKeyPair`, `OpenNew`, `WriteNew`, `WriteFails`, `Killed` (`key.go`); `PublicKey`, `PrivateSeed`, `StartAgent` (`custody.go`, `LoadConfig`); `ConnectConfig`, `Verifies` |
| `StoreTokens` | `config`, `token` files, the command under way; history: tokens told, tokens revoked | `runInit`, `RotateOperator`, `runInitProduct`, `RotateProduct`, `runInitShareProduct`, `runInitRemoveProduct`, `InstallServe`; `writeTokenFile`, `WriteSkeleton`, `WriteAdded`, `PromoteFile`, `WriteShared`, `WriteRemoved`, `RemoveFile`, `CutShort`; `Loads`, `CredentialsFromFileConfig` |
| `ServeMigration` | the old and the new unit, configuration and token directory | `BeginMigration`, `WriteConfig`, `CopyOperator`, `CopyTokens`, `WriteUnit`, `SwapUnits`, `StartStore`, `CutMigration`, `Trouble`, `Reboot`, `ClearConfig` |

### The updater

`ApplySession` has the lock file of an install root, the engine process of each
request and its worker: `Create`, `Write`, `Found`, `RemoveStale`, `Release`
(`acquireApplyLockAt`), `SaveSession`, `Launch` (`handleApply`), `RefreshOpen`,
`RefreshWrite` (the worker rewrites the lock), `Poll`, `HostLeft`, `GiveUpWaiting`
(`waitForHostExit`), `Download`, `Copy`, `Written`, `RolledBack`, `Relaunch`,
`Complete` (`RunWorker`), `Operated` (switch, rollback and delete of a library),
`hostMustExit`, and the deaths of engines and workers.

`UpdaterData` has what several engines and the worker keep in one directory without
a lock: state, plans, staging, sessions. `BeginCheck`, `SweepPlans`,
`SweepStaging`, `Fetch`, `buildPlan`, `savePlan`, `Offer`, `BeginSkip`, `Skip`, `BeginDownload`,
`DownloadFile`, `Mark`, `Accept`, `BeginCleanup`, `Clean` are the requests; `Wait`,
`WorkerFetch`, `WorkerSave` the worker as far as it uses a plan. A check and a skip read the
state first and write it last, `OpenState` and `CloseState` (`atomicWrite`); those who write at
the same time share its temporary file, and then one copy is left or an empty one
(`CloseShared`). Three histories name what the code does not promise when engines run at once:
`kept` has the skips that were answered when nobody else was about to write a state without
them, `disputed` the codes of records that two requests held at once, `raced` the applies
that were accepted while a sweep was under way.

| Module | Actions |
|---|---|
| `TreeInstall` (`applyReconcile`, `rollbackJournal`) | `MoveAside`, `WriteEntry`, `EntryFails`, `Drop`, `SaveBaseline`, `Commit`, `Clean`, `Restore`, `RestoreFails`, `Dies`, and `UserEdits` of the user beside it |
| `BundleInstall` (`applySwap`, `recoverSwap`) | `Restore`, `SweepOld`, `SweepPartial`, `Build`, `Fill`, `Exchange`, `Aside`, `Inside`, `GiveUp`, `CommitPartial`, `CommitOld`, `WorkerDies` |
| `LibraryInstall` (`applyLibrary`, `pruneVersions`) | `SetAside`, `Materialize`, `RenameIn`, `WriteActive`, `PruneOne`, `Switch`, `Rollback`, `Delete`, `Run`, `Quit`, `WorkerDies` |

### Readers

| Module | Actions |
|---|---|
| `ServiceDirectory` | a job previews (`readBaseSequence`), writes the index (`PutIndex`, `IndexFails`) and then the directory (`PutDirectory`, `DirectoryFails`, which ends the loop) |
| `InProcessClient` | `CheckForce`, `loadDirectory`, `SkipDirectory`, `checkIndex`, `SkipIndex`, `FetchFails`, `EngineDies` |
| `ChainIndexes` | grows every index node by node (`List`, `Support`) to compare the functions of `UpgradeChain` with what is reachable |
| `ArtifactDownload` | `StartChunks`, `Start`, `WriteAt`, `WritePartMeta`, `RangeFails`, `GiveUp`, `LateMeta`, `StartStream`, `Stream`, `Verify`, `Rename`, `Die` |
| `SiteRebuild` | `Rebuild`, `collect`, `guardCompleteSnapshot`, `Build`, `Deploy`, `DeployFails`, `Record`, `writeMembers`, beside `Write` and `Retire` of publishers |
| `ReleasedVerification` | `ReadIndex`, `checkManifest`, `Compare`, `FindReleased`, `ReadReleased`, `ReadDirectory`, `ReadProfile`, `Finish`, beside `PublishNext` |
| `Panel` | pages ask (`AskSession`, `Login`, `Setup`, `Write`, `Logout`), the panel answers (`serveAPISession`, `serveAPILogin`, `requireAPIAuth`, `Forward`), the browser takes cookies from late answers (`Receive`), restarts and lost answers |

## 3. Runs

| Run | Module, specification | Bounds | Shows |
|---|---|---|---|
| `PublishAll` | `ReleasePublish`, `Spec` | two interchangeable mirrors, every request names both; three releases of one artifact; retention 2; three jobs | `EveryMirrorServes`, `WebNeverAhead`, `SequenceNamesOneIndex`, `AnswerIsTrue`, `ReleaseLeavesOnPurpose` |
| `PublishSubsets` | the same | requests name any subset of two mirrors; retention off | `ListedIsServed`, `SequenceGrows` |
| `PublishCollect` | the same | one backend, two channels that share an artifact, retention 1, backfill, collector, CI uploads, another product on the store | `SweepKeepsNamed`, `CollectorKeepsSettled` |
| `AgentSerialised` | `AgentRequests`, `FairSpec` | three requests of any kind, two versions, one crash, one panic, two goroutines | `TypeOK`, `ToldIsListed`, `SiteShowsAnswered`, `TriggerIsServed` |
| `ApplyExclusive` | `ApplySession`, `FairSpec` | two requests, two starts of the host, one death | `ApplyIsExclusive`, `HostMayStart` |
| `InstallModes` | `InstallModes`, `Spec` | three paths and two trees, one path preserved; three bundles; four plans under three version strings, `Retain` 2 | `TreeHolds`, `ReplacedAtOnce`, `LibraryHolds` |
| `UpdaterData` | `UpdaterData`, `FairDataSpec` | two engines that check, skip and download at one moment, or one after another with applies, cleanups and the clock; two plan ids, one release, a plan lives one step of three, one session | `LiveKeepsFiles`, `AnswersHold`, `StagingReclaimed` |
| `StorePlane` | `StorePlane`, `FairSpec` | two indexes, two releases, two requests at a time, wrong bodies, one restart | `ServedIsWhole`, `KeepsListed`, `OrphansGo` |
| `Uploads` | `Uploads`, `FairSpec` | two jobs; one archive in two parts and three upload ids; a large and a small blob, two attempts, one fault; sizes 1 to 14; two pipelines of one version, a tree for darwin and a sealed bundle with links for windows, two codes, two executions, one fault | `UploadIsWhole`, `JobLeavesBlobs`, `RetriesSucceed` |
| `Administration` | `Administration`, `Spec` | two requests, tokens, backends, channels and codes; three accounts; two tool versions, two pipelines; two upgrades of a unit each, one kept snapshot; two operators with keys; two store products, four tokens; three faults of a migration; otherwise one fault | `WithdrawnOpensNothing`, `RegistrationHolds`, `AccountsHold`, `HostGetsTool`, `OutcomeIsTrue`, `TokensSurvive`, `KeysHold` |
| `ReaderSide` | `Readers`, `Spec` | two products, sinks and mirrors; three jobs; indexes of three nodes over codes to 4; three mirrors of an artifact of three chunks, three retries, two errors, two deaths; two defects, two foreign writes; two pages, two bearers, one fault | `CheckAnswers`, `VerdictIsExact`, `EndsWithArtifact`, `VerdictHolds`, `ActsAsShown`, `ShelfKeeps` |
| `StaleReported` | `InProcessClient`, `CheckSpec` | the directory may name one of two mirrors | refutes `StaleIsNoError` |

What the properties say is in the comment before each of them; in short:

* `EveryMirrorServes`, `ListedIsServed`: what an index lists has its manifest and artifact
  on that backend, at every moment. `SequenceGrows`, `SequenceNamesOneIndex`: no
  sequence is rewound, and none names two indexes.
* `WebNeverAhead`, `AnswerIsTrue`, `ReleaseLeavesOnPurpose`: web documents, answers and
  departures follow what was committed.
* `SweepKeepsNamed`, `CollectorKeepsSettled`, `KeepsListed`, `OrphansGo`: the two collectors
  take nothing that stays named, and the store's takes everything else in the end.
* `ToldIsListed`, `SiteShowsAnswered`, `TriggerIsServed`: what callers were told stays listed
  until somebody removes it; the site catches up, and shows nothing that is not listed but
  what an unpublish is about to answer for.
* `ApplyIsExclusive`: two are at work only if a live lock was removed (section 5), a writer
  keeps the host out, a host that is started again may stay. `HostMayStart`: nobody
  keeps it out for good.
* `TreeHolds`, `ReplacedAtOnce`, `LibraryHolds`: an install is old or new, the user's files and
  the versions in use stay, the active version is there.
* `LiveKeepsFiles`, `AnswersHold`, `StagingReclaimed`: sweeps spare what a worker needs and
  reclaim the rest; one plan per answer; a skip that was answered is neither forgotten nor
  offered again, whatever other engines do from then on. Exempt are the three races of
  section 5, by `raced`, `disputed` and `kept`.
* `ServedIsWhole`, `UploadIsWhole`, `JobLeavesBlobs`, `RetriesSucceed`: readers see whole
  files, uploads are complete and installed once, leave nothing open, and a job that is
  repeated succeeds. `UploadIsWhole` also says of what is uploaded that each file is what a
  producer declared for this version, target and code (`ReleaseIsItsBuild`), that a code names one
  release of the pipelines that stage with `--code` (`CodeNamesOneRelease`), and that a client
  that picks a payload knows its format and can install its unit (`PayloadsFit`).
* `WithdrawnOpensNothing`, `TokensSurvive`: a revoked token opens nothing at the agent
  and the store, a token that was told stays good through upgrade, store commands and
  migration, during which somebody serves.
* `RegistrationHolds`: codes are fresh above published and allocated ones, and a product is
  retired only when clients can resolve nothing. `AccountsHold`: an admin remains, a deleted
  account stays out. `KeysHold`: reported keys start an agent, hosts that pinned verify it.
* `HostGetsTool`, `OutcomeIsTrue`: a build machine runs what was signed; what an
  operator was told of an upgrade or a rollback is what the box runs.
* `CheckAnswers`, `VerdictIsExact`, `EndsWithArtifact`, `VerdictHolds`, `ActsAsShown`, `ShelfKeeps`:
  a client finds an index that is new enough, the publisher's verdict is exact, a download
  ends with the artifact, a confirmed release is served, a page writes as the user it shows,
  and no product is lost from the site.

**Why the bounds are enough.** Two of everything that can be confused are the least with
a race; three requests are the least with two that race and a third that replaces or
repeats what they are about; three index nodes are the least with a stepping stone, a
release before it and one after. One fault at a time is the assumption the code's own
recovery makes; where it must outlive more (retries of a download, the migration, index
writes) there are more. Counters are bounded by constants named `Max...` in guards and
nothing else is cut. Two executions are the least with an orphan that writes beside its
successor, and the least for a merge; a merge beside an orphan needs a third, which a larger
instance of `ReleaseBuild` (three codes and executions, one strict pipeline) covered with the
inductive invariant, and the proof for any number. `CHECK_DEADLOCK FALSE` because a system whose jobs, requests or
faults are used up rests; `InstallModes` never does and is checked for deadlock. Symmetry
is declared for sets whose members no action tells apart, and in no run with a
liveness property.

**Fairness.** Each is the least that its property needs:

* `AgentRequests`: weak fairness of `Rebuild(w)` of every goroutine. The scheduler runs a
  goroutine that can run, `siteMu` is held by rebuilds only, and a rebuild ends (its
  uploads have timeouts). Nothing is assumed of requests. A death of the agent discards
  the triggers, so the property releases them then.
* `ApplySession`: weak fairness of the steps of engines and workers and of the ageing of
  heartbeats. The wait for the host ends after five minutes (`apply.go`), so a worker is
  never stuck.
* `UpdaterData`: strong fairness of some engine's `BeginCheck` and of the two sweeps, because
  hosts check on a timer and not every check dies half way; weak fairness of some engine's other
  steps and of the clock. Engines may die at every step. What is to be reclaimed is about the
  behaviours in which the clock goes on, with one engine after another.
* `StorePlane`: weak fairness of `Serve(w)` (a request ends) and of `Collector`, which the
  server starts on a timer and after writes.
* `Uploads`: weak fairness of `Step(c)`: a CI job that failed is run again; of the abort under
  way and of time, without which an abandoned upload would never expire.

**Refinement.** `Installation` says what an update promises of an install that is replaced as
a whole: exactly one release can be run, and it changes in one step, to the release of the
apply under way. `BundleInstall` implements it with `current <- Current`, the release of the
whole bundle that is at the target or, between two renames, aside. The run
`InstallModes` checks the mapping as `ReplacedAtOnce`, through every failing file operation and
every death of the worker.

**The refuted sentence.** `StaleReported` shows that a client all of whose sources are
behind what it has seen reports a failed check (`updater.go:409`, `check.go:289`), where
`SPEC.md:568` asks for "no update this time". `CheckSpec` is the check beside publishes
that may name one mirror and re-sign the directory; nothing is unreachable in the
counterexample.

Every property has a mutant in `PROJECT.json`: a definition of the model changed as a plausible
bug would change the code, which the property then refutes.

## 4. Proofs

Eight modules hold theorems, each about the module whose name it extends. Every proof
has the same shape: an inductive invariant (`IInv`, or the formula named below), which TLC checked
on the run's instance before it was proved; one lemma per action; and the property from
it. The assumptions are those of the modules (`ASSUME ...Assumption`, evaluated by the
runs) and the hypotheses named here.

**`ReleasePublishProofs`**
* `TypeCorrect`: `JobShape` says that the record of a job fits its kind and phase; without
  it the type of `job.node` in a write is unknown.
* `SequencesGrow`: from `PlanIsCurrent`, the planned document continues the index
  that every target still to be written serves. It is inductive because a pointer
  write takes its backend off the agenda (`UnwrittenShrinks`) and nothing else
  writes an index (`IndexFrame`).
* `ListedReleasesAreServed`, `MirrorsServe`: assume no backfill, no two builds of one version
  and no collector. The first and the last are needed (section 5); the second is because
  nodes are merged by code and manifests keyed by version: a version rebuilt under a new
  code overwrites the manifest of the node it leaves listed. The invariant `ServedInv` adds
  that no target lists the version of a publish before its pointer (`VersionIsNew`), which
  rests on codes growing and on channels listing their own builds (`ChannelsAreSeparate`),
  and that finished uploads stay (`UploadsAreKept`). `MirrorsServe` is about all mirrors,
  so it also assumes that every request names all of them (`RequestsNameAll`).
* `OneIndexPerSequence` (`RequestsNameAll`): what a partial commit leaves is either one
  index everywhere or two that the next job refuses as divergent.
* `WebFollowsIndex`, `AnswersAreTrue`: assume no backfill: retention may drop a backfilled
  release at once, and it is written as latest all the same. Otherwise the new
  release has the highest code, so retention keeps it (`NewReleaseIsKept`), a
  pointer that was written lists what was planned (`CommittedIsListed`), and web
  documents are written only where the pointer was.
* `ReleasesLeaveOnPurpose`: an action property, without hypothesis.
* `SweepSparesNamed` assumes that documents can be read (`~ReadsMayFail`), since the code takes one
  that it cannot read for one that names nothing. `CollectorSparesSettled` has no hypothesis:
  it allows backfill, rebuilt versions and failing reads.

**`AgentRequestsProofs`**
* `TypeCorrect`: includes that the product lock is held exactly between a handler's
  `TryLock` and its return.
* `ToldStaysListed`: what callers were told is not inductive: a handler that replaces
  the index writes the plan it made earlier. `RequestInv` adds that the plan is still the
  served index (`HandlerInv`), that a release is listed or removed by name before its answer
  is remembered or sent, and that remembered answers keep that. Steps that change only a
  handler's record are covered by `HandlerMoves`; the steps that change the index use
  that no other handler can be between its plan and its write.
* `SiteShowsWhatWasAnswered`: `SiteInv` follows the debt from the answer to the trigger,
  the pending flag, the goroutine that is running and the list it is about to deploy.

**`UpdaterProofs`**
* `TypeCorrect`, `ApplyExclusion` (`ApplySession`): a request that is at work owns the lock
  file (`Owned`) unless a live lock was removed (section 5); the pid in the file and the phase
  in the session say what a starting host is told (`Refreshed`, `PhaseFits`).
* `DataInvariance`, `WorkersKeepFiles`, `AnswersAreKept` (`UpdaterData`) have no hypothesis: they
  hold for every number of engines at once, of plans, releases and sessions, and every lifetime of
  a plan. What a sweep read when it began names the plan of every worker that was there then
  (`SweepFits`), for a worker beats (`WorkersBeat`). Who will write the state has every skip in
  `kept` (`StateFits`): it read the state after the skip, or the skip found it had it already. A
  record that is written back late is not older than a worker's copy of it and makes no second live
  plan (`CopiesFit`, `WriteFits`), and two requests that hold records at once hold those of
  different codes, or the code is disputed (`RecordsDiffer`). The lemma `NobodyElse` says that
  engines which serve one after another dispute and race nothing.

**`StorePlaneProofs`**: `TypeCorrect`, `WholeServed`, `ListedKept`. What a key holds is right, of mixed
origin, or sent by a request that has still to compare it (`Served`). The collector is
argued phase by phase (`Spared`): what must stay is named by an index still to be read,
then by a manifest still to be read, then live.

**`UploadsProofs`**
* `PartsCover`: `resolvePartSize` and `casMultipartPlan` cut every object well, for every size and
  every limit. Arithmetic only: no state is involved.
* `UploadsAreWhole`: an upload that no clean-up tore is `Sound` (its lock has one holder, which
  works on what is on the disk). A torn one lost a part that all records report (`Torn`),
  so it can never be completed: that is why it is not installed twice either.
  Of the build (`BuildInv`): every set that is kept, and every set in the hands of a command,
  holds what was declared for its version under its code (`Kept`, `IsDeclared`); nothing is said of
  the files beside it, which orphans overwrite. What was declared stays declared, so a tree that
  passed `VerifyStagedHashes` needs no more (`Works`); it stays until it is released because a tree
  is never replaced and nobody cleans under a pipeline. A strict pipeline is at work under a
  code nobody else has (`RunsDiffer`) and that no release of a strict one has (`Shipped`), since a
  fresh code exceeds the counter and the counter every code in use. That payloads fit follows
  from the checks of the tree and the rule of the selection.
* `JobsLeaveBlobs`: unless a transfer failed, every part, completion and blob is done or still to
  come (`Covered`); an open multipart upload is in the hands of a job (`Owned`).

**`AdministrationProofs`**: `WithdrawnStaysWithdrawn` (`ProductAdmin` and `StoreTokens`),
`RegistrationIsKept`, `AccountsAreKept`, `KeysAreKept`, `HostsGetTools` (`ToolRelease`),
`OutcomesAreTrue` (`ServerDeploy`), `TokensAreKept` (`ServerDeploy`, `StoreTokens`,
`ServeMigration`). Each task has its own invariant. A token that
a request is about to take back is in nothing that it will put into the view (`TokensFit`), the
floor of a claim covers the channels it has read (`FloorFits`); a credential of the store is the
content of a file that exactly one entry names. Of the tools: unless an upload replaced a file of
a version, a signature that is not torn is of the file beside it and a manifest names signed
files only (`SignedFits`); every catalog, the one a pipeline has read included, leads to a
manifest (`CatalogFits`); what a host has resolved was the current version then (`HostFits`).
Of the store's tokens: unless the files went astray in one of the two known ways, every entry has
a file of its own and what was told of a token is opened by an entry (`OpenFits`). Of the migration:
one of the units is up or none comes back by itself, unless the exchange was cut between its two
commands (`UnitsServe`). Of the upgrade: the steps that are left are a segment of the program that
`BeginApply` fixed, and a part whose backup is still to come is as it was (`StepsFit`); a unit
whose steps are done has its files, runs them and listens (`UnitsFit`); a snapshot has what was
before, nothing, or half of a file if a backup was cut short, and rollback has still to come to
every part that is not as before (`RollbackFits`); the publishers' tokens are in the
configuration or in the admin document, or a torn configuration has a snapshot that names them,
unless they were waived (`TokensHeld`).

**`InstallModesProofs`**: `TypeCorrect`, `TreeIsKept`, `LibraryIsKept`, and the refinement
`BundleIsReplacedAtOnce`: the initial states of `BundleInstall` map to those of `Installation`, every
step to a step or to a stutter; the invariant says where the whole bundle is between two renames.
The tree's invariant says of each path what is in its place, aside or in the journal while an
apply goes through the table.

**`ReadersProofs`**: `PanelActsAsShown`, `VerdictIsKept`, `ShelfIsKept`, `SuccessIsWhole`,
`ClientsAreNotStranded`, and two with a hypothesis. `CheckFindsASource` assumes that every target is a service (`AllServe`): a
directory that is re-signed for fewer may strand a client. `ArtifactArrives` assumes `Patient`, three
attempts per mirror, the default of the policy. A host may set fewer, and then the claim is
wrong: the first attempt may meet the leftovers or the error, the second the record that a
goroutine of the first writes too late. `ChanceInv` counts that: as long as the errors are few
an honest mirror is in use or still to come, one error leaves one late record at most
(`LateFew`), and an attempt that began with nothing has only right chunks (`Clean`).
`ClientsAreNotStranded` relates what the publisher is told of an index to a reference that knows no
preference (`Within`: the codes any chain of legal installs leads to). Both are recursive
functions, and the prover has no induction over data; the proof makes do with least
counterexamples (`LeastNumber`). It first shows that each function exists and satisfies its
recursion (`HopsOf`, `WithinOf`), then reduces both sides to one condition that is not recursive,
the gap argument of SPEC 10.1: no code from the client's up to the head is without a candidate
(`Covered`). A release that may be installed over a code may be installed over every code between
that and its own, so no hop leaps over a gap. Hence the preferred chain ends at the head exactly if
there is none (`HopMissesNoGap`, `HopsLeadUp`, `ReachesByGaps`), and so does some legal chain
(`NoGapBelow`): without a gap every round of the reference goes further, and as many rounds as
there are releases suffice (`EveryRoundGoesFurther`; `TargetInv` bounds their number).

Only model-checked:
* liveness (`TriggerIsServed`, `HostMayStart`, `StagingReclaimed`, `OrphansGo`, `RetriesSucceed`),
  ENABLED and with it the fairness of the specifications: out of the prover's reach.

**What the proofs changed.** Some attempts failed because the statement or the model was wrong:
an earlier `SiteShowsAnswered` held for the three requests of its run only. It is now stated over
what callers were told (`told`), and the model has web documents that lag behind (`stale`).
The history `kept` of
`StorePlane` loses a release as soon as one index that named it is replaced by one that does
not (a move between indexes may slip through, section 5). Assumptions that the code makes and the
modules left unsaid are now stated where the constants are declared: that no marker is a
value (`NoneAssumption`), that an upload has a part and no part is called like a phase
(`UploadsAssumption`), that no target is called like the merged directory (`BuildAssumption`), that tables name what exists (`TreeAssumption`, `BundleAssumption`,
`RecordsAssumption`, `StoreAssumption`).

## 5. Divergences

The modules model what the code does, so that none of the following is a failing run; the
assumptions and exemptions in the properties name them. They were met while modelling.

**Publishing.**
* A backfill overwrites the manifest that a listed node names before the pointer, and
  its web documents show a release that retention drops at once: `ListedIsServed` and
  `WebNeverAhead` need `AllowBackfill = FALSE`.
* The store's collector looks once; the pointer of a publish in flight may arrive before it
  deletes. `CollectorKeepsSettled` is about releases that stay listed throughout.
  `gc.go:163` reads indexes one by one, so a promotion between channels may slip through;
  `gc.go:281` stats and removes in two steps.
* The sweep of dropped blobs counts documents it cannot read as naming nothing
  (`cas_gc.go:136`); indexes that do not parse are passed over by the store (`gc.go:173`).
* An unpublish that partly succeeded asks for a re-run that is refused, the version being
  gone from the index (`unpublish.go:165`).
* Retention may drop the stepping stone of clients that run a dropped release: the
  reachability check starts from listed codes (`publish.go:118`).
* A publish compares the staged digest before it takes the lock and loads the tree after
  (`server.go:1400`); a repeated publish is looked up before the lock only, and the answer
  survives an unpublish (`server.go:1416`).
* The verification reads the index twice and may confirm against a newer one; an older
  version's missing manifest blocks a new release while a drifted URL only warns; an
  `allowPartial` release could not be verified, its targets differ.

**Building a release.**
* `--code` is compared with the artifact set only when it is given (`stage.go:64`): without it a
  pipeline releases under the code of whoever filled the directory, with `--allow-backfill` also
  one that is on the shelf already. `CodeNamesOneRelease` is about pipelines that give it.
* Stage verifies files, then opens them, then copies them (`release/stage.go`); a
  producer left behind by a killed `relkit` can write in between. Only the check of the tree
  before the upload catches that.
* A payload with symbolic links and no target system may be published and picked on windows, where
  the updater refuses it (`table.go:133`, `bundle.go:102`); `PayloadsFit` asks for a target.

**Store and uploads.**
* PUTs of one key share `.tmp~` (`upload.go:143`), though `casput/client.go:583` calls replaying
  one safe. A wrong body is renamed into place before its digest is checked, and its removal
  takes a good blob with it (`upload.go:126`, `SPEC.md:687`); a restart in between leaves it.
* Abort and expiry take no lock and forget the lock of a part in flight, against the
  comment at `staged_upload.go:433`; writing the record re-creates the directory of an aborted
  upload; a directory without a record never expires.
* `blobAlreadyAvailable` and PUTs compare sizes only; a credentials request that fails on
  a later blob leaves the multipart uploads of the earlier ones open (`forsaken`).
* The store's `init -share` renames the token file before it writes the configuration: cut
  between them, the store refuses to start and the command cannot be repeated, the danger
  that `init.go:272` names and avoids elsewhere. Sharing and removing in some orders
  leaves two entries with one file, or a product named twice, which neither the store nor any
  `init` command loads again (both are `strayed`). Adding a product that
  sat on a shared file moves it without `-force` and revokes its old token silently.
* `install-serve` killed between `init` and its configuration leaves `addr: ":8080"`, and every
  rerun keeps it; run again with one of two files missing it calls `init -force`, which
  drops all entries.

**Administration.**
* A retirement run again skips a channel whose index is gone, so `latest` or `release`
  documents whose deletion failed stay, though it promises to retry what is left
  (`retire.go:127`); a half-deleted index makes it refuse. A product without a root project
  document is retired as one that was never published (`admin.go:651`), although a publish
  from its staged tree does without that document (`server.go:1006`).
* A publish that looked its product up before the retirement commits after it; codes start
  again at the published maximum after a re-registration; a removal leaves assignments.
* `init -bootstrap` is a second process: the running agent accepts the old credential until it
  is restarted, and each overwrites the file of the other (`admin.go:107` promises that a
  mutation persists before it returns).
* Admission precedes the change: a request of an admin who was demoted meanwhile goes through.
  A login that had compared the password survives its change, and one issued after a deletion
  opens a later account of the same name.
* Manifest and catalog of tools are two files and may disagree (`catalog.go:17`, `tools.go:535` say
  they cannot); two publishes at once lose a catalog row; a signed file can be replaced between
  stat and rename (`tools.go:246` calls it immutable).
* `custody public` prints the public file without comparing it with the registered
  fingerprint; a host that pinned the name before `key rename` refuses what is signed after,
  though `key.go:88` says nothing deployed stops verifying: keys are looked up by name.

**Deployment.**
* Rollback does not leave "the box exactly as it was" (`relkit.py:2322`): a backup cut short is
  copied back over good files; administration file, environment, panel key, tool token and catalog
  are not in it; revoked tokens come back with the old configuration.
* The administration file and configurations are rewritten in place: a kill in the middle makes
  every later apply fail until somebody repairs them.
* `require_listener_belongs_to` accepts an impostor while the unit's MainPID is `0`
  (`relkit.py:1679`). Two operators' applies are not kept apart. An upgrade of another unit rotates
  away the only snapshot with the agent's configuration.
* A migration killed after its new configuration is refused ("refusing to clobber") until that is
  removed by hand; a token directory half copied is then taken for copied. Between stop and start
  nobody serves; the failure of `systemctl enable` shows at the next reboot only.

**Updater and clients.**
* `apply_lock.go:63` removes a lock file by name: the second of two processes that found a dead
  one removes the lock of the first, and the worker rewrites the lock without looking
  (`apply.go:338`). `ApplyIsExclusive` exempts exactly this.
* A host whose update was cancelled while it waited, or whose installer was cancelled, is not
  started again, against the comment at `apply.go:323`.
* A library directory of the same version and another code is moved aside even when it is
  active (`pipeline.go:173`); switching to the active version forgets the one to go back to
  (`library.go:173`). The next apply does not restore a bundle that waits aside while applies
  are refused (`bundle.go:188`).
* A skip is forgotten when another engine read the state before it and writes it after
  (`check.go:97`, against `docs/adr/0010`), and two that write it at the same moment share the
  temporary file of `atomicWrite`, so that the state may be the other's or empty. `UpdaterData`
  has both; `SkipHolds` is about all other skips.
* Two requests that hold a record of one release at once may leave two live plans for it
  (`disputed`), and an apply that is accepted while another engine sweeps may lose its directory or
  its file, since the sweep listed the sessions before (`plans.go:152`, `raced`).
* The `ROLLBACK_REJECTED` branch of `check.go` cannot match the error `checkIndex` returns.
* A directory written to some backends only makes them disagree, and every later `Set` that
  names them is refused (`server.go:1509` says "fix forward").

**Site and panel.**
* A failed pass is "a full redeploy" next time (`site.go:203`) unless content or sinks return to
  what was recorded. With `allowEmpty` a page is emptied also when documents were only
  missing; an unpublished release document can come back through the rebuild's backfill
  (`site.go:619`).
* A session answer that clears a ghost cookie may arrive after the cookie of a fresh login and
  delete it; an answer lost after 30 seconds leaves a write done that the panel calls failed.

## 6. Not modelled

* **`internal/vnext/ops` beyond keys**: `LoadInventory` refuses every inventory, since
  `ops.go:155` asks of a sync adapter that it be of two kinds at once; no operation behind it
  can run.
* **Publisher CLI** beyond the pipeline: the `build` command, bootstrap and key commands, the
  parsing of projects, installation counterparts. Its publish request is that of `AgentRequests`.
* **Payload archives**: reading and writing them, the resolution of symbolic links, bundle names.
* **Documents, configuration, helpers**: functions of files without state; what `ReleaseBuild` uses
  of them (`document.WriteNew`, `extension.Run`, the staged release) is in it.
* **Drop exchange**: a file replaced by one rename, read by its name; nothing relates two of them.
* **Cryptography**: a signature is the body it was made of, a key is looked up by its name.
* **Site backfill and rendering, throttling, source learning, progress, main-thread queue**: they
  order or show what is modelled and decide nothing of it.
* **Two operators' applies or store commands at once**: nothing in the code keeps them apart;
  what goes wrong is plain (section 5) and would drown the rest.
* **First installation of a box, builds, generated code, the GUI.**

Status and reason of every component are in `PROJECT.json`.

## 7. Plan

1. `ReleaseCatalogue`, an abstract specification of what a mirror promises, implemented by
   `ReleasePublish`.

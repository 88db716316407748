# Verification of the SUSE AI Factory operator

The operator (`src/operator`) is a Go program of several Kubernetes controllers
and an HTTP API. It turns custom resources (AIWorkload, Blueprint, Settings,
InstallAIExtension) into Fleet, Rancher and Helm objects. This directory holds
TLA+ models of its protocols, TLC configurations that check them on small
instances, and proofs checked by TLAPS.

Paths below are relative to `src/operator/internal/` unless they start with
`src/`.

## The system

| Part | State it keeps | Operations | Interacts through |
|---|---|---|---|
| AIWorkload controller (`controller/aiworkload`) | none in memory; the AIWorkload's annotations (requests, journal, handled identities, retry epoch), `spec.source.blueprint.version`, `spec.fleetBundleNames`, status | one reconcile pass: finalizer, triggers, status of the rendering, status write, conclusion of the running operation, pull-secret delivery | AIWorkload (with the API), Blueprint, HelmOp (writes), Bundle and BundleDeployment (reads), Secrets, ServiceAccounts and pods, a git repository |
| HTTP API (`api`) | none | create, update, delete a workload; request an upgrade, a rollback or a retry; Blueprint and settings writes; catalog reads | patches and applies on the same objects |
| Fleet (external) | HelmOp, Bundle, BundleDeployment | HelmOp controller, Bundle controller, agent on the downstream cluster | labels, generations, status |
| InstallAIExtension controller | wait markers (annotations), Ready condition, phase | one staged pass: two Helm releases, a Deployment, a ClusterRepo, a UIPlugin; time-outs; failure back-off | Helm client, Kubernetes, Rancher |
| Helm release client (`infra/helm`) | Helm's release records; in memory a convergence latch, a chart cache, a lock per release | EnsureRelease, DeleteRelease | Helm storage, chart repositories |
| Rendered workloads (`blueprint.go`, `gitchart.go`, `gitops.go`, deletion in `aiworkload_controller.go`) | HelmOps and Bundles in two Fleet workspaces, files of a git repository, two annotations of the AIWorkload, a finalizer | render, publish, clean up what is stale, follow a HelmOp, tear down | Fleet, the git repository, Rancher (uninstallation) |
| Settings controller (`controller/settings`) | copies of credentials, ClusterRepos, GitRepos; a Rancher client in memory | one pass over repositories and catalogs, pruning, forced refresh on rotation | Settings and Secrets (with the API and Helm), Rancher, Fleet |
| Pull-secret delivery (`pullsecrets.go`, `cluster/sa_merge.go`) | Secrets, `imagePullSecrets` of ServiceAccounts, bounce counters | deliver, merge, prune, bounce a pod at most three times | workloads of the same namespace share ServiceAccounts |
| Credentials, registry URLs, credential checks, catalog, git client, infrastructure | none | pure functions and single outbound calls | called by the above |
| Rancher UI extension, Helm charts, CI | none at run time here | | HTTP API |

### What is hard

* One AIWorkload is written by users, by HTTP handlers (unconditional patches
  of single fields) and by the operator, whose writes carry the resource version
  of a copy read from an informer cache that lags. A pass may make up to five
  writes and stop between any two.
* An operation spans many passes: trigger, render, observation, certification,
  conclusion. Between two passes the spec, the Blueprint, the repository and the
  cluster may all change.
* A HelmOp becomes a Bundle, then a BundleDeployment, then the cluster's state,
  by controllers with their own pace. Labels, generations and status of these
  objects are from different moments, and the pass reads them one by one.
* An operation must end although Fleet may never report anything.
* The extension controller persists wait markers across restarts; the Helm
  client memoizes verdicts about revisions; the settings controller keeps the
  "credentials rotated" edge in memory only; the delivery counter is read through
  a cache.

`PROJECT.json` lists each of these under `hazards`, at its line, with the
properties that cover it, or the reason why none does.

### What makes each part correct

* Operations: a request starts one operation, none is lost; no user write is
  undone; an operation ends, with an outcome that is stored before the journal
  goes; success means the spec still asks for it; failure is the failure of the
  operation's own rendering.
* Certification: `status.deployedSource`, the rollback target, is content every
  component of which really ran.
* Extension: a generation counts as observed only when its releases run it; every
  release is still named by the status when it has to be uninstalled; a wait times
  out after its own bound, counted from the start of what it waits for; every wait
  ends, and a trouble that has passed is repaired.
* Helm client: a call that ends without error has the requested rendering as its
  deployed revision, whichever of its short cuts it took; a memoized verdict never
  outlives what it is about, nor hides a chart pushed again for good; only a killed
  process leaves a pending release, which nobody can upgrade.
* Rendering and deletion: a controller at rest has left Fleet, or the repository,
  with what the specification asks for; what is wanted all along is never deleted by a
  clean-up; a workload goes only when somebody asked for it, and leaves nothing.
* Settings: at rest, every repository, copy of credentials and catalog is what Settings
  and its Secrets call for; a save removes what it omits and owns nothing of the chart's;
  pruning never takes a repository that is listed; rotated credentials reach Rancher.
* Pull secrets: what a workload needs is on its ServiceAccounts and no pod waits for it;
  pods are deleted a bounded number of times; nobody else's secret is taken; what a
  workload alone delivered goes with it.

## Modules

| Module | Content |
|---|---|
| `AIWorkloadOperations` | recovery operations of one Blueprint-sourced workload, the pass that carries them, the API handlers and Fleet |
| `MCAIWorkloadOperations` | instances of it for TLC |
| `AIWorkloadOperationsProofs` | theorems about it: types, stale copies, the end of an operation |
| `AIWorkloadEvidenceProofs` | further theorems: what outcomes and the deployed source prove, what starts once, sync generations |
| `HelmRelease` | one Helm release under `EnsureRelease` and `DeleteRelease` |
| `MCHelmRelease` | instances of it for TLC |
| `HelmReleaseProofs` | theorems about it |
| `ReleaseContract` | what one release looks like to its users: the abstract specification that `HelmRelease` implements |
| `ReleaseContractProofs` | the proof that it does |
| `ExtensionInstall` | one InstallAIExtension, the pass that installs it and the releases it owns |
| `MCExtensionInstall` | instances of it for TLC |
| `ExtensionInstallProofs` | theorems about it |
| `WorkloadBundles` | what one workload of any strategy keeps in Fleet, in git or as a Helm release, and its deletion |
| `MCWorkloadBundles` | instances of it for TLC |
| `WorkloadBundlesProofs` | theorems about it |
| `PullSecrets` | the pull secrets of workloads that share a namespace, here or downstream |
| `MCPullSecrets` | instances of it for TLC |
| `PullSecretsProofs` | theorems about it |
| `SettingsRepos` | Settings, the handler that saves it and the controller that turns it into repositories |
| `MCSettingsRepos` | instances of it for TLC |
| `SettingsReposProofs` | theorems about it |

`HelmRelease` instantiates `ReleaseContract` with a refinement mapping: the content in
force is that of the deployed revision, the writer is the call or the stray process at
the release, the target is the revision it writes. `ExtensionInstall` takes a call of
`EnsureRelease` as one step, with the results the contract allows: nothing (`Abort`, or
a release left broken that may not be written), or a whole write. That last link is made
by reading. `AIWorkloadOperations` and `WorkloadBundles` look at the same pass from two
sides and share no variable: the first has one workspace, and what certifies; the second
has both workspaces, git and deletion, and takes an object in Fleet as delivered.

### AIWorkloadOperations

*State and code.* `w` is the stored AIWorkload; its fields `up`, `rb`, `rt`,
`journal`, `handled`, `epoch` are the annotations of `journal.go`; `version` and
`names` are of the spec; `active`, `deployed`, `cells`, `phase` of the status.
`cache` is the informer's copy, `mem` the object a pass works on; `cacheCurrent`
and `memCurrent` say that no write has happened since, which is what a resource
version comparison decides. `pc` is where the pass is: between two of its steps
anybody else may act. `todo`, `bpRev`, `cells`, `result` are the pass's locals.
`helmOp`, `bundle`, `bd` are the Fleet objects of each component.
`rolledOut`, `failedOut`, `started`, `repeated` are history and guide no step.

*Actions and code.*

| Action | Code |
|---|---|
| `RequestUpgrade`, `RequestRollback` | handlers of `api/aiworkload_actions.go`: one patch |
| `RetryAllowed`, `RequestRetry` | the retry handler: a check, then the patch, with anything in between |
| `UserEdit`, `BlueprintEdit`, `BlueprintDelete` | update of a workload; update and deletion of a Blueprint |
| `BeginPass` | `Reconcile` reads the object |
| `HandleUpgrade`, `HandleUpgradeToCurrent`, `HandleRollback`, `SkipRollback`, `HandleRetry` | `handleTriggers`; each ends the pass with its single write (`finishTrigger`) |
| `BlueprintNotFound`, `PopulateNames`, `BlueprintFound` | start of `reconcileBlueprintStatus` |
| `RenderComponent`, `RenderBlocked` | one `ensureBlueprintHelmOp` each; errors collected, the matrix not built |
| `DeleteStaleHelmOp`, `DeleteStaleBundle` | the two calls of `cleanupStaleHelmOps` per component |
| `BuildCell` | one cell of `buildComponentMatrix`, then the phase |
| `CertifyBundle`, `NotCertified` | `certifyDeployedSource` |
| `PersistStatus` | `projectOperation` and the status write, also after an early return |
| `JournalOutcome`, `ProjectOutcome`, `ClearJournal`, `NothingToConclude` | `reconcileOperation` |
| `Conflict` | a refused write: the pass returns the error and is queued again |
| `Crash`, `ReadFails` | a stop anywhere; a failed read after the Blueprint was found |
| `FleetHelmOp` ... `FleetCollects` | Fleet's controllers, external |
| `GraceEnds`, `DeadlinePasses`, `RepoAppears`, `RepoGone`, `CacheSync` | clock, ClusterRepo, informer |

*Abstractions.* A render digest stands for the Blueprint version and the revision
of its content: that is what `perHelmOpRenderDigest` tells apart when the cluster
and the values stay as they are. It leaves out the forced sync generation, as the
code does. The intent digest of an operation is the version. A request time is a
flag (`overdue`: more than thirty minutes ago). A workload has one target cluster.
The nonce is a number, unique per request, as the handler's UUID is.

*Left out.* The `Accepted=False` baselines of HelmOps (`certify.go:121-190`), git
charts and the too-large chart error (other render errors are `RenderBlocked`), the
superseded-operation annotation, which nothing reads, events, the whole-status
patch of the UI, which the next pass recomputes. Deletion and the other strategies are
in `WorkloadBundles`. A pass over a workload without a Blueprint is not modelled here.

### HelmRelease

*State and code.* `releases` is Helm's storage. `latch` is the entry of `helmClient.converged`, `archive` that of `helmClient.charts`, both
in memory. `pc`, `req`, `op`, `chart`, `outcome` are the call in progress. `stopping`
says the manager got SIGTERM; `stuck`, that a killed process left the release in
mid-write, is history.

*Actions and code.*

| Action | Code |
|---|---|
| `EnsureRelease`, `Decide` | `EnsureRelease` up to its first use of a chart: `decideRelease`, `labelDrift`, `convergenceHolds` |
| `LoadChart` | `cachedChart`, or a pull and `cacheChart` |
| `RenderChanges`, `RenderSame` | the dry run and `diffManifests`; `latchConvergence` |
| `StepFails` | a failed pull or dry run, or a cancelled context |
| `CreateRevision`, `Apply`, `Supersede`, `RecordDeployed` | Helm's install and upgrade (external), as the comments of `shutdown_grace.go` describe their writes |
| `ApplyFails`, `GraceExpires` | `failRelease` after an error, or when `withShutdownGrace` cancels |
| `NothingToUpgrade` | Helm's refusal over a release left `uninstalling` |
| `DeleteRelease`, `FinishDelete`, `DeleteFails` | `DeleteRelease`: the latch first, then the uninstall, whose failure, like a kill, leaves the release `uninstalling` |
| `Shutdown`, `Exit`, `Killed` | SIGTERM, the drain of `cmd/main.go`, a lost lease or SIGKILL |
| `LatchExpires`, `ArchiveExpires` | `convergenceTTL`, `chartCacheTTL` |
| `EditSpec`, `PushAgain`, `ForeignInstall` | users, the registry, `helm` by hand (which sets no label) |

*Abstractions.* A chart is its own version and a template; its manifest is that
template with the values, if the template reads them at all. What the cluster runs
is not considered: after an upgrade that failed half way, a return to the deployed
revision is skipped, although parts of the failed one may still run. Helm's reads and writes of its own storage succeed. One call runs
at a time: the controller reconciles one extension at a time, and `lockRelease`
serialises the rest. Pulls with credentials or TLS trust of their own, which bypass
the chart cache, behave like pulls after `ArchiveExpires`.

### ExtensionInstall

*State and code.* `spec`, `gen`, `life` are the stored resource; `status` the part of
its status the code reads back: phase, reason of the Ready condition, observed
generation, server release and its revision, active name and source kind. `clocks`
are its four wait annotations, as ages: `young` within the bound, `old` beyond it.
`helm` is each release as a pass sees it, with what runs of it. `pc` is the stage of
the pass, `mem` the copy of the resource it works on. `origin` (the rollout a
readiness clock was started for), `moved` and `cut` are history and guide no step.

*Actions and code.*

| Action | Code |
|---|---|
| `AddFinalizer`, `BeginPass`, `RefuseCollision` | `reconcileRequest` and the start of `reconcile` |
| `RemoveStale` | `cleanupStaleResources` |
| `TakeGitSource`, `TakeHelmSource` | the two sources up to their first lasting call; the latter removes the server of an old chart URL |
| `EnsureServer`, `EnsureChart` | `EnsureRelease` and `handlePendingReleaseMarker`, for the server and in `installExtensionChart` |
| `ObserveRevision`, `AwaitRunning` | `awaitReleaseRunning` with `restartReadinessClocks` and `awaitReadiness` |
| `AwaitService` | the wait for the server's Service |
| `EnsureRepo` | the ClusterRepo, then the active name and kind, recorded before the chart is tried |
| `StageFails` | every other failure of a stage, and every rejected spec |
| `EndPass`, `PersistStatus` | the end of `reconcileRequest`: leftover markers, observed generation, status patch |
| `Finalize` | `handleDeletion`, `cleanup`, `removeExtension` |
| `Interrupted` | a cancelled context, a failed status patch, or a kill in the middle of a Helm write |
| `EditSpec`, `Delete`, `ForeignOperation`, `OperationEnds`, `Rollout`, `Degrade`, `TimePasses` | users, other Helm clients, the cluster, the clock |

`Stamp` is `updateAnnotations`: it writes only when a marker changes, is refused when
the resource was edited or deleted since it was read, and keeps the status the pass
has gathered. The status patch has no resource version and is never refused.

*Abstractions.* Server chart and extension have one version (an edit changes both).
The cached copy a pass reads is taken to be current: the code requeues with a delay
for that purpose. ClusterRepo, UIPlugin and ConfigMap calls may fail, no more. A
client that cannot be built counts as a deletion that failed. An operation of another
Helm client keeps the deployed version. `TimePasses` exceeds every bound at once,
which is what tells a marker that is in force from one that is over. A server chart
runs a Deployment, a git chart may, an extension chart of a server does not.

### WorkloadBundles

*State and code.* `scene` fixes the strategy, what backs each component's repository,
the specification at first, whether Settings has a Rancher token, and the bounds. `w` is
the stored AIWorkload: life, specification (`on`, the enabled components; `spaces`, the
Fleet workspaces of the target clusters; `rev`, the values and version), finalizer,
`named` (`spec.fleetBundleNames` is filled), `stamp` (the annotations with the hashes of
published files), `synced` (the revision last followed in git). `seen` is the informer's
copy, `queued` the work queue, `pc` and `mem` the pass. `file` is the git repository,
`helmOp` and `bundle` the objects per component and workspace, `release` a Helm release
as Rancher's App shows it. `cleaned`, `steady`, `excused` are history.

| Action | Code |
|---|---|
| `Begin`, `AddFinalizer`, `PopulateNames` | `Reconcile` up to the strategy, and the two updates that end a pass early |
| `RenderComponent`, `RenderFails` | `ensureBlueprintHelmOp` or `ensureBlueprintGitChartBundle`; errors end the pass after the others in the code's order |
| `Push`, `Stamp` | `publishBlueprintGitFile`: the repository first, then the annotation by a plain update |
| `ListStale`, `Discard`, `DiscardFails`, `Finish` | `cleanupStaleHelmOps`: HelmOps by label, then for each its deletion and that of its Bundle, or of the file |
| `Mirror`, `SyncSpec`, `GivesUp`, `Remove` | `reconcileGitOpsStatus` of an App in git: `getHelmOp`, `syncSpecFromHelmOp`, `deleteAIWorkload` |
| `TearDown`, `TearDownFails`, `DeleteFile`, `AwaitRelease`, `RemoveFinalizer` | `handleDeletion` |
| `Conflicts`, `Fails` | a refused update; a failed call or a stop before the step at hand |
| `Change`, `Delete`, `Publish` | the HTTP handlers |
| `Observe`, `Generate`, `Collect`, `ApplyFile`, `Uninstalling` ... `UninstallByUser`, `Withdraw`, `Lose` | informer, Fleet, Rancher, users of git and kubectl |

*Abstractions.* A chart's values and version are one number of two. A digest is what the
code's fingerprints and hashes depend on: the revision, and the targets where these are
in the file or Bundle. A clone, a change and a push are one step, since each call clones
anew and the push is refused or done. Bundles of HTTP and OCI charts carry their HelmOp's
revision. A component's name is the same in both workspaces, as in the code.
Of the calls to two workspaces the first may be made and the second fail.

### PullSecrets

*State and code.* `sa` is the `imagePullSecrets` of each ServiceAccount of the namespace
looked at, `pod` its pods by slot, UID and admission, `seen` the operator's informer's
copies; `count` and `last` the annotations of `bounceHelmLabelledPod`; `bundle`,
`installed` and `run` the Bundle of each workload, what Fleet has brought downstream, and
the script's run with what it has read. `event` and `due` are the work queue with and
without delay; `resolved` says that the Blueprint a workload's scope comes from is there.
`scene` fixes the controller of the pods, on which cluster they are, and the bounds.

| Action | Code |
|---|---|
| `Begin`, `Deliver` | `resolveWorkloadScope`, `deliverPullSecrets` |
| `MergeSA` | `mergeImagePullSecrets` and the Update of one ServiceAccount |
| `ListPods`, `Watch`, `Recreate`, `Skip` | the pod loop: `podMissesDeliveredSecret`, `recreateForDeliveredSecret` |
| `Count`, `DeletePod`, `Record` | `bounceHelmLabelledPod`: counted before the deletion, remembered after it |
| `Finish`, `Fails`, `Restart` | the result of the pass, a failed call, a restart of the manager |
| `Cleanup`, `Prune`, `Release` | `cleanupPullSecretBundles`, `pruneLocalSAImagePullSecrets`, the finalizer |
| `Tick`, `ReadSA`, `PatchSA`, `ScriptLists`, `ScriptPod`, `ScriptFails` | the script of `cluster/sa_merge.go`, run by a Job and a CronJob |
| `Admit` ... `PullsAgain`, `Sync`, `FleetApplies` | pods, informer, Fleet |
| `Event`, `Delete`, `CreateSA`, `AddSecret`, `Toggle` | watches and poll, users, charts, administrators, the Blueprint |

*Abstractions.* A secret is its name. The pods of one controller are looked at, since
each is treated by itself; other controllers differ in `scene`. A UID is one of two, used
again only when nobody remembers the pod that had it. The delay of a pass lets the
informer catch up. Image references, and which container failed, are left out: a pod
fails while `chart.pulls` is not on it.

### SettingsRepos

*State and code.* `spec` is Settings, `owners` its field managers (`api`, `helm`,
`controller`) of each registry's references and each GitRepo; `save` a request between
the handler's two writes. `source` and `known` are the Secrets explicit references and
well-known names lead to; NVIDIA's well-known one may lack a user (`userless`), which a
look-up completes; `broken` are the owners of a CA Secret that is missing or malformed,
and `astray` remembers the registries whose last look-up failed unnoticed. `mirror` has each credential's copies, in `cattle-system` and
in the Fleet workspaces; `repo` the ClusterRepos with their label and `told`, what
Rancher last read; `git` the GitRepos; `client` the Rancher client. `pc`, `mem` are the
pass: the copy it read, what is left to do, whether the credentials changed, which custom
repositories to keep.

| Action | Code |
|---|---|
| `BeginPass`, `Wire`, `WireFails` | `Reconcile`, `ensureWellKnownSecretRefs`: `EffectiveRefs` of each registry, whose failures it does not see (`FoundRefs`), and the merge patch |
| `ApplyGit`, `GitFails` | `reconcileFleetGitRepo`, whose error ends the pass, then `reconcileBlueprintCatalogs`, whose error is logged |
| `PruneGit`, `PruneGitFails`, `GitPruned` | `pruneCatalogRepos` |
| `TearDown`, `SetUp`, `TurnFails` | `reconcileRegistryRepo` and `reconcileNvidiaRepos` up to the first credential written: `EffectiveRefs`, right or astray (`LooksUp`), `ReadPair`, whose failure ends the pass, and which branch is taken |
| `WriteMirror`, `MirrorFails` | `applyRegistryAuthSecret` and `applyCustomRepoAuthSecret`: read the CA, compare, then write place by place |
| `ApplyRepo`, `ApplyFails`, `ForceUpdate`, `ForceFails`, `Forced` | `applyClusterRepo` and its likes, `forceUpdateClusterRepo`; `pruneTeamRepos` |
| `DropRepo`, `Unmirror`, `DropFails` | `deleteClusterRepo`, `pruneRegistryRepos`, `deleteAuthSecret` |
| `ToCustoms`, `SkipCustom`, `StartCustom`, `CustomFails`, `Retype`, `RetypeFails` | `reconcileCustomRepos` |
| `ToPrune`, `PruneRepo`, `UnmirrorPruned`, `PruneFails`, `Pruned` | `pruneCustomRepos` |
| `Status`, `StatusFails` | `reconcileRancherCatalogClient` and the status |
| `SaveBegin`, `SaveClear`, `SaveApply`, `SaveFails` | `putSettings`: validation, `filterHelmManagedCatalogs`, `omittedSecretRefs`, a merge patch of nulls, a server-side apply |
| `Rotate`, `RotateKnown`, `RotateCA`, `HandEdit`, `TakeName`, `HelmRemove`, `Restart` | users, Helm, other owners of ClusterRepos, the process |
| `Discover` | `getRegistryCredentials` and the workloads' passes, whose look-ups complete NVIDIA's Secret as well |

*Abstractions.* A repository's URL and branch do not change; a credential is one of two
values. Fleet's two workspaces are one place, as the calls treat them alike. A Secret's
type is kept because the API server refuses to change it. A server-side apply is modelled
by its rule for fields several managers own. Catalogs are set up in any order. A CA is
usable or not: one whose contents change counts as a change of the credentials that are
copied with it, and a custom repository's that cannot be read is the failure of the apply
it belongs to. Whether credentials changed is asked of the informer's copy in the code and
of the stored one here: with an old copy Rancher is told once more, or, after two rotations
of which the second takes back the first, not at all. Of Helm's upgrades those that drop a
value are modelled; one that declares a catalog anew between the reading of Settings and
the apply of a save that lists it too makes the save a second owner of it.

*Faulty variants.* A definition marked `Fault:` stands before the definition it
varies and is used by none: it is a plausible mistake in that code, kept to show
that the property named in `PROJECT.json` notices it.

## Runs

| Run | Instance | Question |
|---|---|---|
| `ops_requests` | 2 versions, 1 component, 2 requests, lagging informer | is a request started twice, lost, or a version change undone; does a HelmOp's forced sync generation go back |
| `ops_rollout` | 1 request, 1 edit, 1 fault, agent may fail | certification, the truth of outcomes, the order of the conclusion |
| `ops_conclude` | 2 components, one replaced by version 2, 1 request in the grace period, 1 fault, fair operator only | is a version certified before every component of it ran; does every operation end |
| `ops_converge` | healthy agent, 1 request, 1 edit, 1 fault, fair Fleet | does the workload end certified at the live content |
| `workload_bundles` | every strategy, 2 components (a chart's and a git chart's, or two charts), 1 or both workspaces; 1 edit and 1 fault, 2 edits, or 2 of each | does a controller at rest leave what is asked for (`RestIsRendered`, `RestIsPublished`), is what is wanted kept (`KeptWhileSteady`) and delivered in the end (`Delivered`), does a workload go only on demand (`OnlyDeletedIsGone`), completely (`GoneIsTornDown`) and in the end (`DeletionsEnd`) |
| `pull_secrets` | 2 workloads sharing one secret, 1 controller of each kind, here or downstream, 1 edit or 1 fault, some with 2 | are pods deleted for ever or too often, is nobody else's secret taken, is a deletion complete, does what is needed arrive and is it there whenever the operator rests |
| `settings_repos` | 1 registry and NVIDIA, 1 custom repository, Fleet's repository and 1 catalog; 2 edits, 2 faults, 3 of both together | is what the controller leaves at rest what Settings and Secrets call for, with faults and without; do saves, Helm and the controller respect each other's fields; is a listed repository ever pruned; does a part that fails for good keep others from settling |
| `ext_install` | a Helm-sourced extension, 1 edit (version, name, chart URL, git source, collision), 1 fault, fair pass, clock and rollouts | is an observed generation really installed, is every release found again, are time-outs those of the rollout waited for, does every wait end and every passing trouble get repaired |
| `helm_release` | 2 charts (one reads values), 2 value sets, 1 edit or deletion, 1 chart pushed again, 2 faults, fair calls and clocks | does success mean that the requested rendering is deployed; what leaves a release pending; is a chart pushed again applied; is every behaviour one of `ReleaseContract` |
| `ops_v_upgrade_current`, `ext_v_rename`, `bundles_v_disabled` | as small as shows it | where the code departs from its comments, below |

### Bounds

In `AIWorkloadOperations`: `MaxNonce` requests, `MaxEpoch` retries, `MaxEdits` edits of
specs and Blueprints, `MaxFaults` crashes, failed reads, lost repositories and
degradations, and `MaxHandledOps`, 8 in the code and 2 here. One operation and one edit
or fault at any moment is what it takes to interrupt each protocol step once; two
requests are what it takes to replace, reorder or repeat one, and to fill a list of two.
Requests beyond the first only add load to what the first already shows: a pass handles
one and starts again. The informer's lag multiplies the states (any older copy), so it is
on in `ops_requests`, whose properties depend on it, and off where the copy read is at
once outdated by the next writer anyway (a pass reads, others write, the pass goes on:
`memCurrent` is false just the same). Two components are needed only for what compares
components.

For `HelmRelease`, one edit and two faults are enough to have a failed revision above a
deployed one and a shutdown within the retry, or a verdict and a release that somebody
else starts again at revision 1 under it. A template that does not read the values is
what lets spec and record disagree for good, which is the only way to the latch while
every tag names its version.

For `ExtensionInstall`, one edit reaches each kind of change once, at any stage of a
pass, and one fault each failure, interruption or foreign operation; two releases and two
servers are what a rename or a new chart URL needs. The resource is created with a Helm
source: a git source is an edit of it, and going back is not reached.

For `WorkloadBundles` the bounds are per scene. One edit reaches every change of what is
wanted, and one fault every half-done call; with two edits a workload may change and be
deleted, or change twice. Two workspaces and two components are what clean-ups compare.
The `GitOps` scenes have one edit only: departure 6 below is what a second one that takes
back the first does to `RestIsPublished`, and components whose file a clean-up removed
are left out of it (`cleaned`) for departure 7. A Helm workload has two faults, since an
uninstallation may fail as well as the call for it.

For `PullSecrets`, two workloads sharing one secret are what it takes for one to take
from the other, and for two scripts to overwrite each other's patch; `MaxBounces` is 3 in
the code and 2 here, which is enough to count, to go on and to stop; one slot of a pod,
with two UIDs, has a predecessor and a successor. `RestIsServed` speaks of runs without a
failed call or deletion, for departures 11 and 12; and each workload has a secret that
the other lacks. The premise `HookApart` of `RestIsServed`, `PodDeletionsEnd` and
`SecretsArrive` says that a webhook's secrets are neither delivered nor an
administrator's, without which none of the three holds (departure 13). The scene
`Confusing` has a webhook that gives pods a delivered secret, and shows the other
properties of such a controller.
One scene has both workloads on the operator's cluster, without edits.

For `SettingsRepos`, two edits are a save and a rotation, or a save that takes back
another, at any stage of a pass; two faults leave a call half done and its repetition as
well, or make two look-ups fail. `MaxEvents` allows three of both together: what takes two
edits and two failures is not reached here. The specifications users save are the empty
one, one with mirrored NVIDIA repositories and a catalog, and one with anonymous access.
The stored one is full, so that each save both adds and removes, or empty, so that
credentials may be found by their well-known names.

Deadlock is checked where the loops of passes and of calls never stop. Where resources
are deleted or a controller comes to rest (`ext_install`, `workload_bundles`,
`pull_secrets`, `settings_repos` and the small runs of `ExtensionInstall` and
`WorkloadBundles`) a state without successor is a normal one, and it is not.

### Fairness

`AIWorkloadOperations`: `PassStep`, because a pass always continues and the work queue
runs it again after every watched write, error or requeue; `CacheSync`, because the
informer catches up; `DeadlinePasses`, because time does. For `Converges` also each
component's Fleet controllers. Nothing is assumed of users, handlers, faults or
`RepoAppears`; instead `OperationsConclude` and `Converges` assume that the repository is
there for good from some moment on, because while it is missing every pass returns before
the deadline is looked at (`aiworkload_controller.go:199`). They also exclude the request
of the first finding, which keeps every pass in `handleTriggers`.

`HelmRelease`: `EnsureRelease`, because the controller calls again every minute;
`CallStep`, because Helm's actions have time-outs; `Exit`, because the drain is bounded;
the two expiries, because time passes. `Converges` assumes that a release stuck by a kill
does not stay stuck, nor one `uninstalling` that an uninstall left when it failed or was
killed: `EnsureRelease` has no way out of these states, and says so.

`ExtensionInstall`: `PassStep`, because the queue runs a failed or waiting pass again;
`TimePasses`; `Rollout` of each release, because a Deployment that can be rolled out is.
Its `Converges` assumes that operations on the releases end, that the spec does not
collide and that the name of a Helm source is not changed, which finding 2 is about;
`BoundedWaits` assumes nothing but that the resource is not deleted.

`WorkloadBundles`: `Pass` and `Observe`, the work queue and the informer; `Generate` and
`ApplyFile`, Fleet's controllers, which the operator depends on; Rancher's running
operations. Not `Collect`, because the operator does not rely on Fleet to delete a
Bundle, nor `UninstallByUser`: without a token a deletion waits for the user, and
`DeletionsEnd` says so.

`PullSecrets`: `PassStep`; each script and `FleetApplies`, the CronJob's schedule and
Fleet; `Sync`, the informer; `PodStep`, the kubelet and the pods' controller.
`SecretsArrive` assumes that the workload's passes come again, which polls and events see
to but a settled workload has no right to, and that its Blueprint is there.

`SettingsRepos`: `Pass`, the work queue and its worker. `RegistriesSettle` leaves out
Settings that end every pass with an error, as the code means them to (`FailForGood`):
Fleet's Secret or CA is missing or malformed (`settings_controller.go:594-601`), or the CA
of a registry that has credentials (`settings_controller.go:745-748`, `818-830`). Such a
pass gets neither to the registries after the failing one, NVIDIA's and the custom
repositories included, nor to the Rancher client. It also leaves out a registry whose last
look-up of credentials failed unnoticed, departure 17.

## Where the code departs from its comments

Three have a run.

1. *Upgrade to the current version* (`ops_v_upgrade_current`). `handleTriggers` serves it
   by `startRetry`, which removes the retry request and records `Retry|nonce`. The
   upgrade request stays, so each pass starts the operation again, raises the epoch, and
   never renders. `finishTrigger`'s comment: "remove request, record handled".
2. *Renamed extension* (`ext_v_rename`). The name a Helm-sourced extension was installed
   under stays in `status.activeExtensionName` until the chart stage, after the wait for
   the server. So each pass of that wait sees a change of name and uninstalls the server
   it then installs again, whose Deployment starts over. It ends only if the server is up
   within one pass. `awaitReleaseRunning`'s comment: "so install completes immediately
   once readiness is reached".
3. *Disabled component of a git-backed repository* (`bundles_v_disabled`).
   `cleanupStaleHelmOps` lists HelmOps; a git chart has only a Bundle, which stays
   deployed. The comment at `blueprint.go:224`: a disabled component "is simply absent from
   the desired set, so cleanupStaleHelmOps below tears down its HelmOp/Bundle".

The rest was met in the code while modelling. A property that one of them would break
says so in a premise of its own, or its run leaves the case out, as *Bounds* says.

*Operations and rendering.*

4. Rollback drift. `rollbackDrift` (`operations.go:272`) compares `status.deployedSource`
   with the digest copied from it. Until the target is certified again these are the
   same, and the rollback succeeds at once, whatever the target's Blueprint has become.
5. Retry after a failure. The render digest leaves the forced sync generation out
   (`certify.go:47`), so the failed BundleDeployment of the attempt before still counts
   as current and fails the retry. And `spec.fleetBundleNames` is filled once: a retry
   does not wait for components added since (`operations.go:251`), a deletion does not
   tear them down, and their events wake nobody.
6. A published file and its annotation. The file is pushed before the annotation is
   written. If an edit is taken back between the two, the update is refused, the next pass
   finds the annotation equal to the hash of the first content and skips: the repository
   keeps the second content for good.
7. The file of a component has both workspaces' objects. A clean-up of one workspace, or
   of a component that is then enabled again, deletes the file and leaves the annotation,
   so it is not published again.
8. Interrupted deletions. A stop between the deletion of a stale HelmOp and of its Bundle
   leaves a Bundle no later pass looks for (`blueprint.go:1710`). An error in deleting a
   git file is logged and the finalizer goes. A workload deleted before it has its
   finalizer leaves what it has; an App whose file is withdrawn before Fleet made the
   HelmOp waits for ever. A release left `uninstalling` by a killed job counts as in
   progress for ever.
9. An App in git goes with its HelmOp: removing Fleet's repository in Settings removes
   the HelmOps, and the workloads delete themselves; `getHelmOp`'s two reads may miss one
   that moves from one workspace to the other. `deleteAIWorkload` skips the withdrawal of
   pull secrets.
10. A plain Update in the middle of a pass (`publishBlueprintGitFile`,
    `syncSpecFromHelmOp`) replaces the status gathered so far by the stored one; the next
    pass gathers it again. With the Blueprint gone the matrix of an earlier pass stays
    and may conclude an operation (`blueprint.go:104`). When a repository changes from
    HTTP to git, the HelmOp of before is found neither stale nor updated.

*Pull secrets.*

11. `pruneLocalSAImagePullSecrets` takes a deleted workload's secrets off every
    ServiceAccount, those a surviving workload shares included, and nothing wakes the
    survivor (`pullsecrets.go:946`). Entries downstream are never removed.
12. An error after a ServiceAccount was patched, and a retry before the informer has seen
    the pods, ends settled without the rescue of a pod. Two failing replicas share one
    annotation for the last pod, so that with an old copy a pod may count twice. A
    StatefulSet's pod is deleted by name, which may hit its successor. Two workloads of
    one cluster that deliver the same secrets: if the pass of the other merges them, that
    of the owner finds nothing to change, and a pod admitted before, which the informer
    does not show yet, waits with nothing queued (`pullsecrets.go:67`).
13. A webhook that replaces a pod's list by a secret the ServiceAccount has as well makes
    each new pod look like one admitted before the merge: `recreateForDeliveredSecret`
    deletes it again, uncounted and without end (`pullsecrets.go:349-372`), although "the
    recreated pod is admitted with the secret and no longer qualifies, so they stop on
    their own" (`253-255`) and what the webhook gave was to be told apart, which "keeps
    them from repeating without a bound" (`355-360`). Only a secret that is not on the
    ServiceAccount is told apart. The premise `HookApart` excludes it.
14. The script reads, then patches the whole list: an administrator's addition in between
    is lost (`ForeignIsKept` is about the operator's cluster). The Bundle's name lacks the
    namespace of its owner.

*Settings.*

15. The edge "credentials rotated" is computed from the copy that the same call
    overwrites (`settings_controller.go:755`): if a later call fails, the next pass sees
    no change and Rancher is not told; and a copy that cannot be read counts as unchanged.
    `FaultlessRestIsClean` holds without faults only.
16. Pruning finds a Secret through its repository, which it deletes first: a failure in
    between leaves the Secret. A change of a custom repository's authentication looks at
    `cattle-system`'s copy alone; a deletion that fails half way may leave a Secret of
    the old type in a workspace, on which every later pass fails. The comment there
    speaks of deletion in all namespaces.
17. `EffectiveRefs` has no error to return. When it cannot read the Secret of explicit
    references (`credentials.go:158`), or the well-known one, or cannot complete NVIDIA's
    (`176-186`), it goes on to the well-known Secret or to the references as they are. The
    registry is then mirrored from the other Secret, or torn down with its ClusterRepo, by
    a pass that succeeds; nothing queues another on that account, and the state stays until
    the next event. Wiring writes what it found into Settings: known references may replace
    explicit ones that do resolve, for good, although "Explicit Settings refs win when both
    are set" (`credentials.go:145`). `RestIsSettled` and `RegistriesSettle` excuse the
    registry whose own last look-up failed (`astray`), and nothing else.
18. The wiring's patch has the references of the pass's copy: those of a registry that it
    changes overwrite what was saved since the copy was read. A catalog's error is logged
    and not tried again before the next event.

*Extension and Helm client.*

19. `restartReadinessClocks` tells rollouts apart by revision number. The server of a new
    chart URL starts at revision 1; if the old one was at 1, a timed-out marker fails the
    new rollout when it is first looked at.
20. A pass cut off by a shutdown stores no status, and the server's name is stored only
    after its installation succeeded: a resource deleted before the next complete pass
    leaves the release behind. When an uninstallation fails, the name is forgotten
    (`installaiextension_controller.go:857`).

## Proofs

`AIWorkloadOperationsProofs` proves, for every set of versions and components and
every bound, from the assumptions of `AIWorkloadOperations` (each version has a
component; `None` is no operation, request, number or cell phase):

* `TypeCorrect`: `Spec => []TypeOK`, one lemma per group of actions.
* `AlwaysCoherent`: `Spec => []Coherent`.
* `NothingIsOverwritten`: `Spec => NothingOverwritten`.
* `OutcomeIsProjected`: `Spec => OutcomeProjectedBeforeClear`.

The last two rest on `Coherent`, the inductive strengthening: a cache or pass copy
that counts as current agrees with the stored object on everything but the status
(a pass derives status before it writes it); a pass past its first concluding write
holds a terminal journal; a pass about to clear it has stored that outcome. Without
the first part a write could not be compared with what it replaces; without the
others a step that clears the journal says nothing about earlier steps. `Safe`
collects what each step has to show: `Coherent'` and the two step properties.
`TypeOK` is needed besides, for the domains of the records updated.

`AIWorkloadEvidenceProofs` proves the other safety properties of that module. What any
step may do to the stored object and to its copies is one statement, `Effects`, proved
per group of actions on top of `Coherent`; on it rest

* `SuccessMatchesIntent`: `Spec => SucceededMatchesIntent`. A success is written only
  by the concluding write, over the very document it was computed from.
* `EpochsOnlyGrow`: `Spec => EpochNeverRegresses`, from `Epochs`: no copy and no HelmOp
  is ahead of the stored sync generation, and none is ahead of the copy a pass renders from.
* `RequestsStartOnce`: `Spec => []StartedOnce`, from `Fresh`: every identity started is
  below the next nonce, and a request that still stands in the object has started
  nothing: the write that starts it also takes it off, or is refused.
* `DeployedIsProven`: `Spec => []ProvenDeployed` and `FailureIsItsOwn`:
  `Spec => FailureBelongsToRender`, from `AlwaysEvidence`, an invariant in three parts
  none of which is inductive alone. `FleetTruth`: a BundleDeployment wants what its
  observed Bundle renders, and what it reports ready or failed did roll out or fail.
  `PassTruth`: a component the certifying loop has left was ready with the desired
  digest when it was looked at, and a failed cell of the matrix carries the digest that
  failed. `DeployedTruth`: what the stored object, the cache, the copy and every rollback
  under way name as deployed was rolled out in all components. History only grows, so
  what a pass saw stays true however old its reads are.

`HelmReleaseProofs` proves, for all charts, values and bounds:

* `HelmTypeCorrect`: `Spec => []TypeOK`, from `Shaped`: what a call has loaded or
  found is there until it is used, and at most one revision is marked deployed.
* `NoPendingLeftBehind`: `Spec => []PendingIsRunning`. The steps are split by whether
  they write revisions; it is inductive on top of `Shaped`.
* `EnsureTellsTheTruth`: `Spec => EnsuredIsDeployed`, assuming `TagsAreVersions`:
  every tag is its chart's version. The property itself speaks only of the time
  before a chart is pushed again. Both premises are needed: the skip compares the
  stored chart version with the requested tag, so a chart tagged t2 that says it is
  version t1 makes a later return to t1 look like no change; and the latch and the
  chart cache hide a chart pushed again until they expire. The invariant `Truth` says
  that downloads are what the registry has, that every revision records the
  rendering of its version and values, that the latch's equality is one of
  renderings, and that the revision being written is the requested one. Each of the
  four ways to success then yields the same equation.

`ExtensionInstallProofs` proves, for all specs, releases, versions and bounds, from
`SpecAssumption` (a spec has a server exactly when its source is Helm; `None` is no
release, version or copy):

* `ExtensionTypeCorrect`: `Spec => []TypeOK`.
* `ObservedMeansApplied`: `Spec => []ObservedIsApplied`.

Both rest on `IInv`. `ObservedIsApplied` is not inductive: a pass reports for the
generation it read, possibly long after an edit, and the next pass may uninstall what
an observed status stands for. `Shaped` says that the copy of the current generation
has the current spec; `Progress`, what a pass has already established at each stage;
`Observed`, that a generation observed in the store or in the copy was applied and is
named by the same status, so that `RemoveStale` and `TakeHelmSource` find nothing of
it to remove. One lemma per action, on top of lemmas about the steps they share
(`StampEffect`, `EnsureStep`, `FailStep`, `AwaitStep`, `ReadinessStep`). On top of it

* `DeletionFindsCharts`: `Spec => []ChartsAreFound`, from `Found`: between passes only
  the recorded name has an extension release, during a pass only the name its copy
  records, and after the first stage only the name its spec asks for. `EnsureRepo` can
  therefore record the new name before anything is installed under it.
* `UpgradesRestart`: `Spec => UpgradesRestartTheClock`, from `Timed`: a readiness clock
  that runs was started for the release and revision of the status, and the copy's clocks
  are the stored ones unless the pass was refused a write of them. It needs that what is
  deployed has a revision (`Numbered`): revision 0 means that none was observed yet.

`ReleaseContractProofs` proves, for all charts, values and bounds, `RefinesContract`:
`Spec => KeepsContract`, that is, `HelmRelease` implements `ReleaseContract` under the
mapping given there. Besides `Shaped` it needs that whoever
writes has a pending revision, and whoever is about to write found none. Each action maps to one
step of the contract or to none; the work is in the mapping of Helm's list of revisions,
where only the newest may be pending and at most one is deployed.

`WorkloadBundlesProofs` proves, for every set of components, every scene and bound:

* `BundlesTypeCorrect`: `Spec => []TypeOK`, with what the list of each stage consists
  of (`TypeInv`).
* `DeletionLeavesNothing`: `Spec => []GoneIsTornDown`. Each copy is an older
  version of the workload (`Lags`), so a pass tears down exactly when its copy is
  deleting, with all names on its list unless nothing was ever rendered. A component off
  that list is `Torn`, and nothing makes it again: there is one pass at a time, and Fleet
  makes nothing of what is not there (`Teardown`).
* `NothingGoesByItself`: `Spec => []OnlyDeletedIsGone`. A workload removes itself only
  after a HelmOp was seen (`synced`), and none is found then only when the file was
  withdrawn or the workload deleted (`Wanting`).
* `CleanUpKeeps`: `Spec => KeptWhileSteady`. What a clean-up lists is unwanted by the
  copy the pass read, and so has not been wanted ever since the start; also part of
  `Lags`.
* `RestMeansRendered`: `Spec => []RestIsRendered`, from `Rendering`: as long as nothing
  queued the workload again, the pass works on what the informer has, and what it wrote is
  still there. Any change of Fleet's objects queues a workload whose copy has the names,
  and only such a copy is rendered; without a fault no Bundle outlives its HelmOp.
* `RestMeansPublished`: `Spec => []RestIsPublished` if `OneEdit` (a Blueprint in git is
  edited once at most, at any time, beside any failures): with an edit that is taken back
  the property is false, departure 6. It rests on `Publishing`. A pass trusts the
  annotation and never looks at the repository, so an annotation of today's content has
  to mean that the file has it and that no copy of other content is left in the informer
  or in a pass (`Trusted`), and what a copy says of an annotation still has to be stored
  (`Kept`). The other safety properties hold of any number of edits.

`PullSecretsProofs` proves, for all workloads, secrets, ServiceAccounts, controllers and
bounds:

* `PullSecretsTypeCorrect`: `Spec => []TypeOK`, with what each list consists of.
* `NoMoreBounces`: `Spec => []BouncesAreBounded`. What is spent never exceeds what is
  counted, and is less while a pass has counted and not deleted yet (`Counted`).
* `NobodyElsesSecret`: `Spec => ForeignIsKept`. It needs that on the operator's cluster
  nothing is installed and no script runs (`NoScripts`), and that a pass writes a
  ServiceAccount only if it still is what it read.
* `DeletionWithdraws`: `Spec => []GoneIsWithdrawn`, assuming `Foreign` and the delivered
  secrets apart: an administrator may give a workload's secret back after it is gone.
  `Withdrawing` says what a deleting pass has taken off already: what it has not come to
  yet is in its copy of the ServiceAccounts. Only passes of live workloads add to one,
  and these need nothing that another alone delivers.
* `RestMeansServed`: `Spec => []RestIsServed`, from `Serving`. A pass that gave a
  ServiceAccount something comes back with an informer that has caught up. So while no
  pass is due and nothing is lacking, every pod without its secrets is cared for or in the
  informer (`Known`), and the pass through the pods still comes to it (`ToCome`) or another
  is queued. `Sourced` makes a pod's secrets tell when it was admitted; `Removed` makes
  the remembered pod one that is going, so that skipping it loses nothing. Assumed are
  `Foreign` and the delivered secrets apart, `OwnSecrets` (on its cluster a workload has a
  secret that no other brings); that a webhook gives what nobody else does, `HookApart`,
  is a premise of the property. Without `OwnSecrets` TLC finds the last case of departure
  12; without the others an administrator's new secret makes a pod worth deleting with
  nothing queued.

`SettingsReposProofs` proves, for all registries, repositories, catalogs and bounds:

* `SettingsTypeCorrect`: `Spec => []TypeOK`, with what each stage works on (`Aims`).
* `ChartKeepsItsCatalogs` and `OmittedRefsGo`: `Spec => RemovedByHelmIsGone` and
  `Spec => OmittedRefIsGone`, from `Saving`: a catalog the chart declared is owned by the
  chart alone, and no save under way asks for it; what a save omits is still to be
  cleared, or is explicit no more. The latter has to survive the controller, which wires
  references between the two writes, and an `owners` entry that is its and not `api`'s.
* `ListedIsKept`: `Spec => WantedIsKept`, from `Keeping`: once the pass is past the
  registries, every listed custom repository waits in the list, is kept, or has its name
  taken by a ClusterRepo of somebody else (`Covered`).
* `RestMeansSettled`: `Spec => []RestIsSettled`, from `Settling`. The property speaks of
  moments without a pass, and a pass works on a copy that may be outdated by then. So the
  invariant says what each stage has established of the specification it read (`Settles`),
  and that this is the stored one unless the pass is queued again; and whoever changes what
  a settled object goes by queues it (`Calm`). A look-up that fails unnoticed changes
  nothing of that for the other registries: what a stage has established of a registry it
  has established of the references found, which are the right ones unless the registry is
  in `astray`, and only its own next look-up, in a pass that starts over, takes it out.
* `FaultlessMeansClean`: `Spec => []FaultlessRestIsClean`, from `Faultless`: until a call
  fails, both places hold the same copy, of the type asked for, Rancher has read it, and
  the controller still finds it (`Clean`); and no catalog or client was left out by a pass
  past it (`Served`).

`TypeOK` of `AIWorkloadOperations` and of the last three modules is proved, and in no run.

Only model-checked: the liveness properties, which TLAPS cannot prove (fairness,
`ENABLED`). Every safety property of a passing run is a theorem. What recursive definitions or folds compute for every input
is out of its reach as well; no theorem rests on one.

## Plan

Done: the operations, the extension, the Helm client and its contract, rendering and
deletion, pull secrets, settings. What is left, in this order:

1. Render baselines (`certify.go:121-190`) as an extension of the operations.
2. Pure operators against reference definitions: `derivePhase`, Helm readiness, the merge
   of catalogs.

## Not modelled

Credential checks and guarded HTTP transport have no state here; of the git client only a
file's writing and deletion matter, as steps of `WorkloadBundles`; infrastructure clients
are single calls; start-up code is wiring. `helm_readiness.go` and the mirrored phases of
App workloads map objects to a status for the user and keep nothing. Payloads of Secrets,
of Bundles and of rendered charts, spelling of names, events and conditions are left out
throughout. The UI, charts and CI are outside the operator. `PROJECT.json` names every
part with its status.

------------------------ MODULE AIWorkloadOperations ------------------------
(***************************************************************************)
(* Recovery operations (upgrade, rollback, retry) of one Blueprint-sourced *)
(* AIWorkload deployed with Fleet: the HTTP handlers that ask for one, the *)
(* reconcile pass that journals, renders, observes, certifies and          *)
(* concludes it, and the Fleet controllers that roll the rendering out.    *)
(*                                                                         *)
(* The stored object w is written by several parties.  The operator reads  *)
(* it from an informer cache that may lag, works on a private copy, and    *)
(* its Update and Status().Update calls succeed only while no other write  *)
(* has happened since the version it read.  The HTTP handlers patch single *)
(* fields and are never refused.                                           *)
(***************************************************************************)
EXTENDS Integers, Sequences, FiniteSets

CONSTANTS
    Versions,        \* versions of the workload's Blueprint
    Components,      \* chart names; one HelmOp/Bundle/BundleDeployment each
    ComponentsOf,    \* [Versions -> SUBSET Components]
    InitialVersion,  \* spec.source.blueprint.version at creation
    Absent,          \* versions with no Blueprint object at the start
    AgentStates,     \* display states a rollout may end in
    MaxHandledOps,   \* journal.go: maxHandledOps
    CreatedNow,      \* whether the workload is new, or older than 5 minutes
    CacheLags,       \* whether the informer may show an older object
    None,            \* an annotation, field or object that is not there
    MaxNonce,        \* bound: recovery requests
    MaxEpoch,        \* bound: retry epoch
    MaxEdits,        \* bound: edits of the spec and of Blueprints
    MaxFaults        \* bound: crashes, failed reads, degradations in Fleet

ASSUME ComponentsAssumption ==
    ComponentsOf \in [Versions -> (SUBSET Components) \ {{}}]
ASSUME VersionsAssumption == InitialVersion \in Versions /\ Absent \subseteq Versions
ASSUME AgentAssumption == AgentStates \subseteq {"Ready", "ErrApplied"}
ASSUME BoundsAssumption ==
    /\ MaxHandledOps \in Nat \ {0} /\ CacheLags \in BOOLEAN
    /\ CreatedNow \in BOOLEAN
    /\ {MaxNonce, MaxEpoch, MaxEdits, MaxFaults} \subseteq Nat

VARIABLES
    w,             \* the stored AIWorkload
    cache,         \* the informer's copy of w
    cacheCurrent,  \* no write to w since the copy
    pc,            \* where the reconcile pass is
    mem,           \* the pass's private copy of w
    memCurrent,    \* no write to w by another party since mem was read
    todo,          \* components the current loop of the pass still visits
    bpRev,         \* content revision of the Blueprint the pass read
    cells,         \* component matrix under construction
    result,        \* what reconcileStatus returned
    blueprint,     \* content revision per version, 0 when there is no object
    helmOp, bundle, bd,  \* the Fleet objects per component
    repoReady,     \* the ClusterRepo of the components is there
    overdue,       \* operations started more than 30 minutes ago
    young,         \* the workload was created less than 5 minutes ago
    retryGate,     \* the retry handler is between its check and its patch
    nextNonce, edits, faults,          \* counters under the bounds
    rolledOut, failedOut, started, repeated  \* history, for the properties

store   == <<w, cache, cacheCurrent>>
pass    == <<pc, mem, memCurrent, todo, bpRev, cells, result>>
fleet   == <<helmOp, bundle, bd>>
world   == <<blueprint, repoReady, overdue, young>>
client  == <<retryGate, nextNonce, edits>>
history == <<rolledOut, failedOut, started, repeated>>
vars    == <<store, pass, fleet, world, client, faults, history>>

-----------------------------------------------------------------------------
(* Data.  A render digest identifies the chart, its version and its values: *)
(* here the Blueprint version and the revision of that Blueprint's content. *)
(* The forced sync generation is deliberately no part of it.                *)

Kinds    == {"up", "rb", "rt"}     \* of request annotations
OpTypes  == {"Upgrade", "Rollback", "Retry"}
OpStates == {"InProgress", "Succeeded", "Failed", "Superseded"}
Reasons  == {"", "BlueprintDrift", "TimedOut"}
Phases   == {"Pending", "Running", "Failed", "Degraded"}
CellPhases == {"Pending", "Running", "Failed"}
Points   == {"idle", "triggers", "render", "cleanup", "matrix", "certify",
             "persist", "operation", "project", "clear"}

Digests == [version : Versions, rev : Nat]
Renders == [digest : Digests, epoch : Nat]
Digest(v, r) == [version |-> v, rev |-> r]

Operations ==
    [type : OpTypes, nonce : Nat, target : Versions \cup {None},
     expected : Digests \cup {None}, epoch : Nat, intent : Versions,
     state : OpStates, reason : Reasons]

Requests == [nonce : Nat, target : Versions]

ASSUME NoneAssumption ==
    None \notin Operations /\ None \notin Requests \cup Nat \cup CellPhases

Snapshots == [version : Versions, digest : Digests]
Cells == [Components -> CellPhases \cup {None}]
NoCells == [c \in Components |-> None]

\* spec.version, spec.fleetBundleNames; the annotations journal, handled,
\* epoch and the three requests; status.activeOperation, deployedSource,
\* componentStatuses and phase.
Workloads ==
    [version : Versions, names : SUBSET Components,
     journal : Operations \cup {None}, handled : Seq(OpTypes \X Nat),
     epoch : Nat, up : Requests \cup {None},
     rb : Nat \cup {None}, rt : Nat \cup {None},
     active : Operations \cup {None}, deployed : Snapshots \cup {None},
     cells : Cells, phase : Phases]

NewWorkload ==
    [version |-> InitialVersion, names |-> {}, journal |-> None,
     handled |-> <<>>, epoch |-> 0, up |-> None, rb |-> None, rt |-> None,
     active |-> None, deployed |-> None, cells |-> NoCells,
     phase |-> "Pending"]

Bundles == [render : Renders, observed : BOOLEAN, ready : BOOLEAN]
BDStates == {"Ready", "Modified", "ErrApplied", "Progressing"}
BundleDeployments ==
    [desired : Renders, applied : Renders \cup {None}, state : BDStates,
     sync : Nat]

TypeOK ==
    /\ w \in Workloads /\ cache \in Workloads /\ mem \in Workloads
    /\ cacheCurrent \in BOOLEAN /\ memCurrent \in BOOLEAN
    /\ pc \in Points /\ todo \subseteq Components /\ bpRev \in Nat
    /\ cells \in Cells /\ result \in {"ok", "requeue"}
    /\ blueprint \in [Versions -> Nat]
    /\ helmOp \in [Components -> Renders \cup {None}]
    /\ bundle \in [Components -> Bundles \cup {None}]
    /\ bd \in [Components -> BundleDeployments \cup {None}]
    /\ repoReady \in BOOLEAN /\ young \in BOOLEAN
    /\ overdue \subseteq OpTypes \X Nat
    /\ retryGate \in BOOLEAN
    /\ nextNonce \in Nat /\ edits \in Nat /\ faults \in Nat
    /\ rolledOut \subseteq Components \X Digests
    /\ failedOut \subseteq Components \X Digests
    /\ started \subseteq Kinds \X Nat /\ repeated \subseteq Kinds \X Nat

Init ==
    /\ w = NewWorkload /\ cache = NewWorkload /\ cacheCurrent = TRUE
    /\ pc = "idle" /\ mem = NewWorkload /\ memCurrent = FALSE
    /\ todo = {} /\ bpRev = 0 /\ cells = NoCells /\ result = "ok"
    /\ blueprint = [v \in Versions |-> IF v \in Absent THEN 0 ELSE 1]
    /\ helmOp = [c \in Components |-> None]
    /\ bundle = [c \in Components |-> None]
    /\ bd = [c \in Components |-> None]
    /\ repoReady = TRUE /\ overdue = {} /\ young = CreatedNow
    /\ retryGate = FALSE /\ nextNonce = 1 /\ edits = 0 /\ faults = 0
    /\ rolledOut = {} /\ failedOut = {} /\ started = {} /\ repeated = {}

-----------------------------------------------------------------------------
(* Writing the stored object.                                              *)

\* Faulty variants of a definition stand before it, marked "Fault:".

\* Fault: a merge patch without the resource version.
WriteUnchecked == TRUE

\* The resource version check of Update and Status().Update.
WriteAccepted == memCurrent

\* The object changes, unless the write leaves it as it was; the informer
\* sees it later.
Store(new) ==
    /\ w' = new
    /\ IF CacheLags
       THEN cacheCurrent' = (cacheCurrent /\ new = w) /\ UNCHANGED cache
       ELSE cache' = new /\ UNCHANGED cacheCurrent

\* A successful write of the operator; the response refreshes its copy.
Write(new) ==
    /\ WriteAccepted /\ Store(new)
    /\ mem' = new /\ UNCHANGED memCurrent

\* A patch by another party.
Patch(new) ==
    Store(new) /\ memCurrent' = (memCurrent /\ new = w)

GoTo(p) == pc' = p /\ UNCHANGED <<todo, bpRev, cells, result>>

\* The locals of a pass after it returned.
Forget ==
    /\ pc' = "idle" /\ todo' = {} /\ bpRev' = 0 /\ cells' = NoCells
    /\ result' = "ok"

EndPass ==
    /\ Forget /\ mem' = NewWorkload /\ memCurrent' = FALSE
    /\ UNCHANGED store

\* A write after which the pass returns.
LastWrite(new) ==
    /\ WriteAccepted /\ Store(new)
    /\ Forget /\ mem' = NewWorkload /\ memCurrent' = FALSE

-----------------------------------------------------------------------------
(* Request handlers of the HTTP API and the users' own edits.              *)

InProgress(op) == op # None /\ op.state = "InProgress"

\* The handler asks for any version, whatever runs now.
RequestUpgrade(v) ==
    /\ nextNonce <= MaxNonce
    /\ Patch([w EXCEPT !.up = [nonce |-> nextNonce, target |-> v]])
    /\ nextNonce' = nextNonce + 1
    /\ UNCHANGED <<pc, mem, todo, bpRev, cells, result, fleet, world,
                   retryGate, edits, faults, history>>

RequestRollback ==
    /\ nextNonce <= MaxNonce
    /\ Patch([w EXCEPT !.rb = nextNonce])
    /\ nextNonce' = nextNonce + 1
    /\ UNCHANGED <<pc, mem, todo, bpRev, cells, result, fleet, world,
                   retryGate, edits, faults, history>>

\* The retry handler refuses while an operation runs, then patches the
\* object as it is by then.
RetryAllowed ==
    /\ ~retryGate /\ nextNonce <= MaxNonce
    /\ ~InProgress(w.active) /\ ~InProgress(w.journal)
    /\ retryGate' = TRUE
    /\ UNCHANGED <<store, pass, fleet, world, nextNonce, edits, faults, history>>

RequestRetry ==
    /\ retryGate /\ nextNonce <= MaxNonce
    /\ Patch([w EXCEPT !.rt = nextNonce])
    /\ retryGate' = FALSE /\ nextNonce' = nextNonce + 1
    /\ UNCHANGED <<pc, mem, todo, bpRev, cells, result, fleet, world,
                   edits, faults, history>>

\* The update handler applies the whole spec, with the version it names.
UserEdit(v) ==
    /\ edits < MaxEdits /\ v # w.version
    /\ Patch([w EXCEPT !.version = v])
    /\ edits' = edits + 1
    /\ UNCHANGED <<pc, mem, todo, bpRev, cells, result, fleet, world,
                   retryGate, nextNonce, faults, history>>

BlueprintEdit(v) ==
    /\ edits < MaxEdits /\ blueprint[v] # 0
    /\ blueprint' = [blueprint EXCEPT ![v] = @ + 1]
    /\ edits' = edits + 1
    /\ UNCHANGED <<store, pass, fleet, repoReady, overdue, young, retryGate,
                   nextNonce, faults, history>>

BlueprintDelete(v) ==
    /\ edits < MaxEdits /\ blueprint[v] # 0
    /\ blueprint' = [blueprint EXCEPT ![v] = 0]
    /\ edits' = edits + 1
    /\ UNCHANGED <<store, pass, fleet, repoReady, overdue, young, retryGate,
                   nextNonce, faults, history>>

-----------------------------------------------------------------------------
(* Start of a pass and the request triggers: upgrade, then rollback, then  *)
(* retry, at most one per pass.                                            *)

CacheSync ==
    /\ ~cacheCurrent
    /\ cache' = w /\ cacheCurrent' = TRUE
    /\ UNCHANGED <<w, pass, fleet, world, client, faults, history>>

BeginPass ==
    /\ pc = "idle"
    /\ mem' = cache /\ memCurrent' = cacheCurrent
    /\ GoTo("triggers")
    /\ UNCHANGED <<store, fleet, world, client, faults, history>>

IsHandled(m, id) == \E i \in DOMAIN m.handled : m.handled[i] = id

\* The list of handled identities keeps the most recent MaxHandledOps.
AddHandled(m, id) ==
    IF IsHandled(m, id) THEN m.handled
    ELSE LET all == Append(m.handled, id)
         IN  IF Len(all) > MaxHandledOps THEN Tail(all) ELSE all

StartVersionOp(m, type, nonce, target, expected) ==
    [m EXCEPT !.version = target,
              !.handled = AddHandled(m, <<type, nonce>>),
              !.journal = [type |-> type, nonce |-> nonce, target |-> target,
                           expected |-> expected, epoch |-> 0,
                           intent |-> target, state |-> "InProgress",
                           reason |-> ""]]

\* The counter stops at its bound, which only an endless run of retries of
\* the same request reaches when MaxEpoch is at least MaxNonce.
NextEpoch(epoch) == IF epoch < MaxEpoch THEN epoch + 1 ELSE epoch

StartRetry(m, nonce) ==
    [m EXCEPT !.epoch = NextEpoch(m.epoch),
              !.rt = None,
              !.handled = AddHandled(m, <<"Retry", nonce>>),
              !.journal = [type |-> "Retry", nonce |-> nonce, target |-> None,
                           expected |-> None, epoch |-> NextEpoch(m.epoch),
                           intent |-> m.version, state |-> "InProgress",
                           reason |-> ""]]

UpgradePending(m) == m.up # None /\ ~IsHandled(m, <<"Upgrade", m.up.nonce>>)
RollbackPending(m) ==
    m.up = None /\ m.rb # None /\ ~IsHandled(m, <<"Rollback", m.rb>>)
RetryPending(m) ==
    /\ m.up = None /\ m.rb = None /\ m.rt # None
    /\ ~IsHandled(m, <<"Retry", m.rt>>)

HasRollbackTarget(m) == m.deployed # None /\ m.deployed.version # m.version

\* A started operation has the clock of its own request time.
Started(kind, type, nonce) ==
    /\ overdue' = overdue \ {<<type, nonce>>}
    /\ started' = started \cup {<<kind, nonce>>}
    /\ repeated' = repeated \cup (started \cap {<<kind, nonce>>})
    /\ UNCHANGED <<fleet, blueprint, repoReady, young, client, faults,
                   rolledOut, failedOut>>

HandleUpgrade ==
    /\ pc = "triggers" /\ UpgradePending(mem) /\ mem.up.target # mem.version
    /\ LastWrite([StartVersionOp(mem, "Upgrade", mem.up.nonce, mem.up.target, None)
                  EXCEPT !.up = None])
    /\ Started("up", "Upgrade", mem.up.nonce)

\* Upgrading to the current version is a retry with the upgrade's nonce.
HandleUpgradeToCurrent ==
    /\ pc = "triggers" /\ UpgradePending(mem) /\ mem.up.target = mem.version
    /\ LastWrite(StartRetry(mem, mem.up.nonce))
    /\ Started("up", "Retry", mem.up.nonce)

HandleRollback ==
    /\ pc = "triggers" /\ RollbackPending(mem) /\ HasRollbackTarget(mem)
    /\ LastWrite([StartVersionOp(mem, "Rollback", mem.rb, mem.deployed.version,
                                 mem.deployed.digest)
                  EXCEPT !.rb = None])
    /\ Started("rb", "Rollback", mem.rb)

SkipRollback ==
    /\ pc = "triggers" /\ RollbackPending(mem) /\ ~HasRollbackTarget(mem)
    /\ LastWrite([mem EXCEPT !.rb = None,
                             !.handled = AddHandled(mem, <<"Rollback", mem.rb>>)])
    /\ UNCHANGED <<fleet, world, client, faults, history>>

HandleRetry ==
    /\ pc = "triggers" /\ RetryPending(mem)
    /\ LastWrite(StartRetry(mem, mem.rt))
    /\ Started("rt", "Retry", mem.rt)

TriggerPending(m) == UpgradePending(m) \/ RollbackPending(m) \/ RetryPending(m)

-----------------------------------------------------------------------------
(* reconcileStatus for a Blueprint source.                                 *)

\* Fault: the bundles rendered are those of spec.fleetBundleNames.
WantedByName == IF mem.names = {} THEN ComponentsOf[mem.version] ELSE mem.names

Wanted == ComponentsOf[mem.version]

\* A workload that never ran is not shown as Failed while it is young.
GuardedPhase(derived, current) ==
    IF derived = "Failed" /\ current = "Pending" /\ young THEN "Pending"
    ELSE derived

PhaseFromCells(matrix) ==
    LET phases == {matrix[c] : c \in Components} \ {None}
    IN  IF phases = {} THEN "Pending"
        ELSE IF \E p \in CellPhases : phases = {p}
        THEN CHOOSE p \in CellPhases : phases = {p}
        ELSE "Degraded"

\* The pass found no request to act on and reads the Blueprint.
Untriggered == pc = "triggers" /\ ~TriggerPending(mem)

BlueprintNotFound ==
    /\ Untriggered /\ blueprint[mem.version] = 0
    /\ mem' = [mem EXCEPT !.phase = GuardedPhase("Failed", mem.phase)]
    /\ GoTo("persist")
    /\ UNCHANGED <<store, memCurrent, fleet, world, client, faults, history>>

NamesMissing ==
    Untriggered /\ blueprint[mem.version] # 0 /\ mem.names = {}

\* The names are derived once, from the version the first pass saw.
PopulateNames ==
    /\ NamesMissing
    /\ Write([mem EXCEPT !.names = Wanted])
    /\ pc' = "persist" /\ result' = "requeue"
    /\ UNCHANGED <<todo, bpRev, cells, fleet, world, client, faults, history>>

BlueprintFound ==
    /\ Untriggered /\ blueprint[mem.version] # 0 /\ mem.names # {}
    /\ pc' = "render" /\ todo' = Wanted
    /\ bpRev' = blueprint[mem.version]
    /\ UNCHANGED <<store, mem, memCurrent, cells, result, fleet, world, client,
                   faults, history>>

Desired == Digest(mem.version, bpRev)

Stale == {c \in Components \ Wanted : helmOp[c] # None}

\* Leaves one component of the current loop behind.
Visit(c, next, visits) ==
    IF todo = {c} THEN pc' = next /\ todo' = visits
    ELSE todo' = todo \ {c} /\ UNCHANGED pc

\* Server-side apply of one component's HelmOp; after the last, the HelmOps
\* the version no longer has are listed.
RenderComponent(c) ==
    /\ pc = "render" /\ repoReady /\ c \in todo
    /\ helmOp' = [helmOp EXCEPT ![c] = [digest |-> Desired, epoch |-> mem.epoch]]
    /\ IF Stale = {} THEN Visit(c, "matrix", Wanted) ELSE Visit(c, "cleanup", Stale)
    /\ UNCHANGED <<store, mem, memCurrent, bpRev, cells, result, bundle, bd,
                   world, client, faults, history>>

\* reconcileStatus returns early; what it gathered stays in mem.
StatusIncomplete(phase) ==
    /\ pc' = "persist" /\ result' = "requeue"
    /\ mem' = [mem EXCEPT !.phase = phase]
    /\ todo' = {} /\ cells' = NoCells
    /\ UNCHANGED <<store, memCurrent, bpRev, fleet, world, client, history>>

RenderBlocked ==
    /\ pc = "render" /\ ~repoReady
    /\ StatusIncomplete(GuardedPhase("Failed", mem.phase))
    /\ UNCHANGED faults

\* Two calls per stale component: its HelmOp, then its Bundle.
DeleteStaleHelmOp(c) ==
    /\ pc = "cleanup" /\ c \in todo /\ helmOp[c] # None
    /\ helmOp' = [helmOp EXCEPT ![c] = None]
    /\ UNCHANGED <<store, pass, bundle, bd, world, client, faults, history>>

DeleteStaleBundle(c) ==
    /\ pc = "cleanup" /\ c \in todo /\ helmOp[c] = None
    /\ bundle' = [bundle EXCEPT ![c] = None]
    /\ Visit(c, "matrix", Wanted)
    /\ UNCHANGED <<store, mem, memCurrent, bpRev, cells, result, helmOp, bd,
                   world, client, faults, history>>

\* Fault: the Bundle's observed generation is not compared.
BundleLabelCurrent(c, digest) ==
    bundle[c] # None /\ bundle[c].render.digest = digest

\* Fault: the digest covers the forced sync generation.
BundleRenderCurrentWithEpoch(c, digest) ==
    /\ bundle[c] # None /\ bundle[c].observed
    /\ bundle[c].render = [digest |-> digest, epoch |-> 0]

\* Fleet built the Bundle from this render and has processed that spec.
BundleRenderCurrent(c, digest) ==
    /\ bundle[c] # None /\ bundle[c].render.digest = digest
    /\ bundle[c].observed

\* Fault: the cell is not gated on the parent Bundle's render.
MatrixCellPhaseUngated(c, digest) ==
    IF bd[c] = None \/ bd[c].applied # bd[c].desired THEN "Pending"
    ELSE CASE bd[c].state \in {"Ready", "Modified"} -> "Running"
           [] bd[c].state = "ErrApplied" -> "Failed"
           [] OTHER -> "Pending"

MatrixCellPhase(c, digest) ==
    IF bd[c] = None \/ ~BundleRenderCurrent(c, digest) THEN "Pending"
    ELSE IF bd[c].applied # bd[c].desired THEN "Pending"
    ELSE CASE bd[c].state \in {"Ready", "Modified"} -> "Running"
           [] bd[c].state = "ErrApplied" -> "Failed"
           [] OTHER -> "Pending"

\* The matrix replaces the stored one when its last cell is there.
BuildCell(c) ==
    /\ pc = "matrix" /\ c \in todo
    /\ LET matrix == [cells EXCEPT ![c] = MatrixCellPhase(c, Desired)]
           phase  == GuardedPhase(PhaseFromCells(matrix), mem.phase)
       IN  IF todo = {c}
           THEN cells' = NoCells
                /\ mem' = [mem EXCEPT !.cells = matrix, !.phase = phase]
           ELSE cells' = matrix /\ UNCHANGED mem
    /\ Visit(c, "certify", Wanted)
    /\ UNCHANGED <<store, memCurrent, bpRev, result, fleet, world, client,
                   faults, history>>

BundleCertified(c, digest) == BundleRenderCurrent(c, digest) /\ bundle[c].ready

\* The version is proven deployed once every Bundle was found certified.
CertifyBundle(c) ==
    /\ pc = "certify" /\ c \in todo /\ BundleCertified(c, Desired)
    /\ Visit(c, "persist", {})
    /\ IF todo = {c}
       THEN mem' = [mem EXCEPT !.deployed = [version |-> mem.version,
                                             digest |-> Desired]]
       ELSE UNCHANGED mem
    /\ UNCHANGED <<store, memCurrent, bpRev, cells, result, fleet, world,
                   client, faults, history>>

NotCertified ==
    /\ pc = "certify" /\ \E c \in todo : ~BundleCertified(c, Desired)
    /\ pc' = "persist" /\ todo' = {}
    /\ UNCHANGED <<store, mem, memCurrent, bpRev, cells, result, fleet, world,
                   client, faults, history>>

-----------------------------------------------------------------------------
(* Status write and conclusion of the journalled operation.                *)

\* status.activeOperation follows the journal; without one, a concluded
\* operation whose intent the spec has left is dropped.
ProjectOperation(m) ==
    IF m.journal # None THEN [m EXCEPT !.active = m.journal]
    ELSE IF /\ m.active # None /\ m.active.state # "InProgress"
            /\ m.active.intent # m.version
         THEN [m EXCEPT !.active = None]
         ELSE m

PersistStatus ==
    /\ pc = "persist"
    /\ IF result = "ok"
       THEN Write(ProjectOperation(mem)) /\ GoTo("operation")
       ELSE LastWrite(ProjectOperation(mem))
    /\ UNCHANGED <<fleet, world, client, faults, history>>

RetrySyncSettled(m) ==
    \A c \in m.names : bd[c] # None => bd[c].sync >= m.journal.epoch

CertifiedAtTarget(m) ==
    IF m.journal.type = "Retry"
    THEN m.phase = "Running" /\ RetrySyncSettled(m)
    ELSE m.deployed # None /\ m.deployed.version = m.journal.target

AnyFailed(m) == \E c \in Components : m.cells[c] = "Failed"

RollbackDrift(m) ==
    /\ m.journal.type = "Rollback" /\ m.deployed # None
    /\ m.deployed.version = m.journal.target
    /\ m.deployed.digest # m.journal.expected

\* Fault: the deadline is measured from the last pass.
NeverLate(op) == FALSE

Late(op) == <<op.type, op.nonce>> \in overdue

\* Fault: the intent digest is not compared.
OutcomeOfAnyIntent(m) ==
    LET to(state) == [m.journal EXCEPT !.state = state]
    IN  IF ~InProgress(m.journal) THEN m.journal
        ELSE IF CertifiedAtTarget(m) THEN to("Succeeded")
        ELSE IF AnyFailed(m) \/ Late(m.journal) THEN to("Failed")
        ELSE m.journal

OperationOutcome(m) ==
    LET to(state, reason) == [m.journal EXCEPT !.state = state, !.reason = reason]
    IN  IF ~InProgress(m.journal) THEN m.journal
        ELSE IF m.journal.intent # m.version THEN to("Superseded", "")
        ELSE IF RollbackDrift(m) THEN to("Failed", "BlueprintDrift")
        ELSE IF CertifiedAtTarget(m) THEN to("Succeeded", "")
        ELSE IF AnyFailed(m) THEN to("Failed", "")
        ELSE IF Late(m.journal) THEN to("Failed", "TimedOut")
        ELSE m.journal

Concluding(m) ==
    m.journal # None /\ OperationOutcome(m).state # "InProgress"

\* Nothing to conclude: no journal, or one that is still in progress.
NothingToConclude ==
    /\ pc = "operation" /\ ~Concluding(mem)
    /\ EndPass
    /\ UNCHANGED <<fleet, world, client, faults, history>>

\* Fault: the journal is cleared without projecting its outcome.
JournalOutcomeThenClear ==
    /\ pc = "operation" /\ Concluding(mem)
    /\ Write([mem EXCEPT !.journal = OperationOutcome(mem)])
    /\ GoTo("clear")
    /\ UNCHANGED <<fleet, world, client, faults, history>>

\* Journal to terminal, terminal journal to status, then clear: three writes.
JournalOutcome ==
    /\ pc = "operation" /\ Concluding(mem)
    /\ Write([mem EXCEPT !.journal = OperationOutcome(mem)])
    /\ GoTo("project")
    /\ UNCHANGED <<fleet, world, client, faults, history>>

ProjectOutcome ==
    /\ pc = "project"
    /\ Write([mem EXCEPT !.active = mem.journal])
    /\ GoTo("clear")
    /\ UNCHANGED <<fleet, world, client, faults, history>>

\* Fault: completing an operation resets the epoch.
ClearJournalAndEpoch ==
    /\ pc = "clear"
    /\ LastWrite([mem EXCEPT !.journal = None, !.epoch = 0])
    /\ UNCHANGED <<fleet, world, client, faults, history>>

ClearJournal ==
    /\ pc = "clear"
    /\ LastWrite([mem EXCEPT !.journal = None])
    /\ UNCHANGED <<fleet, world, client, faults, history>>

\* The API server refuses a write made from an outdated copy; the pass
\* returns the error and is queued again.
Writing ==
    \/ pc = "triggers" /\ TriggerPending(mem)
    \/ NamesMissing
    \/ pc = "operation" /\ Concluding(mem)
    \/ pc \in {"persist", "project", "clear"}

Conflict ==
    /\ Writing /\ ~WriteAccepted
    /\ EndPass
    /\ UNCHANGED <<fleet, world, client, faults, history>>

\* The operator stops, or a write fails for another reason.
Crash ==
    /\ pc # "idle" /\ faults < MaxFaults
    /\ EndPass
    /\ faults' = faults + 1
    /\ UNCHANGED <<fleet, world, client, history>>

\* A read fails after the Blueprint was found: reconcileStatus returns the
\* error, the status gathered so far is still written.
ReadFails ==
    /\ pc \in {"cleanup", "matrix", "certify"} /\ faults < MaxFaults
    /\ StatusIncomplete(mem.phase)
    /\ faults' = faults + 1

-----------------------------------------------------------------------------
(* The rest of the world: clock, ClusterRepo, and the Fleet controllers,   *)
(* which carry a HelmOp to its Bundle, the Bundle to its BundleDeployment, *)
(* and the BundleDeployment to the cluster, each at its own pace.          *)

\* Five minutes since creation, and thirty since an operation was asked for.
GraceEnds ==
    /\ young /\ young' = FALSE
    /\ UNCHANGED <<store, pass, fleet, blueprint, repoReady, overdue, client,
                   faults, history>>

DeadlinePasses ==
    /\ InProgress(w.journal) /\ ~Late(w.journal)
    /\ overdue' = overdue \cup {<<w.journal.type, w.journal.nonce>>}
    /\ young' = FALSE
    /\ UNCHANGED <<store, pass, fleet, blueprint, repoReady, client, faults, history>>

RepoAppears ==
    /\ ~repoReady /\ repoReady' = TRUE
    /\ UNCHANGED <<store, pass, fleet, blueprint, overdue, young, client,
                   faults, history>>

RepoGone ==
    /\ repoReady /\ faults < MaxFaults
    /\ repoReady' = FALSE /\ faults' = faults + 1
    /\ UNCHANGED <<store, pass, fleet, blueprint, overdue, young, client, history>>

HelmOpFollowed(c) == bundle[c] # None /\ bundle[c].render = helmOp[c]

FleetHelmOp(c) ==
    /\ helmOp[c] # None /\ ~HelmOpFollowed(c)
    /\ bundle' = [bundle EXCEPT ![c] =
                    [render |-> helmOp[c], observed |-> FALSE,
                     ready |-> IF bundle[c] = None THEN FALSE ELSE bundle[c].ready]]
    /\ UNCHANGED <<store, pass, helmOp, bd, world, client, faults, history>>

BDReady(d) == d.applied = d.desired /\ d.state = "Ready"

FleetBundle(c) ==
    /\ bundle[c] # None /\ ~bundle[c].observed
    /\ LET d == IF bd[c] = None
                THEN [desired |-> bundle[c].render, applied |-> None,
                      state |-> "Progressing", sync |-> 0]
                ELSE [bd[c] EXCEPT !.desired = bundle[c].render]
       IN  /\ bd' = [bd EXCEPT ![c] = d]
           /\ bundle' = [bundle EXCEPT ![c].observed = TRUE,
                                       ![c].ready = BDReady(d)]
    /\ UNCHANGED <<store, pass, helmOp, world, client, faults, history>>

FleetSummary(c) ==
    /\ bundle[c] # None /\ bundle[c].observed /\ bd[c] # None
    /\ bundle[c].ready # BDReady(bd[c])
    /\ bundle' = [bundle EXCEPT ![c].ready = BDReady(bd[c])]
    /\ UNCHANGED <<store, pass, helmOp, bd, world, client, faults, history>>

Record(c, digest, state) ==
    /\ rolledOut' = rolledOut \cup (IF state = "Ready" THEN {<<c, digest>>} ELSE {})
    /\ failedOut' = failedOut \cup (IF state = "ErrApplied" THEN {<<c, digest>>} ELSE {})
    /\ UNCHANGED <<started, repeated>>

FleetAgent(c, state) ==
    /\ bd[c] # None /\ bd[c].applied # bd[c].desired
    /\ bd' = [bd EXCEPT ![c].applied = bd[c].desired, ![c].state = state,
                        ![c].sync = bd[c].desired.epoch]
    /\ Record(c, bd[c].desired.digest, state)
    /\ UNCHANGED <<store, pass, helmOp, bundle, world, client, faults>>

\* What was applied degrades, and recovers by itself.
FleetDegrades(c, state) ==
    /\ bd[c] # None /\ BDReady(bd[c]) /\ state # "Ready"
    /\ faults < MaxFaults /\ faults' = faults + 1
    /\ bd' = [bd EXCEPT ![c].state = state]
    /\ Record(c, bd[c].applied.digest, state)
    /\ UNCHANGED <<store, pass, helmOp, bundle, world, client>>

FleetRecovers(c) ==
    /\ bd[c] # None /\ bd[c].applied = bd[c].desired /\ bd[c].state # "Ready"
    /\ bd' = [bd EXCEPT ![c].state = "Ready"]
    /\ Record(c, bd[c].applied.digest, "Ready")
    /\ UNCHANGED <<store, pass, helmOp, bundle, world, client, faults>>

FleetCollects(c) ==
    /\ bundle[c] = None /\ bd[c] # None
    /\ bd' = [bd EXCEPT ![c] = None]
    /\ UNCHANGED <<store, pass, helmOp, bundle, world, client, faults, history>>

-----------------------------------------------------------------------------
ApiStep ==
    \/ \E v \in Versions : RequestUpgrade(v) \/ UserEdit(v) \/ BlueprintEdit(v)
                           \/ BlueprintDelete(v)
    \/ RequestRollback \/ RetryAllowed \/ RequestRetry

TriggerStep ==
    \/ HandleUpgrade \/ HandleUpgradeToCurrent \/ HandleRollback
    \/ SkipRollback \/ HandleRetry

StatusStep ==
    \/ BlueprintNotFound \/ PopulateNames \/ BlueprintFound
    \/ RenderBlocked \/ NotCertified \/ PersistStatus
    \/ \E c \in Components :
         \/ RenderComponent(c) \/ DeleteStaleHelmOp(c) \/ DeleteStaleBundle(c)
         \/ BuildCell(c) \/ CertifyBundle(c)

OperationStep ==
    NothingToConclude \/ JournalOutcome \/ ProjectOutcome \/ ClearJournal

PassStep ==
    BeginPass \/ TriggerStep \/ StatusStep \/ OperationStep \/ Conflict

FleetProgress(c) ==
    \/ FleetHelmOp(c) \/ FleetBundle(c) \/ FleetSummary(c)
    \/ FleetRecovers(c) \/ FleetCollects(c)
    \/ \E s \in AgentStates : FleetAgent(c, s)

EnvStep ==
    \/ CacheSync \/ GraceEnds \/ DeadlinePasses \/ RepoAppears \/ RepoGone
    \/ Crash \/ ReadFails
    \/ \E c \in Components :
         FleetProgress(c) \/ \E s \in BDStates : FleetDegrades(c, s)

Next == ApiStep \/ PassStep \/ EnvStep

Spec == Init /\ [][Next]_vars

\* The work queue runs the pass again after every write it watches and, for
\* a running operation, on a timer; the informer catches up; time passes.
OperatorFairness ==
    WF_vars(PassStep) /\ WF_vars(CacheSync) /\ WF_vars(DeadlinePasses)
FleetFairness == \A c \in Components : WF_vars(FleetProgress(c))

LiveSpec == Spec /\ OperatorFairness
ConvergingSpec == LiveSpec /\ FleetFairness

-----------------------------------------------------------------------------
(* Safety.                                                                 *)

Proven(version, digest) ==
    \A c \in ComponentsOf[version] : <<c, digest>> \in rolledOut

\* The recorded deployedSource, and the target of a rollback, are a version
\* whose every component did run on the cluster with exactly that content
\* (AIWorkloadStatus.deployedSource: "PROVEN deployed+healthy").
ProvenDeployed ==
    /\ w.deployed # None => Proven(w.deployed.version, w.deployed.digest)
    /\ w.journal # None /\ w.journal.type = "Rollback" =>
         Proven(w.journal.target, w.journal.expected)

\* A rollback or retry request starts one operation, however stale the
\* object was that the trigger was read from (finishTrigger's single Update).
StartedOnce == \A r \in repeated : r[1] = "up"

\* No write of the operator undoes what a user or a handler wrote meanwhile:
\* a request leaves the object only by being handled, and the version only
\* changes by an edit or towards the intent of a journalled operation.
KeepsWrites ==
    /\ w.up # None /\ w'.up = None => IsHandled(w', <<"Upgrade", w.up.nonce>>)
    /\ w.rb # None /\ w'.rb = None => IsHandled(w', <<"Rollback", w.rb>>)
    /\ w.rt # None /\ w'.rt = None =>
         InProgress(w'.journal) /\ w'.journal.type = "Retry"
    /\ w'.version # w.version =>
         \/ edits' # edits
         \/ InProgress(w'.journal) /\ w'.journal.intent = w'.version
NothingOverwritten == [][KeepsWrites]_vars

\* The journal is cleared only once its terminal outcome stands in the
\* stored status, whatever crash or conflict cut earlier passes short
\* (reconcileOperation: "journal terminal, project, clear").
ProjectsBeforeClear ==
    w.journal # None /\ w'.journal = None =>
        ~InProgress(w.journal) /\ w.active = w.journal
OutcomeProjectedBeforeClear == [][ProjectsBeforeClear]_vars

\* Success is never declared of an operation the spec has moved away from.
SucceededMatchesIntent ==
    [][InProgress(w.journal) /\ w'.journal # None /\ w'.journal.state = "Succeeded"
         => w'.version = w'.journal.intent]_vars

\* An upgrade or rollback fails before its deadline only because its own
\* content failed to apply, not because of what the version before it left
\* behind (matrixCellPhase), as long as its Blueprint is there to render.
FailureBelongsToRender ==
    [][/\ InProgress(w.journal) /\ w.journal.type # "Retry"
       /\ w'.journal # None /\ w'.journal.state = "Failed"
       /\ w'.journal.reason = "" /\ bpRev # 0
       => \E c \in ComponentsOf[w.journal.target] :
            <<c, Digest(w.journal.target, bpRev)>> \in failedOut]_vars

\* The forced sync generation a HelmOp carries never goes back: a concluded
\* retry stays applied (retryEpochValue).
EpochNeverRegresses ==
    [][\A c \in Components : helmOp[c] # None /\ helmOp'[c] # None
         => helmOp'[c].epoch >= helmOp[c].epoch]_vars

-----------------------------------------------------------------------------
(* Liveness.  A request to upgrade to the version the workload already has  *)
(* is excluded: see EachRequestStartsOnce.                                 *)

UpgradeToCurrent == w.up # None /\ w.up.target = w.version

\* Whatever Fleet does or fails to do, an operation is concluded, if only by
\* its deadline, once the components' repository is there to stay.
OperationsConclude ==
    <>[](repoReady /\ ~UpgradeToCurrent) => []<>(~InProgress(w.journal))

\* When Fleet applies what it is given, the workload ends with the live
\* content of its version certified and no operation or request open.
Settled ==
    /\ w.deployed = [version |-> w.version,
                     digest |-> Digest(w.version, blueprint[w.version])]
    /\ w.journal = None /\ ~TriggerPending(w)
Converges ==
    <>[](repoReady /\ ~UpgradeToCurrent /\ blueprint[w.version] # 0) => <>[]Settled

-----------------------------------------------------------------------------
(* What comments of the code say of it and it does not do.                 *)

\* finishTrigger: "remove request, record handled" -- of every request.
EachRequestStartsOnce == repeated = {}
=============================================================================

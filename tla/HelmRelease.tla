----------------------------- MODULE HelmRelease -----------------------------
(***************************************************************************)
(* One Helm release as the operator's Helm client manages it: EnsureRelease*)
(* and DeleteRelease over Helm's record of revisions, the chart cache, the *)
(* convergence latch that saves chart pulls, and the grace a shutdown      *)
(* leaves to a write.  Writes (create the pending revision, apply, record) *)
(* are separate steps, because the process may stop between them.          *)
(* The controller calls the client for one release at a time.              *)
(***************************************************************************)
EXTENDS Integers, Sequences

CONSTANTS
    Tags,          \* chart versions the spec may ask for
    Templates,     \* what a chart renders, apart from values
    ValueSets,     \* values the spec may carry
    NoValues,      \* the empty values, one of ValueSets
    Reading,       \* templates that use the values at all
    Published,     \* [Tags -> Charts] the registry's content at the start
    None,          \* nothing there
    MaxEdits,      \* bound: edits of the spec and deletions
    MaxPushes,     \* bound: charts pushed again under a tag in use
    MaxFaults      \* bound: failures, shutdowns, kills, foreign installs

Charts    == [version : Tags, template : Templates]
Manifests == [template : Templates, values : ValueSets]
Specs     == [tag : Tags, values : ValueSets]
Statuses  == {"pending", "deployed", "superseded", "failed", "uninstalling"}
Revisions == [status : Statuses, version : Tags, values : ValueSets,
              manifest : Manifests, labelled : BOOLEAN]
Latches   == [revision : Nat, tag : Tags, values : ValueSets,
              version : Tags, stored : ValueSets]

ASSUME ChartAssumption ==
    /\ NoValues \in ValueSets /\ Reading \subseteq Templates
    /\ Published \in [Tags -> Charts]
    /\ None \notin Charts \cup Latches
ASSUME LimitsAssumption == {MaxEdits, MaxPushes, MaxFaults} \subseteq Nat

VARIABLES
    spec,      \* what the custom resource asks for
    registry,  \* the chart behind each tag
    releases,  \* Helm's revisions, oldest first
    latch,     \* converged: the memoized verdict
    archive,   \* charts: the downloads younger than the cache's TTL
    pc,        \* where the client's call is
    req,       \* the spec the call was made with
    op,        \* what a chart is loaded for: "install", "upgrade", "render"
    chart,     \* the chart the call loaded
    outcome,   \* what the last call returned
    stopping,  \* the manager got SIGTERM
    stuck,     \* a killed process left the release in mid-write
    edits, pushes, faults

call   == <<pc, req, op, chart, outcome>>
memory == <<latch, archive>>
bounds == <<edits, pushes, faults>>
vars   == <<spec, registry, releases, memory, call, stopping, stuck, bounds>>

Points   == {"idle", "decide", "load", "render", "create", "apply",
             "supersede", "record", "delete"}
Outcomes == {"none", "ok", "pending", "error"}

TypeOK ==
    /\ spec \in Specs /\ req \in Specs
    /\ registry \in [Tags -> Charts]
    /\ releases \in Seq(Revisions)
    /\ latch \in Latches \cup {None}
    /\ archive \in [Tags -> Charts \cup {None}]
    /\ pc \in Points /\ op \in {"none", "install", "upgrade", "render"}
    /\ chart \in Charts \cup {None} /\ outcome \in Outcomes
    /\ stopping \in BOOLEAN /\ stuck \in BOOLEAN
    /\ edits \in Nat /\ pushes \in Nat /\ faults \in Nat

Init ==
    /\ spec \in Specs /\ req = spec /\ registry = Published
    /\ releases = <<>>
    /\ latch = None /\ archive = [t \in Tags |-> None]
    /\ pc = "idle" /\ op = "none" /\ chart = None /\ outcome = "none"
    /\ stopping = FALSE /\ stuck = FALSE
    /\ edits = 0 /\ pushes = 0 /\ faults = 0

-----------------------------------------------------------------------------
(* What Helm's storage says.                                               *)

\* lastRelease: the newest revision, whatever its status.
Newest(h) == h[Len(h)]

Pending(h) == h # <<>> /\ Newest(h).status = "pending"

\* deployedRelease: skips failed and pending revisions above; 0 when nothing
\* ever deployed.
DeployedAt(h) ==
    LET at == {i \in DOMAIN h : h[i].status = "deployed"}
    IN  IF at = {} THEN 0 ELSE CHOOSE i \in at : \A j \in at : j <= i

DeployedRevision == releases[DeployedAt(releases)]

Render(c, values) ==
    [template |-> c.template,
     values |-> IF c.template \in Reading THEN values ELSE NoValues]

\* The revision Helm upgrades from: the deployed one, or else the last.
Base == IF DeployedAt(releases) # 0 THEN DeployedRevision ELSE Newest(releases)

\* reuseValues: Helm copies the stored values forward when the new are empty.
EffectiveValues ==
    IF req.values = NoValues /\ releases # <<>> THEN Base.values ELSE req.values

LabelDrift(rev) == ~rev.labelled

\* Fault: drift is measured against the last revision, deployed or not.
NeedsUpgradeSinceLast(rev) ==
    LET last == Newest(releases)
    IN  last.version # req.tag \/ LabelDrift(last) \/ last.values # req.values

ReleaseNeedsUpgrade(rev) ==
    rev.version # req.tag \/ LabelDrift(rev) \/ rev.values # req.values

\* Fault: two of the strings joined into the key swapped.
LatchForSwapped(at) ==
    [revision |-> at, tag |-> req.tag, values |-> req.values,
     version |-> releases[at].values, stored |-> releases[at].version]

LatchFor(at) ==
    [revision |-> at, tag |-> req.tag, values |-> req.values,
     version |-> releases[at].version, stored |-> releases[at].values]

\* Fault: the verdict is keyed on the spec alone.
LatchHoldsForSpec ==
    latch # None /\ latch.tag = req.tag /\ latch.values = req.values

ConvergenceHolds == latch = LatchFor(DeployedAt(releases))

-----------------------------------------------------------------------------
(* EnsureRelease.                                                          *)

GoTo(p) == pc' = p /\ UNCHANGED <<req, outcome>>

Return(result) ==
    /\ pc' = "idle" /\ op' = "none" /\ chart' = None /\ outcome' = result
    /\ UNCHANGED req

EnsureRelease ==
    /\ pc = "idle" /\ ~stopping
    /\ pc' = "decide" /\ req' = spec
    /\ UNCHANGED <<spec, registry, releases, memory, op, chart, outcome, stopping,
                   stuck, bounds>>

Load(for) ==
    /\ GoTo("load") /\ op' = for /\ UNCHANGED chart

\* decideRelease, then what EnsureRelease does before it needs a chart.
NotInstalled == releases = <<>>
NeverPending == FALSE   \* Fault: the pending revision is not looked for.
OperationPending == Pending(releases)
NeverDeployed == ~NotInstalled /\ ~OperationPending /\ DeployedAt(releases) = 0
HasDeployed == ~NotInstalled /\ ~OperationPending /\ DeployedAt(releases) # 0
Unchanged == HasDeployed /\ ~ReleaseNeedsUpgrade(DeployedRevision)
Drifted == HasDeployed /\ ReleaseNeedsUpgrade(DeployedRevision)

Decide ==
    /\ pc = "decide"
    /\ \/ NotInstalled /\ Load("install")
       \/ OperationPending /\ Return("pending")
       \/ NeverDeployed /\ Load("upgrade")
       \/ Unchanged /\ Return("ok")
       \/ Drifted /\ LabelDrift(DeployedRevision) /\ Load("upgrade")
       \/ Drifted /\ ~LabelDrift(DeployedRevision) /\ ConvergenceHolds /\ Return("ok")
       \/ Drifted /\ ~LabelDrift(DeployedRevision) /\ ~ConvergenceHolds /\ Load("render")
    /\ UNCHANGED <<spec, registry, releases, memory, stopping, stuck, bounds>>

\* From the cache, or pulled and kept.
LoadChart ==
    /\ pc = "load"
    /\ LET c == IF archive[req.tag] # None THEN archive[req.tag] ELSE registry[req.tag]
       IN  chart' = c /\ archive' = [archive EXCEPT ![req.tag] = c]
    /\ GoTo(IF op = "render" THEN "render" ELSE "create") /\ UNCHANGED op
    /\ UNCHANGED <<spec, registry, releases, latch, stopping, stuck, bounds>>

\* The dry run differs from the manifest deployed: upgrade, loading again.
RenderChanges ==
    /\ pc = "render" /\ Render(chart, EffectiveValues) # DeployedRevision.manifest
    /\ Load("upgrade")
    /\ UNCHANGED <<spec, registry, releases, memory, stopping, stuck, bounds>>

\* It does not, so no upgrade can end the disagreement: remember that.
RenderSame ==
    /\ pc = "render" /\ Render(chart, EffectiveValues) = DeployedRevision.manifest
    /\ latch' = LatchFor(DeployedAt(releases))
    /\ Return("ok")
    /\ UNCHANGED <<spec, registry, releases, archive, stopping, stuck, bounds>>

\* A pull or a dry run fails, or the context is cancelled before the write.
StepFails ==
    /\ pc \in {"decide", "load", "render", "create"}
    /\ \/ stopping /\ UNCHANGED faults
       \/ faults < MaxFaults /\ faults' = faults + 1
    /\ Return("error")
    /\ UNCHANGED <<spec, registry, releases, memory, stopping, stuck, edits, pushes>>

\* Helm has no revision to upgrade from when an uninstall was cut short.
Upgradable == releases # <<>> => Base.status # "uninstalling"

NothingToUpgrade ==
    /\ pc = "create" /\ ~Upgradable
    /\ Return("error")
    /\ UNCHANGED <<spec, registry, releases, memory, stopping, stuck, bounds>>

\* Both writes store the revision as pending before they apply anything.
CreateRevision ==
    /\ pc = "create" /\ Upgradable
    /\ releases' = Append(releases,
                     [status |-> "pending", version |-> chart.version,
                      values |-> EffectiveValues,
                      manifest |-> Render(chart, EffectiveValues),
                      labelled |-> TRUE])
    /\ GoTo("apply") /\ UNCHANGED <<op, chart>>
    /\ UNCHANGED <<spec, registry, memory, stopping, stuck, bounds>>

Mark(i, status) == [releases EXCEPT ![i].status = status]

Apply ==
    /\ pc = "apply"
    /\ GoTo(IF DeployedAt(releases) # 0 THEN "supersede" ELSE "record")
    /\ UNCHANGED <<op, chart, spec, registry, releases, memory, stopping, stuck, bounds>>

\* A resource is refused, or the grace of a shutdown runs out: failRelease.
WriteFails ==
    /\ pc = "apply"
    /\ releases' = Mark(Len(releases), "failed")
    /\ Return("error")
    /\ UNCHANGED <<spec, registry, memory, stopping, stuck, edits, pushes>>

ApplyFails == faults < MaxFaults /\ faults' = faults + 1 /\ WriteFails

\* Fault: detached from cancellation altogether, the write ends with the
\* process.
GraceNeverExpires ==
    /\ stopping /\ pc = "apply"
    /\ latch' = None /\ archive' = [t \in Tags |-> None] /\ stopping' = FALSE
    /\ Return("none")
    /\ UNCHANGED <<spec, registry, releases, stuck, bounds>>

GraceExpires == stopping /\ UNCHANGED faults /\ WriteFails

Supersede ==
    /\ pc = "supersede"
    /\ releases' = Mark(DeployedAt(releases), "superseded")
    /\ GoTo("record")
    /\ UNCHANGED <<op, chart, spec, registry, memory, stopping, stuck, bounds>>

RecordDeployed ==
    /\ pc = "record"
    /\ releases' = Mark(Len(releases), "deployed")
    /\ Return("ok")
    /\ UNCHANGED <<spec, registry, memory, stopping, stuck, bounds>>

-----------------------------------------------------------------------------
(* DeleteRelease: the verdict goes first, whatever becomes of the rest.    *)

DeleteRelease ==
    /\ pc = "idle" /\ ~stopping /\ edits < MaxEdits /\ releases # <<>>
    /\ edits' = edits + 1 /\ latch' = None
    /\ releases' = Mark(Len(releases), "uninstalling")
    /\ pc' = "delete" /\ UNCHANGED <<req, op, chart, outcome>>
    /\ UNCHANGED <<spec, registry, archive, stopping, stuck, pushes, faults>>

FinishDelete ==
    /\ pc = "delete"
    /\ releases' = <<>> /\ stuck' = FALSE
    /\ pc' = "idle" /\ outcome' = "none"
    /\ UNCHANGED <<req, op, chart, spec, registry, memory, stopping, bounds>>

\* The uninstall fails on the way, and what it marked stays marked.
DeleteFails ==
    /\ pc = "delete" /\ faults < MaxFaults /\ faults' = faults + 1
    /\ pc' = "idle" /\ outcome' = "error"
    /\ UNCHANGED <<req, op, chart, spec, registry, releases, memory, stopping,
                   stuck, edits, pushes>>

-----------------------------------------------------------------------------
(* Process, users, registry and time.                                      *)

Shutdown ==
    /\ ~stopping /\ faults < MaxFaults
    /\ stopping' = TRUE /\ faults' = faults + 1
    /\ UNCHANGED <<spec, registry, releases, memory, call, stuck, edits, pushes>>

\* A new process: nothing in memory survives.
Restart(left) ==
    /\ latch' = None /\ archive' = [t \in Tags |-> None] /\ stopping' = FALSE
    /\ pc' = "idle" /\ op' = "none" /\ chart' = None /\ outcome' = "none"
    /\ stuck' = left /\ UNCHANGED req

\* The drain waits for the call, which the grace bounds.
Exit ==
    /\ stopping /\ pc = "idle"
    /\ Restart(stuck)
    /\ UNCHANGED <<spec, registry, releases, bounds>>

\* No drain: a lost lease, or a kill.
Killed ==
    /\ pc # "idle" /\ faults < MaxFaults /\ faults' = faults + 1
    /\ Restart(stuck \/ pc \in {"apply", "supersede", "record"})
    /\ UNCHANGED <<spec, registry, releases, edits, pushes>>

EditSpec(s) ==
    /\ edits < MaxEdits /\ s # spec
    /\ spec' = s /\ edits' = edits + 1
    /\ UNCHANGED <<registry, releases, memory, call, stopping, stuck, pushes, faults>>

PushAgain(t, c) ==
    /\ pushes < MaxPushes /\ c # registry[t]
    /\ registry' = [registry EXCEPT ![t] = c] /\ pushes' = pushes + 1
    /\ UNCHANGED <<spec, releases, memory, call, stopping, stuck, edits, faults>>

\* Fault: the verdict lives as long as the process.
LatchNeverExpires == FALSE /\ UNCHANGED vars

LatchExpires ==
    /\ latch # None /\ latch' = None
    /\ UNCHANGED <<spec, registry, releases, archive, call, stopping, stuck, bounds>>

ArchiveExpires(t) ==
    /\ archive[t] # None /\ archive' = [archive EXCEPT ![t] = None]
    /\ UNCHANGED <<spec, registry, releases, latch, call, stopping, stuck, bounds>>

\* Somebody uninstalls the release and installs another under its name: the
\* revisions start again at 1.  Also how a stuck release is freed.
ForeignInstall(t, values) ==
    /\ pc = "idle" /\ faults < MaxFaults /\ faults' = faults + 1
    /\ releases' = <<[status |-> "deployed", version |-> registry[t].version,
                       values |-> values, manifest |-> Render(registry[t], values),
                       labelled |-> FALSE]>>
    /\ stuck' = FALSE
    /\ UNCHANGED <<spec, registry, memory, call, stopping, edits, pushes>>

-----------------------------------------------------------------------------
CallStep ==
    \/ Decide \/ LoadChart \/ RenderChanges \/ RenderSame \/ NothingToUpgrade
    \/ CreateRevision \/ Apply \/ Supersede \/ RecordDeployed \/ FinishDelete

FaultStep ==
    \/ StepFails \/ ApplyFails \/ GraceExpires \/ DeleteFails \/ Shutdown \/ Exit \/ Killed

OutsideStep ==
    \/ DeleteRelease \/ LatchExpires
    \/ \E s \in Specs : EditSpec(s)
    \/ \E t \in Tags :
         \/ ArchiveExpires(t)
         \/ \E c \in Charts : PushAgain(t, c)
         \/ \E v \in ValueSets : ForeignInstall(t, v)

Next == EnsureRelease \/ CallStep \/ FaultStep \/ OutsideStep

Spec == Init /\ [][Next]_vars

\* The controller calls again on every requeue, a call goes on, a process
\* that was told to stop does, and memoized verdicts age.
Fairness ==
    /\ WF_vars(EnsureRelease) /\ WF_vars(CallStep) /\ WF_vars(Exit)
    /\ WF_vars(LatchExpires) /\ \A t \in Tags : WF_vars(ArchiveExpires(t))

FairSpec == Spec /\ Fairness

-----------------------------------------------------------------------------
(* The release as its caller may think of it.                              *)

InForce == IF DeployedAt(releases) # 0 THEN DeployedRevision.manifest ELSE None

Writer ==
    CASE pc \in {"apply", "supersede"} -> "writing"
      [] pc = "record" -> "switching"
      [] pc = "delete" -> "removing"
      [] OTHER -> IF Pending(releases) THEN "broken" ELSE "free"

Target == IF Pending(releases) THEN Newest(releases).manifest ELSE None

Contract == INSTANCE ReleaseContract
    WITH Contents <- Manifests, content <- InForce, writer <- Writer, target <- Target

-----------------------------------------------------------------------------
(* Properties.                                                             *)

\* A release is pending only while its write is running, unless a process was
\* killed: a shutdown never leaves one behind (withShutdownGrace).
PendingIsRunning ==
    Pending(releases) => stuck \/ pc \in {"apply", "supersede", "record"}

\* When EnsureRelease reports success, the deployed revision is what the
\* requested chart renders; a failed revision or a verdict about something
\* else never passes for it (decideRelease, convergenceHolds), as long as no
\* chart was pushed again and every tag is its chart's version.
EnsuredIsDeployed ==
    [][pc # "idle" /\ pc' = "idle" /\ outcome' = "ok" /\ pushes = 0 =>
         /\ DeployedAt(releases') # 0
         /\ LET d == releases'[DeployedAt(releases')]
            IN  d.manifest = Render(registry[req.tag],
                                    IF req.values = NoValues THEN d.values
                                    ELSE req.values)]_vars

\* The steps of EnsureRelease and DeleteRelease, with the stops and failures
\* between them, add up to whole writes by one writer, and none is made on a
\* release left pending (ErrReleasePending).
KeepsContract == Contract!Spec

\* A chart pushed again under its tag is applied in the end when the spec and
\* the record disagree (convergenceTTL, chartCacheTTL), unless what a kill or an
\* uninstall cut short left in the way stays there.
Agrees ==
    /\ DeployedAt(releases) # 0
    /\ LET d == DeployedRevision
           s == [tag |-> spec.tag, values |-> spec.values]
       IN  \/ /\ d.version = s.tag /\ d.values = s.values
           \/ d.manifest = Render(registry[s.tag],
                                  IF s.values = NoValues THEN d.values ELSE s.values)
Converges == <>[](~stuck /\ Upgradable) => <>[]Agrees
=============================================================================

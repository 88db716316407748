-------------------------- MODULE ExtensionInstall --------------------------
(***************************************************************************)
(* One InstallAIExtension and the controller that carries it out.  A pass  *)
(* goes through stages: stale releases are removed, the extension server's *)
(* release is ensured and waited for, then the release of the UI-plugin    *)
(* chart.  It stops at the first stage that is not done and is run again;  *)
(* how long a stage has been waited for is kept in annotations.  Users     *)
(* edit and delete the resource, other Helm clients operate on its         *)
(* releases, and the process may stop, between any two stages.             *)
(***************************************************************************)
EXTENDS Integers

CONSTANTS
    Specs,       \* what the resource may ask for: kind, name, server, version
    Releases,    \* names of Helm releases
    Versions,
    None,        \* no name, no version, no pass
    MaxEdits,    \* bound: edits of the resource
    MaxFaults    \* bound: failed calls, interrupted passes, foreign operations,
                 \* degradations

Markers == {"deployment", "service", "release", "chart"}
Ages    == {"none", "young", "old"}
Kinds   == {"Helm", "Git"}

AllSpecs == [kind : Kinds, name : Releases, server : Releases \cup {None},
             version : Versions]
Reasons  == {"none", "Installed", "Failed", "ReadinessTimedOut",
             "ReleasePending", "ReleasePendingTimedOut"}
Phases   == {"none", "Installing", "Installed", "Failed"}
Statuses == [phase : Phases, ready : Reasons, observed : Nat,
             server : Releases \cup {None}, revision : Nat,
             active : Releases \cup {None}, source : Kinds \cup {"none"}]
Clocks   == [Markers -> Ages]
Copies   == [spec : AllSpecs, gen : Nat, status : Statuses, clocks : Clocks,
             failed : BOOLEAN]

\* A release as the pass sees it: its newest revision's status and number,
\* the deployed version, and what runs of it.
HelmReleases == [status : {"absent", "pending", "deployed", "failed"},
                 version : Versions \cup {None}, revision : Nat,
                 run : {"none", "starting", "ready", "serving"}]

ASSUME SpecAssumption ==
    /\ Specs \subseteq AllSpecs
    /\ \A s \in Specs : s.kind = "Helm" <=> s.server # None
    /\ None \notin Releases \cup Versions \cup Copies \cup (Releases \X Nat)
ASSUME LimitsAssumption == {MaxEdits, MaxFaults} \subseteq Nat

VARIABLES
    spec, gen,   \* the resource's spec and generation
    life,        \* "new" (no finalizer yet), "live", "deleting", "gone"
    status,      \* its stored status
    clocks,      \* its wait markers: how old the stored start time is
    helm,        \* the Helm releases
    pc,          \* the stage the pass is at
    mem,         \* the pass's copy of the resource, and whether it failed
    origin,      \* history: the rollout a readiness marker was stamped for
    moved,       \* history: the resource changed its source or name
    cut,         \* history: a pass was cut off
    edits, faults

resource == <<spec, gen, life, moved>>
bounds   == <<edits, faults>>
vars     == <<resource, status, clocks, helm, pc, mem, origin, cut, bounds>>

Stages == {"idle", "stale", "source", "server", "observe", "running",
           "service", "repo", "chart", "end", "persist"}

\* The active name and its source kind are recorded at the same point.
TypeOK ==
    /\ spec \in Specs /\ gen \in Nat
    /\ life \in {"new", "live", "deleting", "gone"}
    /\ status \in Statuses /\ clocks \in Clocks
    /\ helm \in [Releases -> HelmReleases]
    /\ pc \in Stages /\ mem \in Copies \cup {None}
    /\ origin \in [{"deployment", "service"} -> (Releases \X Nat) \cup {None}]
    /\ moved \in BOOLEAN /\ cut \in BOOLEAN
    /\ edits \in Nat /\ faults \in Nat
    /\ (status.active = None) = (status.source = "none")

Absent == [status |-> "absent", version |-> None, revision |-> 0,
           run |-> "none"]

Init ==
    /\ spec \in Specs /\ gen = 1 /\ life = "new" /\ moved = FALSE
    /\ status = [phase |-> "none", ready |-> "none", observed |-> 0,
                 server |-> None, revision |-> 0, active |-> None,
                 source |-> "none"]
    /\ clocks = [m \in Markers |-> "none"]
    /\ helm = [r \in Releases |-> Absent]
    /\ pc = "idle" /\ mem = None
    /\ origin = [m \in {"deployment", "service"} |-> None] /\ cut = FALSE
    /\ edits = 0 /\ faults = 0

-----------------------------------------------------------------------------
(* How a pass goes on and ends.                                            *)

Fault == faults < MaxFaults /\ faults' = faults + 1

GoTo(stage, m) == pc' = stage /\ mem' = m

Failed(m, reason) ==
    [m EXCEPT !.status.phase = "Failed", !.status.ready = reason]

Installed(m) ==
    [m EXCEPT !.status.phase = "Installed", !.status.ready = "Installed"]

\* The resource is what the pass read.
Fresh == gen = mem.gen /\ life = "live"

\* Fault: the update's response carries the stored status into the copy.
StampEchoed(new, stage, m) ==
    IF new = mem.clocks THEN GoTo(stage, m) /\ UNCHANGED clocks
    ELSE IF Fresh
         THEN /\ GoTo(stage, [m EXCEPT !.clocks = new, !.status = status])
              /\ clocks' = new
         ELSE /\ GoTo("end", [mem EXCEPT !.clocks = new, !.failed = TRUE])
              /\ UNCHANGED clocks

\* updateAnnotations carries the resource version the pass read: a spec edit
\* or a deletion since then refuses it, and the pass ends with the error.
Stamp(new, stage, m) ==
    IF new = mem.clocks THEN GoTo(stage, m) /\ UNCHANGED clocks
    ELSE IF Fresh
         THEN GoTo(stage, [m EXCEPT !.clocks = new]) /\ clocks' = new
         ELSE /\ GoTo("end", [mem EXCEPT !.clocks = new, !.failed = TRUE])
              /\ UNCHANGED clocks

Cleared(markers) ==
    [m \in Markers |-> IF m \in markers THEN "none" ELSE mem.clocks[m]]

-----------------------------------------------------------------------------
(* EnsureRelease and DeleteRelease, as HelmRelease has them: a deployed    *)
(* version is skipped, a pending release is nobody's to upgrade, and an    *)
(* upgrade that failed leaves the version deployed before.                 *)

Pending(r) == helm[r].status = "pending"

NewRevision(r, result, version, run) ==
    [helm EXCEPT ![r] = [status |-> result, version |-> version,
                         revision |-> @.revision + 1, run |-> run]]

\* A server chart runs a Deployment, a git source's chart may, and the chart
\* a server publishes has none.
Starts(r) ==
    IF r = mem.spec.server THEN {"starting"}
    ELSE IF mem.spec.kind = "Helm" THEN {"none"} ELSE {"none", "starting"}

Ensured(r, version) ==
    IF helm[r].version = version THEN {helm}
    ELSE {NewRevision(r, "deployed", version, run) : run \in Starts(r)}

Unfinished(r, result) == NewRevision(r, result, helm[r].version, helm[r].run)

Without(rs) == [r \in Releases |-> IF r \in rs THEN Absent ELSE helm[r]]

\* handlePendingReleaseMarker, when the release is settled.
EnsureRelease(r, marker, stage, m) ==
    /\ ~Pending(r) /\ helm' \in Ensured(r, mem.spec.version)
    /\ Stamp(Cleared({marker}), stage, m)

\* A wait that is over without success only drops its marker; a refused write
\* of that is logged.
Erase(markers, m) ==
    /\ clocks' = IF Fresh THEN Cleared(markers) ELSE clocks
    /\ GoTo("end", [m EXCEPT !.clocks = Cleared(markers)])

EnsureFails(r, marker) ==
    /\ ~Pending(r) /\ Fault
    /\ helm' \in {helm, Unfinished(r, "failed")}
    /\ Erase({marker}, Failed(mem, "Failed"))

\* handlePendingReleaseMarker, while somebody's operation is in flight.
AwaitRelease(r, marker) ==
    /\ Pending(r) /\ UNCHANGED helm
    /\ \/ /\ mem.clocks[marker] = "old" /\ UNCHANGED clocks
          /\ GoTo("end", Failed(mem, "ReleasePendingTimedOut"))
       \/ /\ mem.clocks[marker] # "old"
          /\ Stamp([mem.clocks EXCEPT ![marker] = "young"], "end",
                   [mem EXCEPT !.status.ready = "ReleasePending"])

\* The release a pass waits for, and the revision of it the pass observed.
Target(m) == IF m.spec.kind = "Helm" THEN m.spec.server ELSE m.spec.name
Waited(m) == <<Target(m), m.status.revision>>

\* awaitReadiness.
AwaitReadiness(marker) ==
    \/ /\ mem.clocks[marker] = "old" /\ UNCHANGED <<clocks, origin>>
       /\ GoTo("end", Failed(mem, "ReadinessTimedOut"))
    \/ /\ mem.clocks[marker] = "young" /\ UNCHANGED <<clocks, origin>>
       /\ GoTo("end", mem)
    \/ /\ mem.clocks[marker] = "none"
       /\ Stamp([mem.clocks EXCEPT ![marker] = "young"], "end", mem)
       /\ origin' = IF Fresh THEN [origin EXCEPT ![marker] = Waited(mem)] ELSE origin

-----------------------------------------------------------------------------
(* The pass.                                                               *)

Copy == [spec |-> spec, gen |-> gen,
         status |-> [status EXCEPT !.phase = "Installing"],
         clocks |-> clocks, failed |-> FALSE]

\* ensureFinalizer.
AddFinalizer ==
    /\ pc = "idle" /\ life = "new" /\ life' = "live"
    /\ UNCHANGED <<spec, gen, moved, status, clocks, helm, pc, mem, origin, cut, bounds>>

\* extensionCollidesWithServer, ahead of anything that removes a release.
Collides(s) == s.kind = "Helm" /\ s.name = s.server

\* Fault: a failure waits for an edit, not for a requeue.
BeginUnlessFailed ==
    /\ pc = "idle" /\ life = "live" /\ ~Collides(spec)
    /\ status.phase # "Failed"
    /\ GoTo("stale", Copy)
    /\ UNCHANGED <<resource, status, clocks, helm, origin, cut, bounds>>

BeginPass ==
    /\ pc = "idle" /\ life = "live" /\ ~Collides(spec)
    /\ GoTo("stale", Copy)
    /\ UNCHANGED <<resource, status, clocks, helm, origin, cut, bounds>>

RefuseCollision ==
    /\ pc = "idle" /\ life = "live" /\ Collides(spec)
    /\ GoTo("end", Failed(Copy, "Failed"))
    /\ UNCHANGED <<resource, status, clocks, helm, origin, cut, bounds>>

\* cleanupStaleResources.  The server's name is forgotten even when its
\* release could not be uninstalled.
Renamed(m) == m.status.active # None /\ m.status.active # m.spec.name
Moved(m)   == m.status.source # "none" /\ m.status.source # m.spec.kind
Stale(m)   == Renamed(m) \/ Moved(m)
StaleServer(m) ==
    IF m.status.source = "Helm" THEN {m.status.server} \ {None} ELSE {}

RemoveStale ==
    /\ pc = "stale"
    /\ \E left \in SUBSET (IF Stale(mem) THEN {mem.status.active} \cup StaleServer(mem)
                           ELSE {}) :
         LET m == IF Stale(mem) /\ StaleServer(mem) # {}
                  THEN [mem EXCEPT !.status.server = None, !.status.revision = 0]
                  ELSE mem
         IN  /\ helm' = IF Stale(mem)
                        THEN Without(({mem.status.active} \cup StaleServer(mem)) \ left)
                        ELSE helm
             /\ \/ left = {} /\ GoTo("source", m) /\ UNCHANGED faults
                \/ left # {} /\ GoTo("end", [m EXCEPT !.failed = TRUE]) /\ Fault
    /\ UNCHANGED <<resource, status, clocks, origin, cut, edits>>

\* A stage fails for a reason outside Helm, or the spec is rejected there:
\* setFailureAndRetry, or a Failed that waits for an edit.  An unreadable
\* revision is an error of the pass.
StageFails ==
    /\ Fault
    /\ \/ pc \in {"source", "server", "repo"} /\ GoTo("end", Failed(mem, "Failed"))
       \/ pc = "observe" /\ GoTo("end", [mem EXCEPT !.failed = TRUE])
    /\ UNCHANGED <<resource, status, clocks, helm, origin, cut, edits>>

TakeGitSource ==
    /\ pc = "source" /\ mem.spec.kind = "Git" /\ GoTo("repo", mem)
    /\ UNCHANGED <<resource, status, clocks, helm, origin, cut, bounds>>

\* The chart URL changed: the old server goes, and an error of that is ignored.
TakeHelmSource ==
    /\ pc = "source" /\ mem.spec.kind = "Helm" /\ GoTo("server", mem)
    /\ \/ helm' = Without({mem.status.server} \ {None, mem.spec.server})
          /\ UNCHANGED faults
       \/ /\ mem.status.server \notin {None, mem.spec.server}
          /\ Fault /\ UNCHANGED helm
    /\ UNCHANGED <<resource, status, clocks, origin, cut, edits>>

EnsureServer ==
    /\ pc = "server"
    /\ LET s == mem.spec.server
       IN  \/ /\ EnsureRelease(s, "release", "observe",
                               [mem EXCEPT !.status.server = s])
              /\ UNCHANGED faults
           \/ EnsureFails(s, "release")
           \/ AwaitRelease(s, "release") /\ UNCHANGED faults
    /\ UNCHANGED <<resource, status, origin, cut, edits>>

\* Fault: the clocks run on when the release moves to a new revision.
ObserveOnly ==
    /\ pc = "observe"
    /\ LET at == helm[Target(mem)].revision
       IN  Stamp(mem.clocks, "running", [mem EXCEPT !.status.revision = at])
    /\ UNCHANGED <<resource, status, helm, origin, cut, bounds>>

\* restartReadinessClocks: a new revision is timed from its own start.
ObserveRevision ==
    /\ pc = "observe"
    /\ LET at  == helm[Target(mem)].revision
           new == IF mem.status.revision \in {0, at} THEN mem.clocks
                  ELSE Cleared({"deployment", "service"})
       IN  Stamp(new, "running", [mem EXCEPT !.status.revision = at])
    /\ UNCHANGED <<resource, status, helm, origin, cut, bounds>>

\* awaitReleaseRunning: the Helm source's server must bring a Deployment.
Running(m) ==
    helm[Target(m)].run \in {"ready", "serving"}
        \cup (IF m.spec.kind = "Git" THEN {"none"} ELSE {})

AwaitRunning ==
    /\ pc = "running"
    /\ \/ /\ Running(mem) /\ mem.spec.kind = "Helm"
          /\ Stamp(Cleared({"deployment"}), "service", mem) /\ UNCHANGED origin
       \/ /\ Running(mem) /\ mem.spec.kind = "Git"
          /\ Stamp(Cleared({"deployment"}), "end", Installed(mem)) /\ UNCHANGED origin
       \/ ~Running(mem) /\ AwaitReadiness("deployment")
    /\ UNCHANGED <<resource, status, helm, cut, bounds>>

AwaitService ==
    /\ pc = "service"
    /\ \/ /\ helm[mem.spec.server].run = "serving"
          /\ Stamp(Cleared({"service"}), "repo", mem) /\ UNCHANGED origin
       \/ /\ helm[mem.spec.server].run # "serving"
          /\ AwaitReadiness("service")
    /\ UNCHANGED <<resource, status, helm, cut, bounds>>

\* Fault: recorded only when the chart is confirmed to be installed.
EnsureRepoUnrecorded ==
    /\ pc = "repo" /\ GoTo("chart", mem)
    /\ UNCHANGED <<resource, status, clocks, helm, origin, cut, bounds>>

\* Fault: the name without its source kind.
EnsureRepoNameOnly ==
    /\ pc = "repo" /\ GoTo("chart", [mem EXCEPT !.status.active = mem.spec.name])
    /\ UNCHANGED <<resource, status, clocks, helm, origin, cut, bounds>>

\* The ClusterRepo is there; what is installed next is recorded before the
\* attempt.
EnsureRepo ==
    /\ pc = "repo"
    /\ GoTo("chart", [mem EXCEPT !.status.active = mem.spec.name,
                                 !.status.source = mem.spec.kind])
    /\ UNCHANGED <<resource, status, clocks, helm, origin, cut, bounds>>

\* Fault: both releases of the Helm source wait under one marker.
OneMarker(m) == "release"

ChartMarker(m) == IF m.spec.kind = "Helm" THEN "chart" ELSE "release"

\* installExtensionChart: the last stage of the Helm source.
EnsureChart ==
    /\ pc = "chart"
    /\ LET n == mem.spec.name
           k == ChartMarker(mem)
       IN  \/ /\ mem.spec.kind = "Helm" /\ EnsureRelease(n, k, "end", Installed(mem))
              /\ UNCHANGED faults
           \/ /\ mem.spec.kind = "Git" /\ EnsureRelease(n, k, "observe", mem)
              /\ UNCHANGED faults
           \/ EnsureFails(n, k)
           \/ AwaitRelease(n, k) /\ UNCHANGED faults
    /\ UNCHANGED <<resource, status, origin, cut, edits>>

\* The pass ends: markers of a release wait that is over go, and the
\* generation counts as observed when it is installed.  The last Ready reason
\* decides, also when this pass did not set one.
EndPass ==
    /\ pc = "end" /\ pc' = "persist"
    /\ LET over == /\ ~mem.failed
                   /\ mem.status.ready \notin {"ReleasePending", "ReleasePendingTimedOut"}
           done == ~mem.failed /\ mem.status.phase = "Installed"
       IN  /\ clocks' = IF over /\ Fresh THEN Cleared({"release", "chart"}) ELSE clocks
           /\ mem' = [mem EXCEPT !.status.observed = IF done THEN mem.gen ELSE @]
    /\ UNCHANGED <<resource, status, helm, origin, cut, bounds>>

\* persistStatus: without a resource version, so nothing refuses it.
PersistStatus ==
    /\ pc = "persist" /\ status' = mem.status /\ GoTo("idle", None)
    /\ UNCHANGED <<resource, clocks, helm, origin, cut, bounds>>

\* handleDeletion: what the stored status names is uninstalled; the finalizer
\* goes when all of it is.
Finalize ==
    /\ pc = "idle" /\ life = "deleting"
    /\ \E left \in SUBSET ({status.active, status.server} \ {None}) :
         /\ helm' = Without(({status.active, status.server} \ {None}) \ left)
         /\ \/ left = {} /\ life' = "gone" /\ UNCHANGED faults
            \/ left # {} /\ UNCHANGED life /\ Fault
    /\ UNCHANGED <<spec, gen, moved, status, clocks, pc, mem, origin, cut, edits>>

\* A shutdown drops the pass and its verdict; a kill may besides leave the
\* release it was writing as it is.
Interrupted ==
    /\ pc # "idle" /\ Fault /\ cut' = TRUE
    /\ GoTo("idle", None)
    /\ \/ UNCHANGED helm
       \/ \E r \in Releases :
            /\ \/ pc = "server" /\ r = mem.spec.server
               \/ pc = "chart" /\ r = mem.spec.name
            /\ ~Pending(r) /\ helm[r].version # mem.spec.version
            /\ helm' \in {Unfinished(r, "pending"), Unfinished(r, "failed")}
    /\ UNCHANGED <<resource, status, clocks, origin, edits>>

-----------------------------------------------------------------------------
(* Users, other Helm clients, the cluster and time.                        *)

EditSpec(s) ==
    /\ life \in {"new", "live"} /\ edits < MaxEdits /\ s # spec
    /\ spec' = s /\ gen' = gen + 1 /\ edits' = edits + 1
    /\ moved' = (moved \/ [s EXCEPT !.version = spec.version] # spec)
    /\ UNCHANGED <<life, status, clocks, helm, pc, mem, origin, cut, faults>>

Delete ==
    /\ life \in {"new", "live"}
    /\ life' = IF life = "new" THEN "gone" ELSE "deleting"
    /\ UNCHANGED <<spec, gen, moved, status, clocks, helm, pc, mem, origin, cut, bounds>>

ForeignOperation(r) ==
    /\ helm[r].status \in {"deployed", "failed"} /\ Fault
    /\ helm' = Unfinished(r, "pending")
    /\ UNCHANGED <<resource, status, clocks, pc, mem, origin, cut, edits>>

\* It ends, or a release left pending is resolved by hand.
OperationEnds(r) ==
    /\ Pending(r)
    /\ helm' \in {[helm EXCEPT ![r].status = "failed"]}
                 \cup (IF helm[r].version = None THEN {}
                       ELSE {[helm EXCEPT ![r].status = "deployed"]})
    /\ UNCHANGED <<resource, status, clocks, pc, mem, origin, cut, bounds>>

Rollout(r) ==
    /\ \/ /\ helm[r].run = "starting"
          /\ helm' = [helm EXCEPT ![r].run = "ready"]
       \/ /\ helm[r].run = "ready" /\ \E s \in Specs : s.server = r
          /\ helm' = [helm EXCEPT ![r].run = "serving"]
    /\ UNCHANGED <<resource, status, clocks, pc, mem, origin, cut, bounds>>

Degrade(r) ==
    /\ helm[r].run \in {"ready", "serving"} /\ Fault
    /\ helm' = [helm EXCEPT ![r].run = "starting"]
    /\ UNCHANGED <<resource, status, clocks, pc, mem, origin, cut, edits>>

\* Longer than any of the bounds on a wait.
Older(age) == IF age = "young" THEN "old" ELSE age

TimePasses ==
    /\ clocks' = [m \in Markers |-> Older(clocks[m])]
    /\ mem' = IF mem = None THEN None
              ELSE [mem EXCEPT !.clocks = [m \in Markers |-> Older(mem.clocks[m])]]
    /\ <<clocks, mem>>' # <<clocks, mem>>
    /\ UNCHANGED <<resource, status, helm, pc, origin, cut, bounds>>

-----------------------------------------------------------------------------
PassStep ==
    \/ AddFinalizer \/ BeginPass \/ RefuseCollision \/ RemoveStale
    \/ TakeGitSource \/ TakeHelmSource \/ EnsureServer \/ ObserveRevision
    \/ AwaitRunning \/ AwaitService \/ EnsureRepo \/ EnsureChart \/ EndPass
    \/ PersistStatus \/ Finalize

OutsideStep ==
    \/ StageFails \/ Interrupted \/ Delete \/ TimePasses
    \/ \E s \in Specs : EditSpec(s)
    \/ \E r \in Releases :
         ForeignOperation(r) \/ OperationEnds(r) \/ Rollout(r) \/ Degrade(r)

Next == PassStep \/ OutsideStep

Spec == Init /\ [][Next]_vars

\* A pass goes on and the queue runs it again; time passes, Deployments roll out.
Fairness ==
    /\ WF_vars(PassStep) /\ WF_vars(TimePasses)
    /\ \A r \in Releases : WF_vars(Rollout(r))

FairSpec == Spec /\ Fairness

-----------------------------------------------------------------------------
(* Properties.                                                             *)

\* A generation counts as observed only when both releases run its version,
\* although a pass sets the phase first and writes annotations on the way
\* (updateAnnotations, reconcileRequest).
ObservedIsApplied ==
    status.observed = gen /\ life \in {"new", "live"} =>
        /\ helm[spec.name].version = spec.version
        /\ spec.kind = "Helm" => helm[spec.server].version = spec.version

\* Every extension release a pass created is uninstalled with the resource,
\* also when it was renamed, switched or pending, as long as no pass was cut
\* off (ActiveExtensionName, recorded before the attempt).
ChartsAreFound ==
    life = "gone" /\ ~cut =>
        \A r \in Releases : helm[r].status # "absent" =>
            \E s \in Specs : s.server = r

\* A readiness wait that times out was timed from the rollout it waits on
\* (restartReadinessClocks).
TimedFromItsRollout ==
    \A m \in {"deployment", "service"} :
        /\ pc = (IF m = "service" THEN "service" ELSE "running")
        /\ pc' = "end" /\ mem'.status.phase = "Failed"
        /\ mem'.status.ready = "ReadinessTimedOut"
        => origin[m] = Waited(mem)

\* The comment of restartReadinessClocks says so of every wait; it is so while the resource keeps its name and source and no pass is cut
\* off, whatever upgrades and foreign operations do to the revision.
UpgradesRestartTheClock == [][~moved /\ ~cut => TimedFromItsRollout]_vars

\* No wait keeps the resource in Installing for ever, whatever becomes of the
\* releases: each has its own marker, which only its own end clears.
BoundedWaits ==
    <>[](life = "live") => []<>(status.phase \in {"Installed", "Failed"})

\* When operations on the releases end and the cluster rolls out what it is
\* given, the spec gets installed; the name of a Helm source has to stay what
\* it was.
Converges ==
    /\ <>[](life = "live" /\ ~Collides(spec) /\ \A r \in Releases : ~Pending(r))
    /\ [](spec.kind = "Helm" => status.active \in {None, spec.name})
    => <>[](status.phase = "Installed" /\ status.observed = gen)

\* awaitReleaseRunning: "install completes immediately once readiness is
\* reached", whatever the spec was before.
CompletesOnceReady ==
    /\ <>[](life = "live" /\ ~Collides(spec) /\ \A r \in Releases : ~Pending(r))
    /\ []<>(helm[Target([spec |-> spec])].run = "serving")
    => []<>(status.phase = "Installed")
=============================================================================

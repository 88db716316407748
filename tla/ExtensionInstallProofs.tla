----------------------- MODULE ExtensionInstallProofs -----------------------
(***************************************************************************)
(* Theorems about ExtensionInstall for every set of specs, releases and    *)
(* versions and every bound: type correctness; a generation only counts as *)
(* observed when its releases run it; a deletion finds every extension     *)
(* release; a wait that times out was timed from the rollout it waits for. *)
(***************************************************************************)
EXTENDS ExtensionInstall, TLAPS

-----------------------------------------------------------------------------
(* The inductive invariant.                                                *)

\* A pass has a copy of the resource, of a spec the resource had at that
\* generation; nothing collides once it is past its first stage.
Shaped ==
    /\ TypeOK
    /\ (pc = "idle") = (mem = None)
    /\ pc # "idle" => /\ mem \in Copies /\ mem.spec \in Specs
                      /\ (mem.status.active = None) = (mem.status.source = "none")
                      /\ mem.gen <= gen
                      /\ mem.gen = gen => mem.spec = spec
                      /\ life # "new"
    /\ pc \notin {"idle", "end", "persist"} => ~Collides(mem.spec)
    /\ pc \in {"server", "service"} => mem.spec.kind = "Helm"
    /\ life = "gone" => pc = "idle"

\* The releases run what a spec asks for.
Applied(s) ==
    /\ helm[s.name].version = s.version
    /\ s.kind = "Helm" => helm[s.server].version = s.version

\* A status that names what a spec installs, so that nothing of it is stale.
Recorded(t, s) ==
    /\ t.active = s.name /\ t.source = s.kind
    /\ s.kind = "Helm" => t.server = s.server

\* What a pass knows at each stage.
Progress ==
    /\ pc \notin {"idle", "end", "persist"} => mem.status.phase = "Installing"
    /\ pc \in {"observe", "running", "service", "repo", "chart"}
         /\ mem.spec.kind = "Helm"
         => /\ helm[mem.spec.server].version = mem.spec.version
            /\ mem.status.server = mem.spec.server
    /\ pc \in {"observe", "running"} /\ mem.spec.kind = "Git"
         => Applied(mem.spec) /\ Recorded(mem.status, mem.spec)
    /\ pc = "chart"
         => mem.status.active = mem.spec.name /\ mem.status.source = mem.spec.kind
    /\ pc \notin {"idle", "persist"} => mem.status.observed = status.observed
    /\ pc \in {"end", "persist"} /\ mem.status.phase = "Installed"
         => Applied(mem.spec) /\ Recorded(mem.status, mem.spec)

\* A generation counts as observed, in the copy or in the store, only when it
\* was applied and is named by the status.
Observed ==
    /\ status.observed <= gen
    /\ status.observed = gen /\ life \in {"new", "live"}
         => Applied(spec) /\ Recorded(status, spec)
    /\ pc # "idle" =>
         /\ status.observed <= mem.gen /\ mem.status.observed <= mem.gen
         /\ mem.status.observed = mem.gen
              => Applied(mem.spec) /\ Recorded(mem.status, mem.spec)

IInv == Shaped /\ Progress /\ Observed

-----------------------------------------------------------------------------
(* Copies and their updates.                                               *)

\* Copies that differ at most in their clocks and in having failed.
Same(a, b) == a.spec = b.spec /\ a.gen = b.gen /\ a.status = b.status

\* A status that differs from t only in its phase and Ready reason.
Reported(u, t) ==
    /\ u.observed = t.observed /\ u.server = t.server /\ u.revision = t.revision
    /\ u.active = t.active /\ u.source = t.source

LEMMA CopyTypes ==
    ASSUME NEW m \in Copies
    PROVE  /\ m.spec \in AllSpecs /\ m.gen \in Nat /\ m.status \in Statuses
           /\ m.clocks \in Clocks /\ m.failed \in BOOLEAN
           /\ m.status.observed \in Nat /\ m.status.revision \in Nat
           /\ m.status.active \in Releases \cup {None}
           /\ m.status.server \in Releases \cup {None}
           /\ m.status.source \in Kinds \cup {"none"}
           /\ m.status.phase \in Phases
BY DEF Copies, Statuses

LEMMA FailedCopy ==
    ASSUME NEW m \in Copies, NEW why \in Reasons
    PROVE  /\ Failed(m, why) \in Copies
           /\ Failed(m, why).spec = m.spec /\ Failed(m, why).gen = m.gen
           /\ Failed(m, why).clocks = m.clocks
           /\ Failed(m, why).status.phase = "Failed"
           /\ Reported(Failed(m, why).status, m.status)
BY DEF Copies, Statuses, Phases, Failed, Reported

LEMMA InstalledCopy ==
    ASSUME NEW m \in Copies
    PROVE  /\ Installed(m) \in Copies
           /\ Installed(m).spec = m.spec /\ Installed(m).gen = m.gen
           /\ Installed(m).clocks = m.clocks
           /\ Installed(m).status.phase = "Installed"
           /\ Reported(Installed(m).status, m.status)
BY DEF Copies, Statuses, Phases, Reasons, Installed, Reported

LEMMA ClearedTypes ==
    ASSUME mem \in Copies, NEW markers
    PROVE  Cleared(markers) \in Clocks
BY DEF Cleared, Copies, Clocks, Ages

LEMMA StartedTypes ==
    ASSUME mem \in Copies, NEW k \in Markers
    PROVE  [mem.clocks EXCEPT ![k] = "young"] \in Clocks
BY DEF Copies, Clocks, Ages

\* updateAnnotations leaves everything of the copy but its clocks alone, and
\* what it stops keeps the copy it started from.
LEMMA StampEffect ==
    ASSUME mem \in Copies, clocks \in Clocks, NEW new \in Clocks,
           NEW stage, NEW m \in Copies, Stamp(new, stage, m)
    PROVE  /\ clocks' \in Clocks /\ mem' \in Copies
           /\ \/ pc' = stage /\ Same(mem', m)
              \/ pc' = "end" /\ Same(mem', mem)
<1>1. CASE new = mem.clocks
  BY <1>1 DEF Stamp, GoTo, Same
<1>2. CASE new # mem.clocks /\ Fresh
  BY <1>2 DEF Stamp, GoTo, Same, Copies
<1>3. CASE new # mem.clocks /\ ~Fresh
  BY <1>3 DEF Stamp, GoTo, Same, Copies
<1> QED BY <1>1, <1>2, <1>3

LEMMA EraseEffect ==
    ASSUME mem \in Copies, clocks \in Clocks, NEW markers,
           NEW m \in Copies, Erase(markers, m)
    PROVE  /\ clocks' \in Clocks /\ mem' \in Copies
           /\ pc' = "end" /\ Same(mem', m)
<1>1. Cleared(markers) \in Clocks
  BY ClearedTypes
<1> QED BY <1>1 DEF Erase, GoTo, Same, Copies

-----------------------------------------------------------------------------
(* Releases and their updates.                                             *)

KeepsVersions == \A r \in Releases : helm'[r].version = helm[r].version

LEMMA UnfinishedRelease ==
    ASSUME helm \in [Releases -> HelmReleases], NEW r \in Releases,
           NEW result \in {"pending", "failed"}, helm' = Unfinished(r, result)
    PROVE  helm' \in [Releases -> HelmReleases] /\ KeepsVersions
BY DEF Unfinished, NewRevision, HelmReleases, KeepsVersions

LEMMA EnsuredRelease ==
    ASSUME helm \in [Releases -> HelmReleases], NEW r \in Releases,
           NEW v \in Versions, helm' \in Ensured(r, v)
    PROVE  /\ helm' \in [Releases -> HelmReleases]
           /\ helm'[r].version = v
           /\ \A q \in Releases \ {r} : helm'[q].version = helm[q].version
<1>1. CASE helm[r].version = v
  BY <1>1 DEF Ensured
<1>2. CASE helm[r].version # v
  <2>1. PICK run \in Starts(r) : helm' = NewRevision(r, "deployed", v, run)
    BY <1>2 DEF Ensured
  <2>2. run \in {"none", "starting"}
    BY DEF Starts
  <2> QED BY <2>1, <2>2 DEF NewRevision, HelmReleases
<1> QED BY <1>1, <1>2

LEMMA WithoutReleases ==
    ASSUME helm \in [Releases -> HelmReleases], NEW rs, helm' = Without(rs)
    PROVE  /\ helm' \in [Releases -> HelmReleases]
           /\ \A q \in Releases : q \notin rs => helm'[q] = helm[q]
BY DEF Without, Absent, HelmReleases

\* A spec the resource may have, and the names it installs under.
LEMMA SpecTypes ==
    ASSUME NEW s \in Specs
    PROVE  /\ s.kind \in Kinds /\ s.name \in Releases /\ s.version \in Versions
           /\ s.kind = "Helm" => s.server \in Releases
           /\ s.name # None
BY SpecAssumption DEF AllSpecs

LEMMA AppliedKept ==
    ASSUME NEW s \in Specs, KeepsVersions, Applied(s)
    PROVE  Applied(s)'
BY SpecTypes DEF Applied, KeepsVersions

-----------------------------------------------------------------------------
(* The stages of a pass.  None of them touches the resource or the stored  *)
(* status, and none forgets what an observed status names.                 *)

LEMMA PassShaped ==
    ASSUME Shaped, pc # "idle", UNCHANGED <<resource, status, cut>>,
           edits' \in Nat, faults' \in Nat, clocks' \in Clocks,
           origin' \in [{"deployment", "service"} -> (Releases \X Nat) \cup {None}],
           helm' \in [Releases -> HelmReleases],
           mem' \in Copies, pc' \in Stages \ {"idle"},
           mem'.spec = mem.spec, mem'.gen = mem.gen,
           (mem'.status.active = None) = (mem'.status.source = "none"),
           pc' \in {"end", "persist"} \/ ~Collides(mem.spec),
           pc' \in {"server", "service"} => mem.spec.kind = "Helm"
    PROVE  Shaped'
<1>1. None \notin Copies
  BY SpecAssumption
<1>2. TypeOK'
  BY DEF Shaped, TypeOK, resource
<1>3. life' # "new" /\ life' # "gone" /\ mem'.gen <= gen' /\ mem'.spec \in Specs
  BY DEF Shaped, resource
<1>4. mem'.gen = gen' => mem'.spec = spec'
  BY DEF Shaped, resource
<1>5. pc' \notin {"idle", "end", "persist"} => ~Collides(mem'.spec)
  BY DEF Stages
<1> QED BY <1>1, <1>2, <1>3, <1>4, <1>5 DEF Shaped

LEMMA PassObserved ==
    ASSUME Shaped, Progress, Observed, pc \notin {"idle", "persist"}, pc' # "idle",
           UNCHANGED <<resource, status>>,
           mem'.spec = mem.spec, mem'.gen = mem.gen,
           mem'.status.observed = mem.status.observed,
           NEW s \in Specs, s = mem.spec,
           Recorded(mem.status, s) /\ Applied(s)
             => Recorded(mem'.status, s) /\ Applied(s)'
    PROVE  Observed'
<1>1. mem.status.observed = status.observed
  BY DEF Progress
<1>2. mem'.status.observed = mem'.gen => Recorded(mem'.status, mem'.spec) /\ Applied(s)'
  BY DEF Observed
<1>3. /\ status.observed <= mem.gen /\ mem.gen <= gen
      /\ mem.gen \in Nat /\ gen \in Nat /\ status.observed \in Nat
  BY CopyTypes DEF Observed, Shaped, TypeOK, Statuses
<1>4. status.observed = gen => mem.gen = gen /\ spec = s
  BY <1>3 DEF Shaped
<1>5. status.observed = gen /\ life \in {"new", "live"}
        => Applied(spec)' /\ Recorded(status, spec)
  <2> HAVE status.observed = gen /\ life \in {"new", "live"}
  <2>1. spec = s /\ spec' = s
    BY <1>4 DEF resource
  <2>2. Applied(s) /\ Recorded(status, s)
    BY <2>1 DEF Observed
  <2>3. Recorded(mem.status, s) /\ Applied(s)
    BY <1>1, <1>4 DEF Observed
  <2>4. Applied(s)'
    BY <2>3
  <2> QED BY <2>1, <2>2, <2>4 DEF Applied
<1>6. Applied(mem.spec)' <=> Applied(s)'
  BY DEF Applied
<1> QED BY <1>1, <1>2, <1>3, <1>5, <1>6 DEF Observed, resource

\* A pass that ends without success has nothing to show.
LEMMA EndsUnfinished ==
    ASSUME pc' = "end", mem'.status.phase # "Installed",
           mem'.status.observed = mem.status.observed,
           mem.status.observed = status.observed, status' = status
    PROVE  Progress'
BY DEF Progress

\* What holds in the middle of a pass.
Midway(s) ==
    /\ IInv /\ s \in Specs /\ s = mem.spec /\ pc \notin {"idle", "persist"}
    /\ mem \in Copies /\ mem.status.observed = status.observed

LEMMA PassIsMidway ==
    ASSUME IInv, pc \notin {"idle", "persist"}
    PROVE  Midway(mem.spec)
BY DEF IInv, Midway, Shaped, Progress

LEMMA RemoveStaleKeeps == ASSUME IInv, RemoveStale PROVE IInv'
<1> DEFINE s == mem.spec
           names == {mem.status.active} \cup StaleServer(mem)
           m == IF Stale(mem) /\ StaleServer(mem) # {}
                THEN [mem EXCEPT !.status.server = None, !.status.revision = 0]
                ELSE mem
<1>1. /\ pc = "stale" /\ Midway(s) /\ mem.status.phase = "Installing"
      /\ UNCHANGED <<resource, status, clocks, origin, cut, edits>>
  BY PassIsMidway DEF RemoveStale, IInv, Progress
<1>2. PICK left \in SUBSET (IF Stale(mem) THEN names ELSE {}) :
        /\ helm' = IF Stale(mem) THEN Without(names \ left) ELSE helm
        /\ \/ left = {} /\ GoTo("source", m) /\ UNCHANGED faults
           \/ left # {} /\ GoTo("end", [m EXCEPT !.failed = TRUE]) /\ Fault
  BY DEF RemoveStale
<1>3. /\ m \in Copies /\ m.spec = mem.spec /\ m.gen = mem.gen
      /\ m.status.active = mem.status.active /\ m.status.source = mem.status.source
      /\ m.status.phase = mem.status.phase
      /\ m.status.observed = mem.status.observed
      /\ ~Stale(mem) => m = mem
  <2> mem \in Copies
    BY <1>1 DEF Midway
  <2>1. CASE Stale(mem) /\ StaleServer(mem) # {}
    BY <2>1 DEF Copies, Statuses
  <2>2. CASE ~(Stale(mem) /\ StaleServer(mem) # {})
    BY <2>2
  <2> QED BY <2>1, <2>2
<1>4. /\ mem' \in Copies /\ Same(mem', m) /\ faults' \in Nat
      /\ pc' \in {"source", "end"}
  <2> HIDE DEF m
  <2>1. faults \in Nat
    BY <1>1 DEF Midway, IInv, Shaped, TypeOK
  <2>2. CASE left = {} /\ GoTo("source", m) /\ UNCHANGED faults
    BY <1>3, <2>1, <2>2 DEF GoTo, Same
  <2>3. CASE left # {} /\ GoTo("end", [m EXCEPT !.failed = TRUE]) /\ Fault
    <3>1. m \in Copies /\ mem' = [m EXCEPT !.failed = TRUE] /\ pc' = "end"
      BY <1>3, <2>3 DEF GoTo
    <3>2. mem' \in Copies /\ Same(mem', m)
      BY <3>1 DEF Same, Copies
    <3> QED BY <2>1, <2>3, <3>1, <3>2 DEF Fault
  <2> QED BY <1>2, <2>2, <2>3
<1>5. helm' \in [Releases -> HelmReleases]
  BY <1>1, <1>2, WithoutReleases DEF Midway, IInv, Shaped, TypeOK
<1>6. Shaped'
  BY <1>1, <1>3, <1>4, <1>5, PassShaped
  DEF Same, Stages, Midway, IInv, Shaped, TypeOK
<1>7. Progress'
  BY <1>1, <1>3, <1>4 DEF Same, Progress, Midway
<1>8. Recorded(mem.status, s) => ~Stale(mem)
  BY <1>1, SpecTypes DEF Midway, Recorded, Stale, Renamed, Moved
<1>9. Recorded(mem.status, s) /\ Applied(s) => Recorded(mem'.status, s) /\ Applied(s)'
  BY <1>2, <1>3, <1>4, <1>8 DEF Same, Applied
<1>10. Observed'
  BY <1>1, <1>3, <1>4, <1>9, PassObserved DEF Same, Midway, IInv
<1> QED BY <1>6, <1>7, <1>10 DEF IInv

LEMMA StageFailsKeeps == ASSUME IInv, StageFails PROVE IInv'
<1> DEFINE s == mem.spec
<1>1. /\ Midway(s) /\ faults' \in Nat
      /\ UNCHANGED <<resource, status, clocks, helm, origin, cut, edits>>
  BY PassIsMidway DEF StageFails, Fault, IInv, Shaped, TypeOK
<1>2. /\ pc' = "end" /\ mem' \in Copies /\ mem'.spec = s /\ mem'.gen = mem.gen
      /\ Reported(mem'.status, mem.status) /\ mem'.status.phase # "Installed"
  <2>1. CASE pc = "observe"
    BY <1>1, <2>1 DEF StageFails, GoTo, Copies, Reported, Midway, IInv, Progress
  <2>2. CASE pc \in {"source", "server", "repo"}
    BY <1>1, <2>2, FailedCopy DEF StageFails, GoTo, Midway, Reasons
  <2> QED BY <2>1, <2>2 DEF StageFails
<1>3. Shaped'
  BY <1>1, <1>2, PassShaped DEF Reported, Stages, Midway, IInv, Shaped, TypeOK
<1>4. Progress'
  BY <1>1, <1>2, EndsUnfinished DEF Reported, Midway
<1>5. Observed'
  BY <1>1, <1>2, PassObserved DEF Reported, Recorded, Applied, Midway, IInv
<1> QED BY <1>3, <1>4, <1>5 DEF IInv

LEMMA TakeSourceKeeps == ASSUME IInv, TakeGitSource \/ TakeHelmSource PROVE IInv'
<1> DEFINE s == mem.spec
           old == {mem.status.server} \ {None, mem.spec.server}
<1>1. /\ pc = "source" /\ Midway(s) /\ mem' = mem
      /\ mem.status.phase = "Installing"
      /\ UNCHANGED <<resource, status, clocks, origin, cut, edits>>
  BY PassIsMidway DEF TakeGitSource, TakeHelmSource, GoTo, bounds, IInv, Progress
<1>2. /\ faults' \in Nat
      /\ pc' = IF s.kind = "Helm" THEN "server" ELSE "repo"
      /\ helm' = helm \/ (s.kind = "Helm" /\ helm' = Without(old))
  BY <1>1 DEF TakeGitSource, TakeHelmSource, GoTo, Fault, bounds, Midway, IInv,
              Shaped, TypeOK
<1>3. helm' \in [Releases -> HelmReleases]
  BY <1>1, <1>2, WithoutReleases DEF Midway, IInv, Shaped, TypeOK
<1>4. Shaped'
  BY <1>1, <1>2, <1>3, PassShaped DEF Stages, Midway, IInv, Shaped, TypeOK
<1>5. Progress'
  BY <1>1, <1>2 DEF Progress, Midway
<1>6. Recorded(mem.status, s) /\ Applied(s) => Applied(s)'
  <2> HAVE Recorded(mem.status, s) /\ Applied(s)
  <2>1. CASE helm' = helm
    BY <1>1, <2>1 DEF Applied
  <2>2. CASE s.kind = "Helm" /\ helm' = Without(old)
    <3>1. old = {}
      BY <2>2 DEF Recorded
    <3>2. \A q \in Releases : helm'[q] = helm[q]
      BY <1>1, <2>2, <3>1, WithoutReleases DEF Midway, IInv, Shaped, TypeOK
    <3> QED BY <1>1, <3>2, AppliedKept DEF KeepsVersions, Midway
  <2> QED BY <1>2, <2>1, <2>2
<1>7. Observed'
  BY <1>1, <1>2, <1>6, PassObserved DEF Midway, IInv
<1> QED BY <1>4, <1>5, <1>7 DEF IInv

\* The stages that ensure a release share this: what else was recorded and
\* applied stays so.
LEMMA EnsureStep ==
    ASSUME NEW s, Midway(s), NEW r \in Releases, NEW k \in Markers, NEW stage,
           NEW m \in Copies, m.spec = mem.spec, m.gen = mem.gen,
           EnsureRelease(r, k, stage, m)
    PROVE  /\ helm' \in [Releases -> HelmReleases] /\ clocks' \in Clocks
           /\ mem' \in Copies
           /\ helm'[r].version = s.version
           /\ \A q \in Releases \ {r} : helm'[q].version = helm[q].version
           /\ \/ pc' = stage /\ Same(mem', m)
              \/ pc' = "end" /\ Same(mem', mem)
<1>1. /\ mem \in Copies /\ clocks \in Clocks /\ helm \in [Releases -> HelmReleases]
      /\ mem.spec.version = s.version /\ s.version \in Versions
  BY SpecTypes DEF Midway, IInv, Shaped, TypeOK
<1>2. helm' \in Ensured(r, s.version) /\ Stamp(Cleared({k}), stage, m)
  BY <1>1 DEF EnsureRelease
<1>3. Cleared({k}) \in Clocks
  BY <1>1, ClearedTypes
<1>4. /\ helm' \in [Releases -> HelmReleases]
      /\ helm'[r].version = s.version
      /\ \A q \in Releases \ {r} : helm'[q].version = helm[q].version
  BY <1>1, <1>2, EnsuredRelease
<1> QED BY <1>1, <1>2, <1>3, <1>4, StampEffect

\* Applied releases stay applied when any of them is ensured again.
LEMMA EnsureKeepsApplied ==
    ASSUME NEW s \in Specs, NEW r \in Releases, Applied(s),
           helm'[r].version = s.version,
           \A q \in Releases \ {r} : helm'[q].version = helm[q].version
    PROVE  Applied(s)'
BY SpecTypes DEF Applied

LEMMA FailStep ==
    ASSUME NEW s, Midway(s), NEW r \in Releases, NEW k \in Markers,
           EnsureFails(r, k)
    PROVE  /\ helm' \in [Releases -> HelmReleases] /\ clocks' \in Clocks
           /\ mem' \in Copies /\ pc' = "end" /\ faults' \in Nat
           /\ mem'.spec = s /\ mem'.gen = mem.gen
           /\ Reported(mem'.status, mem.status) /\ mem'.status.phase = "Failed"
           /\ KeepsVersions
<1>1. /\ mem \in Copies /\ clocks \in Clocks /\ helm \in [Releases -> HelmReleases]
      /\ mem.spec = s /\ faults \in Nat
  BY DEF Midway, IInv, Shaped, TypeOK
<1>2. Failed(mem, "Failed") \in Copies /\ Erase({k}, Failed(mem, "Failed"))
  BY <1>1, FailedCopy DEF EnsureFails, Reasons
<1>3. /\ clocks' \in Clocks /\ mem' \in Copies /\ pc' = "end"
      /\ Same(mem', Failed(mem, "Failed"))
  BY <1>1, <1>2, EraseEffect
<1>4. helm' \in [Releases -> HelmReleases] /\ KeepsVersions
  <2>1. CASE helm' = helm
    BY <1>1, <2>1 DEF KeepsVersions
  <2>2. CASE helm' = Unfinished(r, "failed")
    BY <1>1, <2>2, UnfinishedRelease
  <2> QED BY <2>1, <2>2 DEF EnsureFails
<1>5. "Failed" \in Reasons
  BY DEF Reasons
<1>6. faults' \in Nat
  BY <1>1 DEF EnsureFails, Fault
<1> QED BY <1>1, <1>3, <1>4, <1>5, <1>6, FailedCopy DEF Same

LEMMA AwaitStep ==
    ASSUME NEW s, Midway(s), mem.status.phase = "Installing",
           NEW r \in Releases, NEW k \in Markers, AwaitRelease(r, k)
    PROVE  /\ clocks' \in Clocks /\ mem' \in Copies /\ pc' = "end"
           /\ mem'.spec = s /\ mem'.gen = mem.gen /\ helm' = helm
           /\ Reported(mem'.status, mem.status) /\ mem'.status.phase # "Installed"
<1> DEFINE m == [mem EXCEPT !.status.ready = "ReleasePending"]
<1>1. mem \in Copies /\ clocks \in Clocks /\ mem.spec = s
  BY DEF Midway, IInv, Shaped, TypeOK
<1>2. CASE /\ UNCHANGED clocks
           /\ GoTo("end", Failed(mem, "ReleasePendingTimedOut"))
  BY <1>1, <1>2, FailedCopy DEF GoTo, Reasons, AwaitRelease
<1>3. CASE Stamp([mem.clocks EXCEPT ![k] = "young"], "end", m)
  <2>1. /\ m \in Copies /\ m.spec = mem.spec /\ m.gen = mem.gen
        /\ Reported(m.status, mem.status) /\ m.status.phase = mem.status.phase
    BY <1>1 DEF Copies, Statuses, Reasons, Reported
  <2>2. [mem.clocks EXCEPT ![k] = "young"] \in Clocks
    BY <1>1, StartedTypes
  <2> HIDE DEF m
  <2>3. /\ clocks' \in Clocks /\ mem' \in Copies /\ pc' = "end"
        /\ Same(mem', m) \/ Same(mem', mem)
    BY <1>1, <1>3, <2>1, <2>2, StampEffect
  <2> QED BY <1>1, <2>1, <2>3 DEF Same, Reported, AwaitRelease
<1> QED BY <1>2, <1>3 DEF AwaitRelease

\* A stage that ends the pass without success.
LEMMA UnfinishedStage ==
    ASSUME NEW s, Midway(s), UNCHANGED <<resource, status, cut>>,
           origin' \in [{"deployment", "service"} -> (Releases \X Nat) \cup {None}],
           edits' \in Nat, faults' \in Nat, clocks' \in Clocks,
           helm' \in [Releases -> HelmReleases], KeepsVersions,
           mem' \in Copies, pc' = "end", mem'.spec = s, mem'.gen = mem.gen,
           Reported(mem'.status, mem.status), mem'.status.phase # "Installed"
    PROVE  IInv'
<1>1. Shaped'
  BY PassShaped DEF Reported, Stages, Midway, IInv, Shaped, TypeOK
<1>2. Progress'
  BY EndsUnfinished DEF Reported, Midway
<1>3. Recorded(mem.status, s) /\ Applied(s) => Recorded(mem'.status, s) /\ Applied(s)'
  BY AppliedKept DEF Reported, Recorded, Midway
<1>4. Observed'
  BY <1>3, PassObserved DEF Reported, Midway, IInv
<1> QED BY <1>1, <1>2, <1>4 DEF IInv

LEMMA EnsureServerKeeps == ASSUME IInv, EnsureServer PROVE IInv'
<1> DEFINE s == mem.spec
           r == mem.spec.server
           m == [mem EXCEPT !.status.server = r]
<1>1. /\ pc = "server" /\ Midway(s) /\ mem.status.phase = "Installing"
      /\ s.kind = "Helm" /\ r \in Releases /\ faults \in Nat
      /\ UNCHANGED <<resource, status, origin, cut, edits>>
  BY PassIsMidway, SpecTypes DEF EnsureServer, IInv, Progress, Shaped, TypeOK, Midway
<1>2. /\ m \in Copies /\ m.spec = mem.spec /\ m.gen = mem.gen
      /\ m.status.server = r /\ m.status.phase = mem.status.phase
      /\ m.status.active = mem.status.active /\ m.status.source = mem.status.source
      /\ m.status.observed = mem.status.observed
  BY <1>1 DEF Midway, Copies, Statuses
<1> HIDE DEF m
<1>3. CASE EnsureRelease(r, "release", "observe", m) /\ UNCHANGED faults
  <2>1. /\ helm' \in [Releases -> HelmReleases] /\ clocks' \in Clocks
        /\ mem' \in Copies
        /\ helm'[r].version = s.version
        /\ \A q \in Releases \ {r} : helm'[q].version = helm[q].version
        /\ \/ pc' = "observe" /\ Same(mem', m)
           \/ pc' = "end" /\ Same(mem', mem)
    BY <1>1, <1>2, <1>3, EnsureStep DEF Markers
  <2>2. Shaped'
    BY <1>1, <1>2, <1>3, <2>1, PassShaped DEF Same, Stages, Midway, IInv, Shaped, TypeOK
  <2>3. Progress'
    BY <1>1, <1>2, <2>1 DEF Same, Progress, Midway
  <2>4. Recorded(mem.status, s) /\ Applied(s) => Recorded(mem'.status, s) /\ Applied(s)'
    BY <1>1, <1>2, <2>1, EnsureKeepsApplied DEF Same, Recorded, Midway, Applied
  <2>5. Observed'
    BY <1>1, <1>2, <2>1, <2>4, PassObserved DEF Same, Midway, IInv
  <2> QED BY <2>2, <2>3, <2>5 DEF IInv
<1>4. CASE EnsureFails(r, "release") \/ (AwaitRelease(r, "release") /\ UNCHANGED faults)
  <2>1. /\ helm' \in [Releases -> HelmReleases] /\ clocks' \in Clocks
        /\ mem' \in Copies /\ pc' = "end" /\ faults' \in Nat
        /\ mem'.spec = s /\ mem'.gen = mem.gen
        /\ Reported(mem'.status, mem.status) /\ mem'.status.phase # "Installed"
        /\ KeepsVersions
    BY <1>1, <1>4, FailStep, AwaitStep
    DEF Markers, KeepsVersions, Midway, IInv, Shaped, TypeOK
  <2> QED BY <1>1, <2>1, UnfinishedStage DEF Midway, IInv, Shaped, TypeOK
<1> QED BY <1>3, <1>4 DEF EnsureServer, m

LEMMA EnsureChartKeeps == ASSUME IInv, EnsureChart PROVE IInv'
<1> DEFINE s == mem.spec
           r == mem.spec.name
           k == ChartMarker(mem)
           m == IF s.kind = "Helm" THEN Installed(mem) ELSE mem
           stage == IF s.kind = "Helm" THEN "end" ELSE "observe"
<1>1. /\ pc = "chart" /\ Midway(s) /\ mem.status.phase = "Installing"
      /\ mem.status.active = s.name /\ mem.status.source = s.kind
      /\ s.kind = "Helm" => /\ helm[s.server].version = s.version
                            /\ mem.status.server = s.server
                            /\ s.server \in Releases \ {r}
      /\ s.kind \in Kinds /\ r \in Releases /\ k \in Markers /\ faults \in Nat
      /\ edits \in Nat
      /\ UNCHANGED <<resource, status, origin, cut, edits>>
  BY PassIsMidway, SpecTypes
  DEF EnsureChart, IInv, Progress, Shaped, TypeOK, Midway, Markers, ChartMarker,
      Collides
<1>2. /\ m \in Copies /\ m.spec = mem.spec /\ m.gen = mem.gen
      /\ Reported(m.status, mem.status)
      /\ s.kind = "Git" => m = mem
  BY <1>1, InstalledCopy DEF Midway, Reported, Kinds
<1>3. CASE EnsureRelease(r, k, stage, m) /\ UNCHANGED faults
  <2> HIDE DEF m
  <2>1. /\ helm' \in [Releases -> HelmReleases] /\ clocks' \in Clocks
        /\ mem' \in Copies
        /\ helm'[r].version = s.version
        /\ \A q \in Releases \ {r} : helm'[q].version = helm[q].version
        /\ \/ pc' = stage /\ Same(mem', m)
           \/ pc' = "end" /\ Same(mem', mem)
    BY <1>1, <1>2, <1>3, EnsureStep
  <2>2. Reported(mem'.status, mem.status) /\ mem'.spec = s /\ mem'.gen = mem.gen
    BY <1>2, <2>1 DEF Same, Reported
  <2>3. Shaped'
    BY <1>1, <1>3, <2>1, <2>2, PassShaped
    DEF Reported, Stages, Midway, IInv, Shaped, TypeOK
  <2>4. Applied(s)' /\ Recorded(mem.status, s) /\ Recorded(mem'.status, s)
    BY <1>1, <2>1, <2>2 DEF Applied, Recorded, Reported
  <2>5. Progress'
    BY <1>1, <1>2, <2>1, <2>2, <2>4 DEF Same, Progress, Midway, Reported, Kinds, Applied
  <2>6. Observed'
    BY <1>1, <2>1, <2>2, <2>4, PassObserved DEF Reported, Midway, IInv
  <2> QED BY <2>3, <2>5, <2>6 DEF IInv
<1>4. CASE EnsureFails(r, k) \/ (AwaitRelease(r, k) /\ UNCHANGED faults)
  <2>1. /\ helm' \in [Releases -> HelmReleases] /\ clocks' \in Clocks
        /\ mem' \in Copies /\ pc' = "end" /\ faults' \in Nat
        /\ mem'.spec = s /\ mem'.gen = mem.gen
        /\ Reported(mem'.status, mem.status) /\ mem'.status.phase # "Installed"
        /\ KeepsVersions
    BY <1>1, <1>4, FailStep, AwaitStep
    DEF KeepsVersions, Midway, IInv, Shaped, TypeOK
  <2> QED BY <1>1, <2>1, UnfinishedStage DEF Midway, IInv, Shaped, TypeOK
<1> QED BY <1>1, <1>3, <1>4 DEF EnsureChart, Kinds

LEMMA EnsureRepoKeeps == ASSUME IInv, EnsureRepo PROVE IInv'
<1> DEFINE s == mem.spec
           m == [mem EXCEPT !.status.active = mem.spec.name,
                            !.status.source = mem.spec.kind]
<1>1. /\ pc = "repo" /\ Midway(s) /\ mem.status.phase = "Installing"
      /\ pc' = "chart" /\ mem' = m
      /\ UNCHANGED <<resource, status, clocks, helm, origin, cut, bounds>>
  BY PassIsMidway DEF EnsureRepo, GoTo, IInv, Progress
<1>2. s.kind \in Kinds /\ s.name \in Releases /\ s.name # None
  BY <1>1, SpecTypes DEF Midway
<1>3. /\ m \in Copies /\ m.spec = s /\ m.gen = mem.gen
      /\ m.status.active = s.name /\ m.status.source = s.kind
      /\ m.status.server = mem.status.server
      /\ m.status.phase = mem.status.phase
      /\ m.status.observed = mem.status.observed
  BY <1>1, <1>2 DEF Midway, Copies, Statuses
<1> HIDE DEF m
<1>4. (m.status.active = None) = (m.status.source = "none")
  BY <1>2, <1>3 DEF Kinds
<1>5. Shaped'
  BY <1>1, <1>3, <1>4, PassShaped DEF bounds, Stages, Midway, IInv, Shaped, TypeOK
<1>6. Progress'
  BY <1>1, <1>3 DEF Progress, Midway, IInv
<1>7. Observed'
  BY <1>1, <1>3, PassObserved DEF Recorded, Applied, Midway, IInv
<1> QED BY <1>5, <1>6, <1>7 DEF IInv

\* A stage that only looks at the releases.
LEMMA LookingStage ==
    ASSUME NEW s, Midway(s), UNCHANGED <<resource, status, helm, cut, bounds>>,
           origin' \in [{"deployment", "service"} -> (Releases \X Nat) \cup {None}],
           clocks' \in Clocks, mem' \in Copies, mem'.spec = s, mem'.gen = mem.gen,
           mem'.status.observed = mem.status.observed,
           mem'.status.server = mem.status.server,
           mem'.status.active = mem.status.active,
           mem'.status.source = mem.status.source,
           pc' \in Stages \ {"idle"},
           pc' \in {"end", "persist"} \/ ~Collides(s),
           pc' \in {"server", "service"} => s.kind = "Helm"
    PROVE  Shaped' /\ Observed'
<1>1. Shaped'
  BY PassShaped DEF Midway, IInv, Shaped, TypeOK, bounds
<1>2. Observed'
  BY PassObserved DEF Recorded, Applied, Midway, IInv
<1> QED BY <1>1, <1>2

LEMMA ObserveRevisionKeeps == ASSUME IInv, ObserveRevision PROVE IInv'
<1> DEFINE s == mem.spec
           at == helm[Target(mem)].revision
           m == [mem EXCEPT !.status.revision = at]
           new == IF mem.status.revision \in {0, at} THEN mem.clocks
                  ELSE Cleared({"deployment", "service"})
<1>1. /\ pc = "observe" /\ Midway(s) /\ mem.status.phase = "Installing"
      /\ Stamp(new, "running", m)
      /\ UNCHANGED <<resource, status, helm, origin, cut, bounds>>
  BY PassIsMidway DEF ObserveRevision, IInv, Progress
<1>2. /\ mem \in Copies /\ clocks \in Clocks /\ s \in Specs
      /\ helm \in [Releases -> HelmReleases]
      /\ origin \in [{"deployment", "service"} -> (Releases \X Nat) \cup {None}]
      /\ ~Collides(s)
  BY <1>1 DEF Midway, IInv, Shaped, TypeOK
<1>3. at \in Nat
  BY <1>2, SpecTypes DEF Target, HelmReleases, Kinds
<1>4. new \in Clocks
  BY <1>2, ClearedTypes DEF Copies
<1>5. /\ m \in Copies /\ m.spec = s /\ m.gen = mem.gen
      /\ m.status.active = mem.status.active /\ m.status.source = mem.status.source
      /\ m.status.server = mem.status.server
      /\ m.status.phase = mem.status.phase
      /\ m.status.observed = mem.status.observed
  BY <1>2, <1>3 DEF Copies, Statuses
<1> HIDE DEF m, new
<1>6. /\ clocks' \in Clocks /\ mem' \in Copies
      /\ \/ pc' = "running" /\ Same(mem', m)
         \/ pc' = "end" /\ Same(mem', mem)
  BY <1>1, <1>2, <1>4, <1>5, StampEffect
<1>7. Shaped' /\ Observed'
  BY <1>1, <1>2, <1>5, <1>6, LookingStage DEF Same, Stages
<1>8. Progress'
  BY <1>1, <1>5, <1>6 DEF Same, Progress, Midway, IInv, Applied, Recorded
<1> QED BY <1>7, <1>8 DEF IInv

LEMMA WaitedTypes ==
    ASSUME mem \in Copies, mem.spec \in Specs
    PROVE  Waited(mem) \in Releases \X Nat
BY SpecTypes, CopyTypes DEF Waited, Target, Kinds

\* A wait for readiness ends the pass without success.
LEMMA ReadinessStep ==
    ASSUME NEW s, Midway(s), mem.status.phase = "Installing",
           NEW k \in {"deployment", "service"}, AwaitReadiness(k)
    PROVE  /\ clocks' \in Clocks /\ mem' \in Copies /\ pc' = "end"
           /\ origin' \in [{"deployment", "service"} -> (Releases \X Nat) \cup {None}]
           /\ mem'.spec = s /\ mem'.gen = mem.gen
           /\ Reported(mem'.status, mem.status) /\ mem'.status.phase # "Installed"
<1>1. /\ mem \in Copies /\ clocks \in Clocks /\ mem.spec = s /\ s \in Specs
      /\ origin \in [{"deployment", "service"} -> (Releases \X Nat) \cup {None}]
  BY DEF Midway, IInv, Shaped, TypeOK
<1>2. CASE /\ UNCHANGED <<clocks, origin>>
           /\ GoTo("end", Failed(mem, "ReadinessTimedOut"))
  BY <1>1, <1>2, FailedCopy DEF GoTo, Reasons
<1>3. CASE UNCHANGED <<clocks, origin>> /\ GoTo("end", mem)
  BY <1>1, <1>3 DEF GoTo, Reported
<1>4. CASE /\ Stamp([mem.clocks EXCEPT ![k] = "young"], "end", mem)
           /\ origin' = IF Fresh THEN [origin EXCEPT ![k] = Waited(mem)] ELSE origin
  <2>1. [mem.clocks EXCEPT ![k] = "young"] \in Clocks
    BY <1>1, StartedTypes DEF Markers
  <2>2. clocks' \in Clocks /\ mem' \in Copies /\ pc' = "end" /\ Same(mem', mem)
    BY <1>1, <1>4, <2>1, StampEffect
  <2>3. origin' \in [{"deployment", "service"} -> (Releases \X Nat) \cup {None}]
    BY <1>1, <1>4, WaitedTypes
  <2> QED BY <1>1, <2>2, <2>3 DEF Same, Reported
<1> QED BY <1>2, <1>3, <1>4 DEF AwaitReadiness

LEMMA AwaitRunningKeeps == ASSUME IInv, AwaitRunning PROVE IInv'
<1> DEFINE s == mem.spec
<1>1. /\ pc = "running" /\ Midway(s) /\ mem.status.phase = "Installing"
      /\ UNCHANGED <<resource, status, helm, cut, bounds>>
  BY PassIsMidway DEF AwaitRunning, IInv, Progress
<1>2. /\ mem \in Copies /\ clocks \in Clocks /\ helm \in [Releases -> HelmReleases]
      /\ origin \in [{"deployment", "service"} -> (Releases \X Nat) \cup {None}]
      /\ ~Collides(s) /\ edits \in Nat /\ faults \in Nat
  BY <1>1 DEF Midway, IInv, Shaped, TypeOK
<1>3. Cleared({"deployment"}) \in Clocks
  BY <1>2, ClearedTypes
<1>4. CASE /\ s.kind = "Helm" /\ UNCHANGED origin
           /\ Stamp(Cleared({"deployment"}), "service", mem)
  <2>1. /\ clocks' \in Clocks /\ mem' \in Copies /\ Same(mem', mem)
        /\ pc' \in {"service", "end"}
    BY <1>2, <1>3, <1>4, StampEffect
  <2>2. Shaped' /\ Observed'
    BY <1>1, <1>2, <1>4, <2>1, LookingStage DEF Same, Stages
  <2>3. Progress'
    BY <1>1, <1>4, <2>1 DEF Same, Progress, Midway, IInv
  <2> QED BY <2>2, <2>3 DEF IInv
<1>5. CASE /\ s.kind = "Git" /\ UNCHANGED origin
           /\ Stamp(Cleared({"deployment"}), "end", Installed(mem))
  <2>1. /\ clocks' \in Clocks /\ mem' \in Copies /\ pc' = "end"
        /\ Same(mem', Installed(mem)) \/ Same(mem', mem)
    BY <1>2, <1>3, <1>5, StampEffect, InstalledCopy
  <2>2. /\ mem'.spec = s /\ mem'.gen = mem.gen
        /\ Reported(mem'.status, mem.status)
    BY <1>2, <2>1, InstalledCopy DEF Same, Reported
  <2>3. Shaped' /\ Observed'
    BY <1>1, <1>2, <1>5, <2>1, <2>2, LookingStage DEF Reported, Stages
  <2>4. Applied(s) /\ Recorded(mem.status, s)
    BY <1>1, <1>5 DEF IInv, Progress
  <2>5. Applied(s)' /\ Recorded(mem'.status, s)
    BY <1>1, <2>2, <2>4 DEF Applied, Recorded, Reported
  <2>6. Progress'
    BY <1>1, <2>1, <2>2, <2>5 DEF Progress, Midway, Reported, Applied
  <2> QED BY <2>3, <2>6 DEF IInv
<1>6. CASE AwaitReadiness("deployment")
  BY <1>1, <1>2, <1>6, ReadinessStep, UnfinishedStage DEF KeepsVersions, bounds
<1> QED BY <1>4, <1>5, <1>6 DEF AwaitRunning

LEMMA AwaitServiceKeeps == ASSUME IInv, AwaitService PROVE IInv'
<1> DEFINE s == mem.spec
<1>1. /\ pc = "service" /\ Midway(s) /\ mem.status.phase = "Installing"
      /\ s.kind = "Helm"
      /\ UNCHANGED <<resource, status, helm, cut, bounds>>
  BY PassIsMidway DEF AwaitService, IInv, Progress, Shaped
<1>2. /\ mem \in Copies /\ clocks \in Clocks /\ helm \in [Releases -> HelmReleases]
      /\ origin \in [{"deployment", "service"} -> (Releases \X Nat) \cup {None}]
      /\ ~Collides(s) /\ edits \in Nat /\ faults \in Nat
  BY <1>1 DEF Midway, IInv, Shaped, TypeOK
<1>3. CASE UNCHANGED origin /\ Stamp(Cleared({"service"}), "repo", mem)
  <2>1. /\ clocks' \in Clocks /\ mem' \in Copies /\ Same(mem', mem)
        /\ pc' \in {"repo", "end"}
    BY <1>2, <1>3, ClearedTypes, StampEffect
  <2>2. Shaped' /\ Observed'
    BY <1>1, <1>2, <1>3, <2>1, LookingStage DEF Same, Stages
  <2>3. Progress'
    BY <1>1, <2>1 DEF Same, Progress, Midway, IInv
  <2> QED BY <2>2, <2>3 DEF IInv
<1>4. CASE AwaitReadiness("service")
  BY <1>1, <1>2, <1>4, ReadinessStep, UnfinishedStage DEF KeepsVersions, bounds
<1> QED BY <1>3, <1>4 DEF AwaitService

LEMMA EndPassKeeps == ASSUME IInv, EndPass PROVE IInv'
<1> DEFINE s == mem.spec
           done == ~mem.failed /\ mem.status.phase = "Installed"
           m == [mem EXCEPT !.status.observed = IF done THEN mem.gen ELSE @]
<1>1. /\ pc = "end" /\ pc' = "persist" /\ Midway(s) /\ mem' = m
      /\ UNCHANGED <<resource, status, helm, origin, cut, bounds>>
  BY PassIsMidway DEF EndPass, IInv, Progress
<1>2. /\ mem \in Copies /\ clocks \in Clocks /\ helm \in [Releases -> HelmReleases]
      /\ origin \in [{"deployment", "service"} -> (Releases \X Nat) \cup {None}]
      /\ edits \in Nat /\ faults \in Nat /\ mem.gen \in Nat /\ gen \in Nat
      /\ status.observed \in Nat
  BY <1>1, CopyTypes DEF Midway, IInv, Shaped, TypeOK, Statuses
<1>3. /\ m \in Copies /\ m.spec = s /\ m.gen = mem.gen
      /\ m.status.active = mem.status.active /\ m.status.source = mem.status.source
      /\ m.status.server = mem.status.server
      /\ m.status.phase = mem.status.phase
      /\ m.status.observed = IF done THEN mem.gen ELSE mem.status.observed
  BY <1>2 DEF Copies, Statuses
<1>4. clocks' \in Clocks
  BY <1>2, ClearedTypes DEF EndPass
<1> HIDE DEF m
<1>5. Shaped'
  BY <1>1, <1>2, <1>3, <1>4, PassShaped
  DEF Stages, Midway, IInv, Shaped, TypeOK, bounds
<1>6. Applied(s)' <=> Applied(s)
  BY <1>1, <1>3 DEF Applied
<1>7. mem.status.phase = "Installed" => Applied(s) /\ Recorded(mem.status, s)
  BY <1>1 DEF IInv, Progress
<1>8. Progress'
  BY <1>1, <1>3, <1>7 DEF Progress, Applied, Recorded
<1>9. m.status.observed = m.gen => Applied(s) /\ Recorded(m.status, s)
  BY <1>1, <1>3, <1>7 DEF Midway, IInv, Observed, Recorded
<1>10. Observed'
  <2>1. status.observed <= gen /\ status.observed <= mem.gen
    BY <1>1 DEF IInv, Observed, Midway
  <2>2. mem.status.observed <= mem.gen
    BY <1>1 DEF IInv, Observed, Midway
  <2>3. m.status.observed <= m.gen
    BY <1>2, <1>3, <2>2
  <2>4. status.observed = gen /\ life \in {"new", "live"}
          => Applied(spec)' /\ Recorded(status, spec)
    BY <1>1 DEF Midway, IInv, Observed, Applied, resource
  <2> QED BY <1>1, <1>3, <1>9, <2>1, <2>3, <2>4 DEF Observed, Applied, resource
<1> QED BY <1>5, <1>8, <1>10 DEF IInv

\* An older copy observed an older generation at most.
LEMMA PersistStatusKeeps == ASSUME IInv, PersistStatus PROVE IInv'
<1>1. /\ pc = "persist" /\ pc' = "idle" /\ mem' = None /\ status' = mem.status
      /\ UNCHANGED <<resource, clocks, helm, origin, cut, bounds>>
  BY DEF PersistStatus, GoTo
<1>2. /\ mem \in Copies /\ mem.status \in Statuses /\ mem.status.observed \in Nat
      /\ mem.gen \in Nat /\ gen \in Nat /\ mem.gen <= gen
      /\ mem.gen = gen => mem.spec = spec
  BY <1>1, CopyTypes DEF IInv, Shaped, TypeOK
<1>3. Shaped'
  BY <1>1, <1>2 DEF IInv, Shaped, TypeOK, Stages, resource, bounds
<1>4. Progress'
  BY <1>1 DEF Progress
<1>5. mem.status.observed <= mem.gen
  BY <1>1 DEF IInv, Observed
<1>6. mem.status.observed <= gen
  BY <1>2, <1>5
<1>7. mem.status.observed = gen => Applied(spec) /\ Recorded(mem.status, spec)
  BY <1>1, <1>2, <1>5 DEF IInv, Observed
<1>8. Observed'
  BY <1>1, <1>6, <1>7 DEF Observed, Applied, resource
<1> QED BY <1>3, <1>4, <1>8 DEF IInv

\* A pass starts from the resource and the status as they are stored.
LEMMA BeginKeeps == ASSUME IInv, BeginPass \/ RefuseCollision PROVE IInv'
<1>1. /\ pc = "idle" /\ life = "live" /\ spec \in Specs /\ gen \in Nat
      /\ status \in Statuses /\ clocks \in Clocks
      /\ UNCHANGED <<resource, status, clocks, helm, origin, cut, bounds>>
  BY DEF BeginPass, RefuseCollision, IInv, Shaped, TypeOK
<1>2. /\ Copy \in Copies /\ Copy.spec = spec /\ Copy.gen = gen
      /\ Reported(Copy.status, status) /\ Copy.status.phase = "Installing"
  BY <1>1, SpecAssumption DEF Copy, Copies, Statuses, Phases, Reported
<1>3. /\ mem' \in Copies /\ mem'.spec = spec /\ mem'.gen = gen
      /\ Reported(mem'.status, status)
      /\ \/ /\ pc' = "stale" /\ mem'.status.phase = "Installing"
            /\ ~Collides(spec)
         \/ pc' = "end" /\ mem'.status.phase = "Failed"
  <2>1. CASE BeginPass
    BY <1>2, <2>1 DEF BeginPass, GoTo
  <2>2. CASE RefuseCollision
    BY <1>2, <2>2, FailedCopy DEF RefuseCollision, GoTo, Reported, Reasons
  <2> QED BY <2>1, <2>2
<1>4. mem' # None
  BY <1>3, SpecAssumption
<1>5. Shaped'
  <2>1. TypeOK'
    BY <1>1, <1>3 DEF IInv, Shaped, TypeOK, Stages, resource, bounds
  <2>2. (status.active = None) = (status.source = "none")
    BY DEF IInv, Shaped, TypeOK
  <2> QED BY <1>1, <1>3, <1>4, <2>1, <2>2 DEF Shaped, Reported, resource, Collides
<1>6. Progress'
  BY <1>1, <1>3 DEF Progress, Reported
<1>7. Observed'
  BY <1>1, <1>3 DEF Observed, IInv, Reported, Recorded, Applied, resource
<1> QED BY <1>5, <1>6, <1>7 DEF IInv

-----------------------------------------------------------------------------
(* Between passes, and around them.                                        *)

LEMMA FinalizerKeeps == ASSUME IInv, AddFinalizer \/ Finalize PROVE IInv'
<1>1. /\ pc = "idle" /\ UNCHANGED <<spec, gen, moved, status, clocks, pc, mem,
                                    origin, cut, edits>>
      /\ faults' \in Nat
      /\ life' \in {"live", "deleting", "gone"}
      /\ life' = "live" => helm' = helm /\ life = "new"
  <2>1. CASE AddFinalizer
    BY <2>1 DEF AddFinalizer, bounds, IInv, Shaped, TypeOK
  <2>2. CASE Finalize
    BY <2>2 DEF Finalize, Fault, IInv, Shaped, TypeOK
  <2> QED BY <2>1, <2>2
<1>2. helm' \in [Releases -> HelmReleases]
  BY WithoutReleases DEF AddFinalizer, Finalize, IInv, Shaped, TypeOK
<1>3. Shaped'
  BY <1>1, <1>2 DEF IInv, Shaped, TypeOK
<1>4. Progress' /\ Observed'
  BY <1>1 DEF IInv, Progress, Observed, Applied
<1> QED BY <1>3, <1>4 DEF IInv

\* Whatever only changes the releases keeps the versions they have.
LEMMA ReleasesStep ==
    ASSUME IInv, UNCHANGED <<resource, status, clocks, origin, edits>>,
           faults' \in Nat, cut' \in BOOLEAN,
           helm' \in [Releases -> HelmReleases], KeepsVersions,
           UNCHANGED <<pc, mem>> \/ (pc' = "idle" /\ mem' = None)
    PROVE  IInv'
<1>1. Shaped'
  BY DEF IInv, Shaped, TypeOK, Stages, resource
<1>2. spec \in Specs /\ (pc # "idle" => mem.spec \in Specs)
  BY DEF IInv, Shaped, TypeOK
<1>3. /\ Applied(spec) => Applied(spec)'
      /\ pc # "idle" /\ UNCHANGED <<pc, mem>> /\ Applied(mem.spec) => Applied(mem.spec)'
  <2>1. Applied(spec) => Applied(spec)'
    BY <1>2, SpecTypes DEF Applied, KeepsVersions, resource
  <2>2. ASSUME pc # "idle", UNCHANGED <<pc, mem>>, Applied(mem.spec)
        PROVE  Applied(mem.spec)'
    BY <1>2, <2>2, SpecTypes DEF Applied, KeepsVersions
  <2> QED BY <2>1, <2>2
<1>4. Progress'
  <2>1. CASE pc' = "idle"
    BY <2>1 DEF Progress
  <2>2. CASE pc' # "idle" /\ UNCHANGED <<pc, mem>>
    <3>1. pc \in {"observe", "running", "service", "repo", "chart"}
            /\ mem.spec.kind = "Helm"
            => helm'[mem.spec.server].version = mem.spec.version
      BY <1>2, <2>2, SpecTypes DEF IInv, Progress, KeepsVersions
    <3> QED BY <1>3, <2>2, <3>1 DEF IInv, Progress
  <2> QED BY <2>1, <2>2
<1>5. Observed'
  <2>1. /\ status.observed' <= gen'
        /\ status.observed' = gen' /\ life' \in {"new", "live"}
             => Applied(spec)' /\ Recorded(status', spec')
    BY <1>3 DEF IInv, Observed, resource
  <2>2. CASE pc' = "idle"
    BY <2>1, <2>2 DEF Observed
  <2>3. CASE pc' # "idle" /\ UNCHANGED <<pc, mem>>
    BY <1>3, <2>1, <2>3 DEF IInv, Observed
  <2> QED BY <2>1, <2>2, <2>3
<1> QED BY <1>1, <1>4, <1>5 DEF IInv

LEMMA InterruptedKeeps == ASSUME IInv, Interrupted PROVE IInv'
<1>1. /\ UNCHANGED <<resource, status, clocks, origin, edits>> /\ cut' = TRUE
      /\ faults' \in Nat /\ pc' = "idle" /\ mem' = None
      /\ helm \in [Releases -> HelmReleases]
  BY DEF Interrupted, Fault, GoTo, IInv, Shaped, TypeOK
<1>2. helm' \in [Releases -> HelmReleases] /\ KeepsVersions
  <2>1. CASE UNCHANGED helm
    BY <1>1, <2>1 DEF KeepsVersions
  <2>2. CASE \E r \in Releases :
               helm' \in {Unfinished(r, "pending"), Unfinished(r, "failed")}
    BY <1>1, <2>2, UnfinishedRelease
  <2> QED BY <2>1, <2>2 DEF Interrupted
<1> QED BY <1>1, <1>2, ReleasesStep

LEMMA ClusterKeeps ==
    ASSUME IInv, NEW r \in Releases,
           ForeignOperation(r) \/ OperationEnds(r) \/ Rollout(r) \/ Degrade(r)
    PROVE  IInv'
<1>1. /\ UNCHANGED <<resource, status, clocks, origin, edits, cut, pc, mem>>
      /\ faults' \in Nat /\ cut \in BOOLEAN /\ helm \in [Releases -> HelmReleases]
  BY DEF ForeignOperation, OperationEnds, Rollout, Degrade, Fault, IInv, Shaped,
         TypeOK, bounds
<1>2. helm' \in [Releases -> HelmReleases] /\ KeepsVersions
  <2>1. CASE ForeignOperation(r)
    BY <1>1, <2>1, UnfinishedRelease DEF ForeignOperation
  <2>2. CASE OperationEnds(r)
    BY <1>1, <2>2 DEF OperationEnds, HelmReleases, KeepsVersions
  <2>3. CASE Rollout(r) \/ Degrade(r)
    BY <1>1, <2>3 DEF Rollout, Degrade, HelmReleases, KeepsVersions
  <2> QED BY <2>1, <2>2, <2>3
<1> QED BY <1>1, <1>2, ReleasesStep

LEMMA EditKeeps == ASSUME IInv, NEW s \in Specs, EditSpec(s) PROVE IInv'
<1>1. /\ spec' = s /\ gen' = gen + 1 /\ gen \in Nat /\ edits' \in Nat
      /\ moved' \in BOOLEAN /\ status.observed \in Nat
      /\ UNCHANGED <<life, status, clocks, helm, pc, mem, origin, cut, faults>>
  BY DEF EditSpec, IInv, Shaped, TypeOK, Statuses
<1>2. pc # "idle" => mem.gen \in Nat /\ mem.gen <= gen
  BY CopyTypes DEF IInv, Shaped
<1>3. Shaped'
  BY <1>1, <1>2 DEF IInv, Shaped, TypeOK
<1>4. Progress'
  BY <1>1 DEF IInv, Progress, Applied
<1>5. status.observed <= gen
  BY DEF IInv, Observed
<1>6. status.observed # gen' /\ status.observed <= gen'
  BY <1>1, <1>5
<1>7. Observed'
  BY <1>1, <1>6 DEF IInv, Observed, Applied
<1> QED BY <1>3, <1>4, <1>7 DEF IInv

LEMMA DeleteKeeps == ASSUME IInv, Delete PROVE IInv'
<1>1. /\ UNCHANGED <<spec, gen, moved, status, clocks, helm, pc, mem, origin, cut, bounds>>
      /\ life' \in {"gone", "deleting"} /\ (life' = "gone" => life = "new")
  BY DEF Delete
<1>2. Shaped'
  BY <1>1 DEF IInv, Shaped, TypeOK, bounds
<1>3. Progress' /\ Observed'
  BY <1>1 DEF IInv, Progress, Observed, Applied
<1> QED BY <1>2, <1>3 DEF IInv

LEMMA TimeKeeps == ASSUME IInv, TimePasses PROVE IInv'
<1> DEFINE older(c) == [k \in Markers |-> Older(c[k])]
<1>1. \A c \in Clocks : older(c) \in Clocks
  BY DEF Clocks, Older, Ages
<1>2. /\ clocks' = older(clocks)
      /\ mem' = IF mem = None THEN None ELSE [mem EXCEPT !.clocks = older(mem.clocks)]
      /\ UNCHANGED <<resource, status, helm, pc, origin, cut, bounds>>
  BY DEF TimePasses
<1> HIDE DEF older
<1>3. clocks' \in Clocks
  BY <1>1, <1>2 DEF IInv, Shaped, TypeOK
<1>4. /\ pc = "idle" => mem' = None
      /\ pc # "idle" => mem' \in Copies /\ Same(mem', mem)
  <2>1. CASE pc = "idle"
    BY <1>2, <2>1 DEF IInv, Shaped
  <2>2. CASE pc # "idle"
    <3>1. mem \in Copies /\ mem # None
      BY <2>2 DEF IInv, Shaped
    <3>2. older(mem.clocks) \in Clocks
      BY <1>1, <3>1, CopyTypes
    <3> QED BY <1>2, <2>2, <3>1, <3>2 DEF Same, Copies
  <2> QED BY <2>1, <2>2
<1>5. Shaped'
  BY <1>2, <1>3, <1>4, SpecAssumption DEF IInv, Shaped, TypeOK, Same, resource, bounds
<1>6. Progress'
  BY <1>2, <1>4 DEF IInv, Progress, Same, Applied
<1>7. Observed'
  BY <1>2, <1>4 DEF IInv, Observed, Same, Applied, resource
<1> QED BY <1>5, <1>6, <1>7 DEF IInv

-----------------------------------------------------------------------------
LEMMA InitSatisfies == Init => IInv
<1> SUFFICES ASSUME Init PROVE IInv
  OBVIOUS
<1>1. TypeOK
  BY SpecAssumption
  DEF Init, TypeOK, Statuses, Phases, Reasons, Clocks, Ages, HelmReleases, Absent,
      Stages
<1>2. Shaped /\ Progress /\ Observed
  BY <1>1 DEF Init, Shaped, Progress, Observed
<1> QED BY <1>2 DEF IInv

LEMMA NextKeeps == ASSUME IInv, [Next]_vars PROVE IInv'
<1>1. CASE UNCHANGED vars
  BY <1>1 DEF vars, IInv, Shaped, TypeOK, Progress, Observed, Applied, resource, bounds
<1>2. CASE PassStep
  BY <1>2, FinalizerKeeps, BeginKeeps, RemoveStaleKeeps, TakeSourceKeeps,
     EnsureServerKeeps, ObserveRevisionKeeps, AwaitRunningKeeps, AwaitServiceKeeps,
     EnsureRepoKeeps, EnsureChartKeeps, EndPassKeeps, PersistStatusKeeps
  DEF PassStep
<1>3. CASE OutsideStep
  BY <1>3, StageFailsKeeps, InterruptedKeeps, DeleteKeeps, TimeKeeps, EditKeeps,
     ClusterKeeps
  DEF OutsideStep
<1> QED BY <1>1, <1>2, <1>3 DEF Next

LEMMA Invariance == Spec => []IInv
BY InitSatisfies, NextKeeps, PTL DEF Spec

\* The type invariant of the controller, whatever is edited, deleted, failed,
\* interrupted or operated on by others while a pass runs.
THEOREM ExtensionTypeCorrect == Spec => []TypeOK
<1>1. IInv => TypeOK
  BY DEF IInv, Shaped
<1> QED BY <1>1, Invariance, PTL

\* A generation counts as observed only when the releases run its version:
\* a pass that worked on an older spec, or that was refused its annotations,
\* never reports for the newer one (reconcileRequest, updateAnnotations).
THEOREM ObservedMeansApplied == Spec => []ObservedIsApplied
<1>1. IInv => ObservedIsApplied
  BY DEF IInv, Observed, ObservedIsApplied, Applied
<1> QED BY <1>1, Invariance, PTL

-----------------------------------------------------------------------------
(* Extension releases and the status that names them.                      *)

\* An extension release: it is there, and no spec's server.
Extension(r) == helm[r].status # "absent" /\ \A s \in Specs : s.server # r

\* The stages that find nothing stale any more.
Named == {"source", "server", "observe", "running", "service", "repo", "chart"}

\* At most the recorded name has an extension release; once stale ones are
\* removed, at most the name the copy's spec asks for.
Found ==
    ~cut =>
      /\ life = "new" => status.active = None
      /\ life = "gone" => \A r \in Releases : ~Extension(r)
      /\ life # "gone" /\ pc = "idle"
           => \A r \in Releases : Extension(r) => r = status.active
      /\ pc # "idle"
           => \A r \in Releases : Extension(r) =>
                r = mem.status.active /\ (pc \in Named => r = mem.spec.name)

\* Only the release r may be new.
OnlyNew(r) == \A q \in Releases \ {r} : helm'[q].status = helm[q].status

LEMMA WithoutIsAbsent ==
    ASSUME helm \in [Releases -> HelmReleases], NEW rs, helm' = Without(rs)
    PROVE  \A q \in Releases : IF q \in rs THEN helm'[q].status = "absent"
                               ELSE helm'[q].status = helm[q].status
BY DEF Without, Absent

LEMMA EnsureOnlyNew ==
    ASSUME helm \in [Releases -> HelmReleases], NEW r \in Releases, NEW k, NEW v,
           NEW stage, NEW m,
           \/ EnsureRelease(r, k, stage, m)
           \/ EnsureFails(r, k)
           \/ AwaitRelease(r, k)
    PROVE  OnlyNew(r)
BY DEF EnsureRelease, Ensured, EnsureFails, Unfinished, NewRevision, AwaitRelease,
       OnlyNew

\* A step in the middle of a pass.
LEMMA PassFound ==
    ASSUME IInv, pc # "idle", pc' # "idle", UNCHANGED <<resource, status, cut>>,
           ~cut => \A r \in Releases : Extension(r)' =>
                     r = mem'.status.active /\ (pc' \in Named => r = mem'.spec.name)
    PROVE  Found'
BY DEF IInv, Shaped, Found, resource

LEMMA RemoveStaleFound == ASSUME IInv, Found, RemoveStale PROVE Found'
<1> DEFINE names == {mem.status.active} \cup StaleServer(mem)
           m == IF Stale(mem) /\ StaleServer(mem) # {}
                THEN [mem EXCEPT !.status.server = None, !.status.revision = 0]
                ELSE mem
<1>1. /\ pc = "stale" /\ mem \in Copies /\ helm \in [Releases -> HelmReleases]
      /\ UNCHANGED <<resource, status, cut>>
  BY DEF RemoveStale, IInv, Shaped, TypeOK
<1>2. PICK left \in SUBSET (IF Stale(mem) THEN names ELSE {}) :
        /\ helm' = IF Stale(mem) THEN Without(names \ left) ELSE helm
        /\ \/ left = {} /\ GoTo("source", m) /\ UNCHANGED faults
           \/ left # {} /\ GoTo("end", [m EXCEPT !.failed = TRUE]) /\ Fault
  BY DEF RemoveStale
<1>3. m \in Copies /\ m.spec = mem.spec /\ m.status.active = mem.status.active
  <2>1. CASE Stale(mem) /\ StaleServer(mem) # {}
    BY <1>1, <2>1 DEF Copies, Statuses
  <2>2. CASE ~(Stale(mem) /\ StaleServer(mem) # {})
    BY <1>1, <2>2
  <2> QED BY <2>1, <2>2
<1> HIDE DEF m
<1>4. /\ mem'.spec = mem.spec /\ mem'.status.active = mem.status.active
      /\ pc' \in {"source", "end"} /\ (pc' = "source" => left = {})
  BY <1>2, <1>3 DEF GoTo, Copies
<1>5. ASSUME ~cut, NEW r \in Releases, Extension(r)'
      PROVE  r = mem'.status.active /\ (pc' \in Named => r = mem'.spec.name)
  <2>1. Extension(r)
    BY <1>1, <1>2, <1>5, WithoutIsAbsent DEF Extension
  <2>2. r = mem.status.active /\ r # None
    BY <1>1, <1>5, <2>1, SpecAssumption DEF Found
  <2>3. CASE pc' = "source"
    <3>1. ASSUME Stale(mem) PROVE FALSE
      <4>1. helm' = Without(names \ left) /\ r \in names \ left
        BY <1>2, <1>4, <2>2, <2>3, <3>1
      <4>2. helm'[r].status = "absent"
        BY <1>1, <4>1, WithoutIsAbsent
      <4> QED BY <1>5, <4>2 DEF Extension
    <3> QED BY <1>4, <2>2, <3>1 DEF Stale, Renamed
  <2> QED BY <1>4, <2>2, <2>3 DEF Named
<1> QED BY <1>1, <1>4, <1>5, PassFound

\* A stage that makes no extension release and records no other name.
LEMMA NothingNewFound ==
    ASSUME IInv, Found, pc \in Named \cup {"end"}, pc' \in Named \cup {"end", "persist"},
           pc = "end" => pc' = "persist", UNCHANGED <<resource, status, cut>>,
           \A r \in Releases : Extension(r)' => Extension(r),
           mem'.spec = mem.spec, mem'.status.active = mem.status.active
    PROVE  Found'
<1>1. pc # "idle" /\ pc' # "idle"
  BY DEF Named
<1>2. ASSUME ~cut, NEW r \in Releases, Extension(r)'
      PROVE  r = mem'.status.active /\ (pc' \in Named => r = mem'.spec.name)
  BY <1>1, <1>2 DEF Found, Named
<1> QED BY <1>1, <1>2, PassFound

\* Uninstalling, and writing anew what is a server's or is installed already.
LEMMA TakeSourceFound ==
    ASSUME IInv, Found, TakeGitSource \/ TakeHelmSource PROVE Found'
<1>1. /\ pc = "source" /\ pc' \in {"repo", "server"} /\ mem' = mem
      /\ UNCHANGED <<resource, status, cut>>
      /\ helm \in [Releases -> HelmReleases]
  BY DEF TakeGitSource, TakeHelmSource, GoTo, bounds, IInv, Shaped, TypeOK
<1>2. helm' = helm \/ \E rs : helm' = Without(rs)
  BY DEF TakeGitSource, TakeHelmSource
<1>3. \A r \in Releases : Extension(r)' => Extension(r)
  BY <1>1, <1>2, WithoutIsAbsent DEF Extension
<1> QED BY <1>1, <1>3, NothingNewFound DEF Named

LEMMA EnsureServerFound == ASSUME IInv, Found, EnsureServer PROVE Found'
<1> DEFINE s == mem.spec
           x == mem.spec.server
           m == [mem EXCEPT !.status.server = x]
<1>1. /\ pc = "server" /\ Midway(s) /\ mem.status.phase = "Installing"
      /\ x \in Releases /\ s \in Specs /\ helm \in [Releases -> HelmReleases]
      /\ UNCHANGED <<resource, status, cut>>
  BY PassIsMidway, SpecTypes DEF EnsureServer, IInv, Progress, Shaped, TypeOK, Midway
<1>2. /\ m \in Copies /\ m.spec = mem.spec /\ m.gen = mem.gen
      /\ m.status.active = mem.status.active
  BY <1>1 DEF Midway, Copies, Statuses
<1> HIDE DEF m
<1>3. \/ EnsureRelease(x, "release", "observe", m)
      \/ EnsureFails(x, "release")
      \/ AwaitRelease(x, "release")
  BY DEF EnsureServer, m
<1>4. OnlyNew(x)
  BY <1>1, <1>3, EnsureOnlyNew
<1>5. \A r \in Releases : Extension(r)' => Extension(r)
  BY <1>1, <1>4 DEF Extension, OnlyNew
<1>6. /\ pc' \in {"observe", "end"} /\ mem'.spec = mem.spec
      /\ mem'.status.active = mem.status.active
  <2>1. CASE EnsureRelease(x, "release", "observe", m)
    BY <1>1, <1>2, <2>1, EnsureStep DEF Markers, Same
  <2>2. CASE EnsureFails(x, "release")
    BY <1>1, <2>2, FailStep DEF Markers, Reported
  <2>3. CASE AwaitRelease(x, "release")
    BY <1>1, <2>3, AwaitStep DEF Markers, Reported
  <2> QED BY <1>3, <2>1, <2>2, <2>3
<1> QED BY <1>1, <1>5, <1>6, NothingNewFound DEF Named

LEMMA EnsureChartFound == ASSUME IInv, Found, EnsureChart PROVE Found'
<1> DEFINE s == mem.spec
           n == mem.spec.name
           k == ChartMarker(mem)
           m == IF s.kind = "Helm" THEN Installed(mem) ELSE mem
           stage == IF s.kind = "Helm" THEN "end" ELSE "observe"
<1>1. /\ pc = "chart" /\ Midway(s) /\ mem.status.phase = "Installing"
      /\ mem.status.active = n /\ n \in Releases /\ k \in Markers
      /\ s.kind \in Kinds /\ helm \in [Releases -> HelmReleases]
      /\ UNCHANGED <<resource, status, cut>>
  BY PassIsMidway, SpecTypes
  DEF EnsureChart, IInv, Progress, Shaped, TypeOK, Midway, Markers, ChartMarker
<1>2. /\ m \in Copies /\ m.spec = mem.spec /\ m.gen = mem.gen
      /\ m.status.active = mem.status.active
  BY <1>1, InstalledCopy DEF Midway, Reported
<1>3. \/ EnsureRelease(n, k, stage, m)
      \/ EnsureFails(n, k)
      \/ AwaitRelease(n, k)
  BY <1>1 DEF EnsureChart, Kinds
<1> HIDE DEF m
<1>4. OnlyNew(n)
  BY <1>1, <1>3, EnsureOnlyNew
<1>5. /\ pc' \in {"observe", "end"} /\ mem'.spec = mem.spec
      /\ mem'.status.active = mem.status.active
  <2>1. CASE EnsureRelease(n, k, stage, m)
    BY <1>1, <1>2, <2>1, EnsureStep DEF Same
  <2>2. CASE EnsureFails(n, k)
    BY <1>1, <2>2, FailStep DEF Reported
  <2>3. CASE AwaitRelease(n, k)
    BY <1>1, <2>3, AwaitStep DEF Reported
  <2> QED BY <1>3, <2>1, <2>2, <2>3
<1>6. ASSUME ~cut, NEW r \in Releases, Extension(r)'
      PROVE  r = mem'.status.active /\ (pc' \in Named => r = mem'.spec.name)
  <2>1. CASE r = n
    BY <1>1, <1>5, <2>1
  <2>2. CASE r # n
    <3>1. Extension(r)
      BY <1>4, <1>6, <2>2 DEF Extension, OnlyNew
    <3> QED BY <1>1, <1>5, <1>6, <3>1 DEF Found, Named
  <2> QED BY <2>1, <2>2
<1>7. pc # "idle" /\ pc' # "idle"
  BY <1>1, <1>5
<1> QED BY <1>1, <1>6, <1>7, PassFound

LEMMA EnsureRepoFound == ASSUME IInv, Found, EnsureRepo PROVE Found'
<1>1. /\ pc = "repo" /\ pc' = "chart" /\ mem \in Copies
      /\ UNCHANGED <<resource, status, helm, cut>>
      /\ mem' = [mem EXCEPT !.status.active = mem.spec.name,
                            !.status.source = mem.spec.kind]
  BY DEF EnsureRepo, GoTo, bounds, IInv, Shaped
<1>2. mem'.spec = mem.spec /\ mem'.status.active = mem.spec.name
  BY <1>1 DEF Copies, Statuses
<1>3. ASSUME ~cut, NEW r \in Releases, Extension(r)'
      PROVE  r = mem'.status.active /\ (pc' \in Named => r = mem'.spec.name)
  BY <1>1, <1>2, <1>3 DEF Found, Extension, Named
<1> QED BY <1>1, <1>3, PassFound

\* The stages that look at releases, fail or end the pass.
LEMMA LookingFound ==
    ASSUME IInv, Found,
           ObserveRevision \/ AwaitRunning \/ AwaitService \/ StageFails \/ EndPass
    PROVE  Found'
<1> DEFINE s == mem.spec
<1>1. /\ pc \in Named \cup {"end"} /\ Midway(s)
      /\ pc # "end" => mem.status.phase = "Installing"
      /\ UNCHANGED <<resource, status, helm, cut>>
      /\ clocks \in Clocks /\ s \in Specs /\ helm \in [Releases -> HelmReleases]
  BY PassIsMidway
  DEF ObserveRevision, AwaitRunning, AwaitService, StageFails, EndPass, bounds,
      Named, IInv, Progress, Midway, Shaped, TypeOK
<1>2. \A r \in Releases : Extension(r)' => Extension(r)
  BY <1>1 DEF Extension
<1>3. /\ pc' \in Named \cup {"end", "persist"} /\ (pc = "end" => pc' = "persist")
      /\ mem'.spec = s /\ mem'.status.active = mem.status.active
  <2>1. CASE ObserveRevision
    <3> DEFINE at == helm[Target(mem)].revision
               m == [mem EXCEPT !.status.revision = at]
               new == IF mem.status.revision \in {0, at} THEN mem.clocks
                      ELSE Cleared({"deployment", "service"})
    <3>1. pc = "observe" /\ Stamp(new, "running", m)
      BY <2>1 DEF ObserveRevision
    <3>2. at \in Nat
      BY <1>1, SpecTypes DEF Target, HelmReleases, Kinds
    <3>3. new \in Clocks
      BY <1>1, ClearedTypes DEF Copies, Midway
    <3>4. m \in Copies /\ m.spec = s /\ m.status.active = mem.status.active
      BY <1>1, <3>2 DEF Copies, Statuses, Midway
    <3> HIDE DEF m, new
    <3> QED BY <1>1, <3>1, <3>3, <3>4, StampEffect DEF Same, Named, Midway
  <2>2. CASE AwaitRunning
    <3>1. /\ Cleared({"deployment"}) \in Clocks /\ mem \in Copies
          /\ Installed(mem) \in Copies /\ Installed(mem).spec = s
          /\ Reported(Installed(mem).status, mem.status) /\ pc = "running"
      BY <1>1, <2>2, ClearedTypes, InstalledCopy DEF Midway, AwaitRunning
    <3>2. CASE Stamp(Cleared({"deployment"}), "service", mem)
      BY <1>1, <3>1, <3>2, StampEffect DEF Same, Named
    <3>3. CASE Stamp(Cleared({"deployment"}), "end", Installed(mem))
      BY <1>1, <3>1, <3>3, StampEffect DEF Same, Named, Reported
    <3>4. CASE AwaitReadiness("deployment")
      BY <1>1, <3>1, <3>4, ReadinessStep DEF Reported
    <3> QED BY <2>2, <3>2, <3>3, <3>4 DEF AwaitRunning
  <2>3. CASE AwaitService
    <3>1. Cleared({"service"}) \in Clocks /\ mem \in Copies /\ pc = "service"
      BY <1>1, <2>3, ClearedTypes DEF Midway, AwaitService
    <3>2. CASE Stamp(Cleared({"service"}), "repo", mem)
      BY <1>1, <3>1, <3>2, StampEffect DEF Same, Named
    <3>3. CASE AwaitReadiness("service")
      BY <1>1, <3>1, <3>3, ReadinessStep DEF Reported
    <3> QED BY <2>3, <3>2, <3>3 DEF AwaitService
  <2>4. CASE StageFails
    BY <1>1, <2>4, FailedCopy DEF StageFails, GoTo, Copies, Reported, Midway, Reasons
  <2>5. CASE EndPass
    BY <1>1, <2>5 DEF EndPass, Copies, Statuses, Midway
  <2> QED BY <2>1, <2>2, <2>3, <2>4, <2>5
<1> QED BY <1>1, <1>2, <1>3, NothingNewFound

\* A pass takes the recorded name over, and records it again.
LEMMA AroundFound ==
    ASSUME IInv, Found, BeginPass \/ RefuseCollision \/ PersistStatus
    PROVE  Found'
<1>1. CASE BeginPass \/ RefuseCollision
  <2>1. /\ pc = "idle" /\ life = "live" /\ pc' \in {"stale", "end"}
        /\ UNCHANGED <<resource, helm, cut>> /\ status \in Statuses
    BY <1>1 DEF BeginPass, RefuseCollision, GoTo, IInv, Shaped, TypeOK
  <2>2. Copy \in Copies /\ Copy.status.active = status.active
    BY SpecAssumption DEF Copy, Copies, Statuses, Phases, IInv, Shaped, TypeOK
  <2>3. mem'.status.active = status.active
    BY <1>1, <2>2, FailedCopy DEF BeginPass, RefuseCollision, GoTo, Reported, Reasons
  <2> QED BY <2>1, <2>3 DEF Found, Extension, resource, Named
<1>2. CASE PersistStatus
  <2>1. /\ pc = "persist" /\ pc' = "idle" /\ status' = mem.status
        /\ UNCHANGED <<resource, helm, cut>>
    BY <1>2 DEF PersistStatus, GoTo
  <2> QED BY <2>1 DEF Found, Extension, resource, IInv, Shaped
<1> QED BY <1>1, <1>2

LEMMA FinalizerFound == ASSUME IInv, Found, AddFinalizer \/ Finalize PROVE Found'
<1>1. CASE AddFinalizer
  BY <1>1 DEF AddFinalizer, Found, Extension
<1>2. CASE Finalize
  <2> DEFINE names == {status.active, status.server} \ {None}
  <2>1. /\ pc = "idle" /\ life = "deleting" /\ UNCHANGED <<pc, mem, status, spec, cut>>
        /\ helm \in [Releases -> HelmReleases]
    BY <1>2 DEF Finalize, IInv, Shaped, TypeOK
  <2>2. PICK left \in SUBSET names :
          /\ helm' = Without(names \ left)
          /\ \/ left = {} /\ life' = "gone"
             \/ left # {} /\ life' = life
    BY <1>2 DEF Finalize
  <2>3. ASSUME ~cut, NEW r \in Releases, Extension(r)'
        PROVE  r = status.active /\ life' # "gone"
    <3>1. Extension(r) /\ r \notin names \ left
      BY <2>1, <2>2, <2>3, WithoutIsAbsent DEF Extension
    <3>2. r = status.active /\ r # None
      BY <2>1, <2>3, <3>1, SpecAssumption DEF Found
    <3> QED BY <2>1, <2>2, <3>1, <3>2
  <2> QED BY <2>1, <2>2, <2>3 DEF Found
<1> QED BY <1>1, <1>2

LEMMA OutsideFound ==
    ASSUME IInv, Found, OutsideStep, ~StageFails PROVE Found'
<1>1. CASE Interrupted
  BY <1>1 DEF Interrupted, Found
<1>2. CASE Delete
  <2>1. \A r \in Releases : life = "new" => ~(~cut /\ Extension(r))
    BY SpecAssumption DEF Found, IInv, Shaped
  <2> QED BY <1>2, <2>1 DEF Delete, Found, Extension, IInv, Shaped
<1>3. CASE TimePasses
  <2>1. /\ UNCHANGED <<pc, life, status, helm, cut>>
        /\ pc # "idle" => mem'.spec = mem.spec /\ mem'.status = mem.status
    <3>1. pc # "idle" => mem \in Copies /\ mem # None
      BY DEF IInv, Shaped
    <3> QED BY <1>3, <3>1 DEF TimePasses, resource, Copies
  <2> QED BY <2>1 DEF Found, Extension
<1>4. ASSUME NEW s \in Specs, EditSpec(s) PROVE Found'
  BY <1>4 DEF EditSpec, Found, Extension
<1>5. ASSUME NEW r \in Releases,
             ForeignOperation(r) \/ OperationEnds(r) \/ Rollout(r) \/ Degrade(r)
      PROVE  Found'
  <2>1. \A q \in Releases : Extension(q)' => Extension(q)
    <3>1. helm \in [Releases -> HelmReleases]
      BY DEF IInv, Shaped, TypeOK
    <3>2. \A q \in Releases : helm'[q].status = "absent" <=> helm[q].status = "absent"
      <4>1. CASE ForeignOperation(r)
        BY <3>1, <4>1 DEF ForeignOperation, Unfinished, NewRevision
      <4>2. CASE OperationEnds(r)
        BY <3>1, <4>2 DEF OperationEnds, Pending, HelmReleases
      <4>3. CASE Rollout(r) \/ Degrade(r)
        BY <3>1, <4>3 DEF Rollout, Degrade, HelmReleases
      <4> QED BY <1>5, <4>1, <4>2, <4>3
    <3> QED BY <3>2 DEF Extension
  <2>2. UNCHANGED <<pc, mem, life, status, cut>>
    BY <1>5 DEF ForeignOperation, OperationEnds, Rollout, Degrade, resource
  <2> QED BY <2>1, <2>2 DEF Found
<1> QED BY <1>1, <1>2, <1>3, <1>4, <1>5 DEF OutsideStep

LEMMA FoundStep == IInv /\ Found /\ [Next]_vars => Found'
<1> SUFFICES ASSUME IInv, Found, [Next]_vars PROVE Found'
  OBVIOUS
<1>1. CASE UNCHANGED vars
  BY <1>1 DEF vars, Found, Extension, resource
<1>2. CASE Next
  BY <1>2, RemoveStaleFound, TakeSourceFound, EnsureServerFound, EnsureChartFound,
     EnsureRepoFound, LookingFound, AroundFound, FinalizerFound, OutsideFound
  DEF Next, PassStep
<1> QED BY <1>1, <1>2

\* With the resource every extension release it had goes, also when it was
\* renamed, switched its source or had a pending release, unless a pass was
\* cut off (handleDeletion; ActiveExtensionName, recorded before the attempt).
THEOREM DeletionFindsCharts == Spec => []ChartsAreFound
<1>1. Init => Found
  BY DEF Init, Found, Extension, Absent
<1>2. IInv /\ Found => ChartsAreFound
  BY DEF IInv, Shaped, Found, Extension, ChartsAreFound
<1> QED BY <1>1, <1>2, FoundStep, Invariance, PTL DEF Spec

-----------------------------------------------------------------------------
(* Readiness clocks and the rollouts they were started for.                *)

Readiness == {"deployment", "service"}

\* What has a deployed version has a revision.
Numbered == \A r \in Releases : helm[r].version # None => helm[r].revision # 0

\* The release a spec's readiness is awaited of, and specs that agree on it.
Awaited(s)  == IF s.kind = "Helm" THEN s.server ELSE s.name
Alike(a, b) == a.kind = b.kind /\ a.name = b.name /\ a.server = b.server

\* A status that names nothing but what the spec asks for.
Names(t, s) == t.active \in {None, s.name} /\ t.source \in {"none", s.kind}

\* A readiness clock runs for the revision the status has.
Stamped(s, t) ==
    \A k \in Readiness : clocks[k] # "none" =>
        t.revision # 0 /\ origin[k] = <<Awaited(s), t.revision>>

\* The copy has the stored clocks, unless it was refused a write of them.
TimedPass ==
    /\ Alike(mem.spec, spec) /\ Names(mem.status, spec)
    /\ Stamped(mem.spec, mem.status)
    /\ pc \notin {"end", "persist"} \/ (pc = "end" /\ Fresh) => mem.clocks = clocks
    /\ pc \in {"running", "service"} => mem.status.revision # 0

Timed ==
    ~moved /\ ~cut =>
      /\ Names(status, spec)
      /\ pc = "idle" => Stamped(spec, status)
      /\ pc # "idle" => TimedPass

LEMMA WrittenIsNumbered ==
    ASSUME helm \in [Releases -> HelmReleases], Numbered,
           NEW r \in Releases, NEW result, NEW v, NEW run,
           helm' = NewRevision(r, result, v, run)
    PROVE  Numbered'
<1>1. \A q \in Releases : helm[q].revision \in Nat
  BY DEF HelmReleases
<1>2. \A q \in Releases :
        helm'[q] = IF q = r THEN [status |-> result, version |-> v,
                                  revision |-> helm[r].revision + 1, run |-> run]
                   ELSE helm[q]
  BY DEF NewRevision
<1>3. helm'[r].revision # 0
  BY <1>1, <1>2
<1> QED BY <1>2, <1>3 DEF Numbered

\* Nothing that happens to a release but an uninstallation takes its number.
LEMMA NumberedStep == IInv /\ Numbered /\ [Next]_vars => Numbered'
<1> SUFFICES ASSUME IInv, Numbered, [Next]_vars PROVE Numbered'
  OBVIOUS
<1>h. helm \in [Releases -> HelmReleases]
  BY DEF IInv, Shaped, TypeOK
<1>1. ASSUME helm' = helm PROVE Numbered'
  BY <1>1 DEF Numbered
<1>2. ASSUME NEW rs, helm' = Without(rs) PROVE Numbered'
  BY <1>h, <1>2, WithoutReleases DEF Numbered, Without, Absent
<1>3. ASSUME NEW r \in Releases, NEW result, helm' = Unfinished(r, result)
      PROVE  Numbered'
  BY <1>h, <1>3, WrittenIsNumbered DEF Unfinished
<1>4. ASSUME NEW r \in Releases, NEW k, NEW stage, NEW m,
             \/ EnsureRelease(r, k, stage, m)
             \/ EnsureFails(r, k)
             \/ AwaitRelease(r, k)
      PROVE  Numbered'
  <2>1. CASE EnsureRelease(r, k, stage, m)
    BY <1>h, <1>1, <2>1, WrittenIsNumbered DEF EnsureRelease, Ensured
  <2>2. CASE EnsureFails(r, k)
    BY <1>1, <1>3, <2>2 DEF EnsureFails
  <2>3. CASE AwaitRelease(r, k)
    BY <1>1, <2>3 DEF AwaitRelease
  <2> QED BY <1>4, <2>1, <2>2, <2>3
<1>5. CASE EnsureServer
  <2>1. mem.spec.server \in Releases
    BY <1>5, SpecTypes DEF EnsureServer, IInv, Shaped
  <2> QED BY <1>4, <1>5, <2>1 DEF EnsureServer
<1>6. CASE EnsureChart
  <2>1. mem.spec.name \in Releases
    BY <1>6, SpecTypes DEF EnsureChart, IInv, Shaped
  <2> QED BY <1>4, <1>6, <2>1 DEF EnsureChart
<1>7. CASE RemoveStale \/ TakeHelmSource \/ Finalize
  BY <1>1, <1>2, <1>7 DEF RemoveStale, TakeHelmSource, Finalize
<1>8. CASE Interrupted
  BY <1>1, <1>3, <1>8 DEF Interrupted
<1>9. ASSUME NEW r \in Releases,
             ForeignOperation(r) \/ OperationEnds(r) \/ Rollout(r) \/ Degrade(r)
      PROVE  Numbered'
  <2>1. CASE ForeignOperation(r)
    BY <1>3, <2>1 DEF ForeignOperation
  <2>2. CASE OperationEnds(r)
    BY <1>h, <2>2 DEF OperationEnds, HelmReleases, Numbered
  <2>3. CASE Rollout(r) \/ Degrade(r)
    BY <1>h, <2>3 DEF Rollout, Degrade, HelmReleases, Numbered
  <2> QED BY <1>9, <2>1, <2>2, <2>3
<1>10. CASE PassStep /\ ~EnsureServer /\ ~EnsureChart /\ ~RemoveStale
              /\ ~TakeHelmSource /\ ~Finalize
  <2>1. helm' = helm
    BY <1>10
    DEF PassStep, AddFinalizer, BeginPass, RefuseCollision, TakeGitSource,
        ObserveRevision, AwaitRunning, AwaitService, EnsureRepo, EndPass,
        PersistStatus
  <2> QED BY <1>1, <2>1
<1>11. CASE StageFails \/ Delete \/ TimePasses \/ (\E t \in Specs : EditSpec(t))
              \/ UNCHANGED vars
  BY <1>1, <1>11 DEF StageFails, Delete, TimePasses, EditSpec, vars
<1> QED
  BY <1>5, <1>6, <1>7, <1>8, <1>9, <1>10, <1>11 DEF Next, PassStep, OutsideStep

\* Readiness clocks a step leaves or stops.
ClocksKept == \A k \in Readiness : clocks'[k] \in {clocks[k], "none"}

\* The clocks of the copy are the stored ones, or the pass ends refused.
InStep == mem'.clocks = clocks' \/ (pc' = "end" /\ ~Fresh)

LEMMA StampClocks ==
    ASSUME mem \in Copies, clocks \in Clocks, mem.clocks = clocks,
           NEW new \in Clocks, NEW stage, NEW m \in Copies, m.clocks = mem.clocks,
           Stamp(new, stage, m)
    PROVE  /\ InStep
           /\ \/ pc' = stage /\ clocks' = new /\ Same(mem', m)
              \/ pc' = "end" /\ ~Fresh /\ clocks' = clocks /\ Same(mem', mem)
<1>1. CASE new = mem.clocks
  BY <1>1 DEF Stamp, GoTo, Same, InStep
<1>2. CASE new # mem.clocks /\ Fresh
  BY <1>2 DEF Stamp, GoTo, Same, Copies, InStep
<1>3. CASE new # mem.clocks /\ ~Fresh
  BY <1>3 DEF Stamp, GoTo, Same, Copies, InStep
<1> QED BY <1>1, <1>2, <1>3

LEMMA ClearedKeeps ==
    ASSUME mem \in Copies, mem.clocks = clocks, NEW markers
    PROVE  /\ \A k \in Readiness : Cleared(markers)[k] \in {clocks[k], "none"}
           /\ \A k \in Readiness \cap markers : Cleared(markers)[k] = "none"
BY DEF Cleared, Readiness, Markers

\* A wait for a release has a marker of its own.
LEMMA EnsureClocks ==
    ASSUME mem \in Copies, clocks \in Clocks, mem.clocks = clocks,
           NEW r, NEW k \in {"release", "chart"}, NEW stage,
           NEW m \in Copies, m.clocks = mem.clocks,
           \/ EnsureRelease(r, k, stage, m)
           \/ EnsureFails(r, k)
           \/ AwaitRelease(r, k)
    PROVE  ClocksKept /\ InStep
<1>1. Cleared({k}) \in Clocks
  BY ClearedTypes
<1>2. \A j \in Readiness : Cleared({k})[j] \in {clocks[j], "none"}
  BY ClearedKeeps
<1>3. CASE EnsureRelease(r, k, stage, m)
  <2>1. Stamp(Cleared({k}), stage, m)
    BY <1>3 DEF EnsureRelease
  <2> QED BY <1>1, <1>2, <2>1, StampClocks DEF ClocksKept
<1>4. CASE EnsureFails(r, k)
  <2> DEFINE f == Failed(mem, "Failed")
  <2>1. Erase({k}, f) /\ f \in Copies
    BY <1>4, FailedCopy DEF EnsureFails, Reasons
  <2> HIDE DEF f
  <2>2. mem'.clocks = Cleared({k}) /\ pc' = "end"
    BY <1>1, <2>1 DEF Erase, GoTo, Copies
  <2> QED BY <1>2, <2>1, <2>2 DEF Erase, ClocksKept, InStep
<1>5. CASE AwaitRelease(r, k)
  <2> DEFINE n == [mem EXCEPT !.status.ready = "ReleasePending"]
             f == Failed(mem, "ReleasePendingTimedOut")
             new == [mem.clocks EXCEPT ![k] = "young"]
  <2>1. CASE UNCHANGED clocks /\ GoTo("end", f)
    BY <2>1, FailedCopy DEF GoTo, Reasons, ClocksKept, InStep
  <2>2. CASE Stamp(new, "end", n)
    <3>1. n \in Copies /\ n.clocks = mem.clocks
      BY DEF Copies, Statuses, Reasons
    <3>2. new \in Clocks
      BY StartedTypes DEF Markers
    <3>3. \A j \in Readiness : new[j] = clocks[j]
      BY DEF Readiness, Markers, Clocks
    <3> HIDE DEF n, new
    <3> QED BY <2>2, <3>1, <3>2, <3>3, StampClocks DEF ClocksKept
  <2> QED BY <1>5, <2>1, <2>2 DEF AwaitRelease
<1> QED BY <1>3, <1>4, <1>5

\* A step in the middle of a pass that has not ended.
LEMMA PassTimed ==
    ASSUME IInv, ~moved /\ ~cut => TimedPass',
           pc # "idle", pc' # "idle", UNCHANGED <<resource, status, cut>>, Timed
    PROVE  Timed'
BY DEF Timed, Names, resource

LEMMA StageTimed ==
    ASSUME IInv, Timed, pc \notin {"idle", "end", "persist"},
           pc' \notin {"idle", "persist"}, UNCHANGED <<resource, status, cut>>,
           ~moved /\ ~cut =>
             /\ mem'.spec = mem.spec /\ mem'.gen = mem.gen
             /\ Names(mem'.status, spec) /\ Stamped(mem.spec, mem.status)'
             /\ InStep
             /\ pc' \in {"running", "service"} => mem'.status.revision # 0
    PROVE  Timed'
<1> SUFFICES ASSUME ~moved, ~cut PROVE TimedPass'
  BY PassTimed
<1>1. TimedPass
  BY DEF Timed
<1>2. Fresh' <=> Fresh
  BY DEF Fresh, resource
<1>3. Alike(mem'.spec, spec') /\ Names(mem'.status, spec')
  BY <1>1 DEF TimedPass, resource
<1> QED BY <1>1, <1>2, <1>3 DEF TimedPass, InStep

\* A stage that starts no readiness clock and observes no revision.
LEMMA QuietTimed ==
    ASSUME IInv, Timed, pc \notin {"idle", "end", "persist"},
           pc' \notin {"idle", "persist"}, UNCHANGED <<resource, status, cut, origin>>,
           ~moved /\ ~cut =>
             /\ mem'.spec = mem.spec /\ mem'.gen = mem.gen
             /\ Names(mem'.status, spec)
             /\ mem'.status.revision = mem.status.revision
             /\ ClocksKept /\ InStep
             /\ pc' \in {"running", "service"} => pc \in {"running", "service"}
    PROVE  Timed'
<1>1. ~moved /\ ~cut => TimedPass
  BY DEF Timed
<1>2. ~moved /\ ~cut => Stamped(mem.spec, mem.status)'
  BY <1>1 DEF TimedPass, Stamped, ClocksKept, Awaited
<1>3. ~moved /\ ~cut /\ pc' \in {"running", "service"} => mem'.status.revision # 0
  BY <1>1 DEF TimedPass
<1> QED BY <1>2, <1>3, StageTimed

\* As long as the resource keeps its name and source nothing of it is stale.
LEMMA RemoveStaleTimed == ASSUME IInv, Timed, RemoveStale PROVE Timed'
<1>1. /\ pc = "stale" /\ pc' \in {"source", "end"} /\ mem \in Copies
      /\ UNCHANGED <<resource, status, clocks, origin, cut>>
  BY DEF RemoveStale, GoTo, IInv, Shaped
<1>2. ASSUME ~moved, ~cut PROVE mem' = mem /\ mem.clocks = clocks /\ TimedPass
  <2>1. TimedPass
    BY <1>1, <1>2 DEF Timed
  <2>2. ~Stale(mem)
    BY <2>1, SpecTypes DEF TimedPass, Alike, Names, Stale, Renamed, Moved
  <2> QED BY <1>1, <2>1, <2>2 DEF RemoveStale, GoTo, TimedPass
<1> QED BY <1>1, <1>2, QuietTimed DEF ClocksKept, InStep, TimedPass

LEMMA QuietStagesTimed ==
    ASSUME IInv, Timed, TakeGitSource \/ TakeHelmSource \/ EnsureRepo PROVE Timed'
<1>1. /\ pc \in {"source", "repo"} /\ pc' \in {"repo", "server", "chart"}
      /\ mem \in Copies /\ mem.spec \in Specs
      /\ UNCHANGED <<resource, status, clocks, origin, cut>>
  BY DEF TakeGitSource, TakeHelmSource, EnsureRepo, GoTo, bounds, IInv, Shaped
<1>2. ~moved /\ ~cut => TimedPass /\ mem.clocks = clocks
  BY <1>1 DEF Timed, TimedPass
<1>3. CASE TakeGitSource \/ TakeHelmSource
  <2>1. mem' = mem
    BY <1>3 DEF TakeGitSource, TakeHelmSource, GoTo
  <2> QED BY <1>1, <1>2, <2>1, QuietTimed DEF ClocksKept, InStep, TimedPass
<1>4. CASE EnsureRepo
  <2>1. mem' = [mem EXCEPT !.status.active = mem.spec.name,
                           !.status.source = mem.spec.kind]
    BY <1>4 DEF EnsureRepo, GoTo
  <2>2. /\ mem'.spec = mem.spec /\ mem'.gen = mem.gen /\ mem'.clocks = mem.clocks
        /\ mem'.status.active = mem.spec.name /\ mem'.status.source = mem.spec.kind
        /\ mem'.status.revision = mem.status.revision
    BY <1>1, <2>1 DEF Copies, Statuses
  <2>3. ~moved /\ ~cut => Names(mem'.status, spec)
    BY <1>2, <2>2 DEF TimedPass, Alike, Names
  <2> QED BY <1>1, <1>2, <2>2, <2>3, QuietTimed DEF ClocksKept, InStep
<1> QED BY <1>3, <1>4

LEMMA EnsureServerTimed == ASSUME IInv, Timed, EnsureServer PROVE Timed'
<1> DEFINE s == mem.spec
           x == mem.spec.server
           m == [mem EXCEPT !.status.server = x]
<1>1. /\ pc = "server" /\ Midway(s) /\ mem.status.phase = "Installing"
      /\ mem \in Copies /\ clocks \in Clocks /\ x \in Releases
      /\ UNCHANGED <<resource, status, origin, cut>>
  BY PassIsMidway, SpecTypes DEF EnsureServer, IInv, Progress, Shaped, TypeOK, Midway
<1>2. /\ m \in Copies /\ m.spec = mem.spec /\ m.gen = mem.gen
      /\ m.clocks = mem.clocks
      /\ m.status.active = mem.status.active /\ m.status.source = mem.status.source
      /\ m.status.revision = mem.status.revision
  BY <1>1 DEF Midway, Copies, Statuses
<1> HIDE DEF m
<1>3. \/ EnsureRelease(x, "release", "observe", m)
      \/ EnsureFails(x, "release")
      \/ AwaitRelease(x, "release")
  BY DEF EnsureServer, m
<1>4. ~moved /\ ~cut => TimedPass /\ mem.clocks = clocks
  BY <1>1 DEF Timed, TimedPass
<1>5. ~moved /\ ~cut => ClocksKept /\ InStep
  BY <1>1, <1>2, <1>3, <1>4, EnsureClocks
<1>6. /\ pc' \in {"observe", "end"} /\ mem'.spec = mem.spec /\ mem'.gen = mem.gen
      /\ mem'.status.active = mem.status.active
      /\ mem'.status.source = mem.status.source
      /\ mem'.status.revision = mem.status.revision
  <2>1. CASE EnsureRelease(x, "release", "observe", m)
    BY <1>1, <1>2, <2>1, EnsureStep DEF Markers, Same
  <2>2. CASE EnsureFails(x, "release")
    BY <1>1, <2>2, FailStep DEF Markers, Reported
  <2>3. CASE AwaitRelease(x, "release")
    BY <1>1, <2>3, AwaitStep DEF Markers, Reported
  <2> QED BY <1>3, <2>1, <2>2, <2>3
<1>7. ~moved /\ ~cut => Names(mem'.status, spec)
  BY <1>4, <1>6 DEF TimedPass, Names
<1> QED BY <1>1, <1>5, <1>6, <1>7, QuietTimed

LEMMA EnsureChartTimed == ASSUME IInv, Timed, EnsureChart PROVE Timed'
<1> DEFINE s == mem.spec
           n == mem.spec.name
           k == ChartMarker(mem)
           m == IF s.kind = "Helm" THEN Installed(mem) ELSE mem
           stage == IF s.kind = "Helm" THEN "end" ELSE "observe"
<1>1. /\ pc = "chart" /\ Midway(s) /\ mem.status.phase = "Installing"
      /\ mem \in Copies /\ clocks \in Clocks
      /\ n \in Releases /\ k \in {"release", "chart"} /\ s.kind \in Kinds
      /\ UNCHANGED <<resource, status, origin, cut>>
  BY PassIsMidway, SpecTypes
  DEF EnsureChart, IInv, Progress, Shaped, TypeOK, Midway, ChartMarker
<1>2. /\ m \in Copies /\ m.spec = mem.spec /\ m.gen = mem.gen
      /\ m.clocks = mem.clocks /\ Reported(m.status, mem.status)
  BY <1>1, InstalledCopy DEF Reported
<1>3. \/ EnsureRelease(n, k, stage, m)
      \/ EnsureFails(n, k)
      \/ AwaitRelease(n, k)
  BY <1>1 DEF EnsureChart, Kinds
<1> HIDE DEF m
<1>4. ~moved /\ ~cut => TimedPass /\ mem.clocks = clocks
  BY <1>1 DEF Timed, TimedPass
<1> HIDE DEF k
<1>5. ~moved /\ ~cut => ClocksKept /\ InStep
  BY <1>1, <1>2, <1>3, <1>4, EnsureClocks
<1>6. /\ pc' \in {"observe", "end"} /\ mem'.spec = mem.spec /\ mem'.gen = mem.gen
      /\ Reported(mem'.status, mem.status)
  <2>0. k \in Markers
    BY <1>1 DEF Markers
  <2>1. CASE EnsureRelease(n, k, stage, m)
    BY <1>1, <1>2, <2>0, <2>1, EnsureStep DEF Same, Reported
  <2>2. CASE EnsureFails(n, k)
    BY <1>1, <2>0, <2>2, FailStep
  <2>3. CASE AwaitRelease(n, k)
    BY <1>1, <2>0, <2>3, AwaitStep
  <2> QED BY <1>3, <2>1, <2>2, <2>3
<1>7. ~moved /\ ~cut => Names(mem'.status, spec)
  BY <1>4, <1>6 DEF TimedPass, Names, Reported
<1> QED BY <1>1, <1>5, <1>6, <1>7, QuietTimed DEF Reported

\* A new revision stops the clocks of the one before.
LEMMA ObserveRevisionTimed ==
    ASSUME IInv, Timed, Numbered, ObserveRevision PROVE Timed'
<1> DEFINE s == mem.spec
           at == helm[Target(mem)].revision
           m == [mem EXCEPT !.status.revision = at]
           new == IF mem.status.revision \in {0, at} THEN mem.clocks
                  ELSE Cleared({"deployment", "service"})
<1>1. /\ pc = "observe" /\ s \in Specs /\ mem \in Copies /\ clocks \in Clocks
      /\ helm \in [Releases -> HelmReleases] /\ Stamp(new, "running", m)
      /\ UNCHANGED <<resource, status, origin, cut>>
  BY DEF ObserveRevision, IInv, Shaped, TypeOK
<1>2. at \in Nat /\ at # 0
  <2>1. Target(mem) \in Releases /\ helm[Target(mem)].version = s.version
    BY <1>1, SpecTypes DEF Target, Kinds, IInv, Progress, Applied
  <2>2. s.version # None
    BY <1>1, SpecTypes, SpecAssumption
  <2> QED BY <1>1, <2>1, <2>2 DEF Numbered, HelmReleases
<1>3. new \in Clocks
  BY <1>1, ClearedTypes DEF Copies
<1>4. /\ m \in Copies /\ m.spec = s /\ m.gen = mem.gen /\ m.clocks = mem.clocks
      /\ m.status.active = mem.status.active /\ m.status.source = mem.status.source
      /\ m.status.revision = at
  BY <1>1, <1>2 DEF Copies, Statuses
<1>5. ASSUME ~moved, ~cut
      PROVE  /\ mem'.spec = mem.spec /\ mem'.gen = mem.gen
             /\ Names(mem'.status, spec) /\ Stamped(mem.spec, mem.status)'
             /\ InStep /\ pc' \in {"running", "end"}
             /\ pc' = "running" => mem'.status.revision # 0
  <2>1. TimedPass /\ mem.clocks = clocks
    BY <1>1, <1>5 DEF Timed, TimedPass
  <2>2. mem.status.revision # at =>
          \A k \in Readiness : new[k] = "none"
    <3>1. CASE mem.status.revision = 0
      BY <2>1, <3>1 DEF TimedPass, Stamped
    <3>2. CASE mem.status.revision \notin {0, at}
      BY <1>1, <2>1, <3>2, ClearedKeeps DEF Readiness
    <3> QED BY <3>1, <3>2
  <2>3. mem.status.revision = at => new = clocks
    BY <2>1
  <2> HIDE DEF m, new, at
  <2>4. /\ InStep
        /\ \/ pc' = "running" /\ clocks' = new /\ Same(mem', m)
           \/ pc' = "end" /\ ~Fresh /\ clocks' = clocks /\ Same(mem', mem)
    BY <1>1, <1>3, <1>4, <2>1, StampClocks
  <2>5. CASE pc' = "running" /\ clocks' = new /\ Same(mem', m)
    <3>1. mem'.spec = s /\ mem'.status.revision = at /\ mem'.gen = mem.gen
      BY <1>4, <2>5 DEF Same
    <3>2. Stamped(mem.spec, mem.status)'
      BY <1>1, <2>1, <2>2, <2>3, <2>5, <3>1 DEF TimedPass, Stamped, Awaited
    <3> QED BY <1>2, <1>4, <2>1, <2>4, <2>5, <3>1, <3>2 DEF Same, TimedPass, Names
  <2>6. CASE pc' = "end" /\ ~Fresh /\ clocks' = clocks /\ Same(mem', mem)
    BY <1>1, <2>1, <2>4, <2>6 DEF Same, TimedPass, Names, Stamped, Awaited
  <2> QED BY <2>4, <2>5, <2>6
<1>6. pc' \in {"running", "end"}
  BY <1>1 DEF Stamp, GoTo
<1> QED BY <1>1, <1>5, <1>6, StageTimed

\* A readiness clock is started for what the pass has observed.
LEMMA ReadinessTimed ==
    ASSUME IInv, Timed, pc \in {"running", "service"}, NEW k \in Readiness,
           AwaitReadiness(k), UNCHANGED <<resource, status, helm, cut, bounds>>
    PROVE  Timed'
<1>1. /\ mem \in Copies /\ clocks \in Clocks /\ mem.spec \in Specs
      /\ origin \in [Readiness -> (Releases \X Nat) \cup {None}]
      /\ mem.status.phase = "Installing" /\ Midway(mem.spec)
  BY PassIsMidway DEF IInv, Shaped, TypeOK, Progress, Readiness
<1>2. /\ pc' = "end" /\ mem'.spec = mem.spec /\ mem'.gen = mem.gen
      /\ Reported(mem'.status, mem.status)
  BY <1>1, ReadinessStep DEF Readiness
<1>3. ASSUME ~moved, ~cut
      PROVE  /\ Names(mem'.status, spec) /\ Stamped(mem.spec, mem.status)'
             /\ InStep
  <2>1. TimedPass /\ mem.clocks = clocks
    BY <1>3 DEF Timed, TimedPass
  <2>2. Names(mem'.status, spec)
    BY <1>2, <2>1 DEF TimedPass, Names, Reported
  <2>3. CASE UNCHANGED <<clocks, origin>>
             /\ GoTo("end", Failed(mem, "ReadinessTimedOut"))
    <3>1. mem'.clocks = mem.clocks
      BY <1>1, <2>3, FailedCopy DEF GoTo, Reasons
    <3> QED BY <1>2, <2>1, <2>2, <2>3, <3>1
            DEF TimedPass, Stamped, Awaited, Reported, InStep
  <2>4. CASE UNCHANGED <<clocks, origin>> /\ GoTo("end", mem)
    BY <2>1, <2>2, <2>4 DEF GoTo, TimedPass, Stamped, Awaited, InStep
  <2>5. CASE /\ Stamp([mem.clocks EXCEPT ![k] = "young"], "end", mem)
             /\ origin' = IF Fresh THEN [origin EXCEPT ![k] = Waited(mem)] ELSE origin
             /\ mem.clocks[k] = "none"
    <3> DEFINE new == [mem.clocks EXCEPT ![k] = "young"]
    <3>1. /\ new \in Clocks /\ new[k] # "none"
          /\ \A j \in Readiness \ {k} : new[j] = clocks[j]
      BY <1>1, <2>1, StartedTypes DEF Readiness, Markers, Clocks
    <3>2. clocks[k] = "none"
      BY <2>1, <2>5
    <3>3. Waited(mem) = <<Awaited(mem.spec), mem.status.revision>>
      BY DEF Waited, Target, Awaited
    <3> HIDE DEF new
    <3>4. CASE ~Fresh
      <4>1. clocks' = clocks
        BY <2>5, <3>1, <3>2, <3>4, <2>1 DEF Stamp, GoTo, new
      <4>2. InStep
        BY <1>1, <2>1, <2>5, <3>1, StampClocks DEF new
      <4> QED BY <1>2, <2>1, <2>2, <2>5, <3>4, <4>1, <4>2
              DEF TimedPass, Stamped, Awaited, Reported
    <3>5. CASE Fresh
      <4>1. clocks' = new /\ InStep
        BY <1>1, <2>1, <2>5, <3>1, <3>5, StampClocks DEF new
      <4>2. /\ origin'[k] = <<Awaited(mem.spec), mem.status.revision>>
            /\ \A j \in Readiness \ {k} : origin'[j] = origin[j]
        BY <1>1, <2>5, <3>3, <3>5
      <4> QED BY <1>2, <2>1, <2>2, <3>1, <4>1, <4>2
              DEF TimedPass, Stamped, Awaited, Reported
    <3> QED BY <3>4, <3>5
  <2> QED BY <2>3, <2>4, <2>5 DEF AwaitReadiness
<1> QED BY <1>2, <1>3, StageTimed

LEMMA AwaitTimed == ASSUME IInv, Timed, AwaitRunning \/ AwaitService PROVE Timed'
<1>1. /\ pc \in {"running", "service"} /\ mem \in Copies /\ clocks \in Clocks
      /\ UNCHANGED <<resource, status, helm, cut, bounds>>
  BY DEF AwaitRunning, AwaitService, IInv, Shaped, TypeOK
<1>2. ASSUME NEW markers, NEW stage \in {"service", "repo", "end"},
             NEW m \in Copies, m.clocks = mem.clocks, m.spec = mem.spec,
             m.gen = mem.gen, Reported(m.status, mem.status),
             Stamp(Cleared(markers), stage, m), UNCHANGED origin
      PROVE  Timed'
  <2>1. pc' \in {stage, "end"}
    BY <1>2 DEF Stamp, GoTo
  <2>2. ASSUME ~moved, ~cut
        PROVE  /\ mem'.spec = mem.spec /\ mem'.gen = mem.gen
               /\ Names(mem'.status, spec)
               /\ mem'.status.revision = mem.status.revision
               /\ ClocksKept /\ InStep
    <3>1. TimedPass /\ mem.clocks = clocks
      BY <1>1, <2>2 DEF Timed, TimedPass
    <3>2. /\ InStep /\ clocks' \in {Cleared(markers), clocks}
          /\ Same(mem', m) \/ Same(mem', mem)
      BY <1>1, <1>2, <3>1, ClearedTypes, StampClocks
    <3>3. ClocksKept
      BY <1>1, <3>1, <3>2, ClearedKeeps DEF ClocksKept
    <3> QED BY <1>2, <3>1, <3>2, <3>3 DEF Same, Reported, TimedPass, Names
  <2> QED BY <1>1, <1>2, <2>1, <2>2, QuietTimed
<1>3. ASSUME NEW k \in Readiness, AwaitReadiness(k) PROVE Timed'
  BY <1>1, <1>3, ReadinessTimed
<1>4. Reported(mem.status, mem.status)
  BY DEF Reported
<1>5. CASE AwaitRunning
  BY <1>1, <1>2, <1>3, <1>4, <1>5, InstalledCopy DEF AwaitRunning, Readiness
<1>6. CASE AwaitService
  BY <1>1, <1>2, <1>3, <1>4, <1>6 DEF AwaitService, Readiness
<1> QED BY <1>5, <1>6

LEMMA StageFailsTimed == ASSUME IInv, Timed, StageFails PROVE Timed'
<1>1. /\ pc \in {"source", "server", "repo", "observe"} /\ pc' = "end" /\ mem \in Copies
      /\ UNCHANGED <<resource, status, clocks, helm, origin, cut>>
  BY DEF StageFails, GoTo, IInv, Shaped
<1>2. /\ mem'.spec = mem.spec /\ mem'.gen = mem.gen /\ mem'.clocks = mem.clocks
      /\ Reported(mem'.status, mem.status)
  <2>1. CASE pc = "observe"
    BY <1>1, <2>1 DEF StageFails, GoTo, Copies, Reported
  <2>2. CASE pc # "observe"
    BY <1>1, <2>2, FailedCopy DEF StageFails, GoTo, Reasons
  <2> QED BY <2>1, <2>2
<1>3. ~moved /\ ~cut => Names(mem'.status, spec) /\ mem.clocks = clocks
  BY <1>1, <1>2 DEF Timed, TimedPass, Names, Reported
<1> QED BY <1>1, <1>2, <1>3, QuietTimed DEF ClocksKept, InStep, Reported

\* The end of a pass stops no readiness clock, and its status is stored as
\* the copy has it.
LEMMA EndTimed == ASSUME IInv, Timed, EndPass \/ PersistStatus PROVE Timed'
<1>1. CASE EndPass
  <2>1. /\ pc = "end" /\ pc' = "persist" /\ mem \in Copies /\ clocks \in Clocks
        /\ UNCHANGED <<resource, status, helm, origin, cut>>
    BY <1>1 DEF EndPass, bounds, IInv, Shaped, TypeOK
  <2>2. /\ mem'.spec = mem.spec /\ mem'.status.active = mem.status.active
        /\ mem'.status.source = mem.status.source
        /\ mem'.status.revision = mem.status.revision
    BY <1>1, <2>1 DEF EndPass, Copies, Statuses
  <2>3. ASSUME ~moved, ~cut PROVE TimedPass'
    <3>1. TimedPass
      BY <2>1, <2>3 DEF Timed
    <3>2. ClocksKept
      <4>1. /\ clocks' \in {clocks, Cleared({"release", "chart"})}
            /\ clocks' # clocks => Fresh
        BY <1>1 DEF EndPass
      <4>2. Fresh => mem.clocks = clocks
        BY <2>1, <3>1 DEF TimedPass
      <4>3. CASE clocks' = clocks
        BY <4>3 DEF ClocksKept
      <4>4. CASE clocks' # clocks
        <5>1. mem.clocks = clocks /\ clocks' = Cleared({"release", "chart"})
          BY <4>1, <4>2, <4>4
        <5> QED BY <2>1, <5>1, ClearedKeeps DEF ClocksKept
      <4> QED BY <4>3, <4>4
    <3> QED BY <2>1, <2>2, <3>1, <3>2
            DEF TimedPass, Names, Stamped, ClocksKept, Awaited, resource
  <2> QED BY <2>1, <2>3, PassTimed
<1>2. CASE PersistStatus
  <2>1. /\ pc = "persist" /\ pc' = "idle" /\ status' = mem.status
        /\ UNCHANGED <<resource, clocks, origin, cut>>
    BY <1>2 DEF PersistStatus, GoTo
  <2>2. ~moved /\ ~cut => TimedPass
    BY <2>1 DEF Timed
  <2>3. TimedPass => Names(mem.status, spec) /\ Stamped(spec, mem.status)
    BY DEF TimedPass, Stamped, Awaited, Alike
  <2> QED BY <2>1, <2>2, <2>3 DEF Timed, Names, Stamped, Awaited, resource
<1> QED BY <1>1, <1>2

LEMMA BeginTimed == ASSUME IInv, Timed, BeginPass \/ RefuseCollision PROVE Timed'
<1>1. /\ pc = "idle" /\ pc' \in {"stale", "end"} /\ status \in Statuses
      /\ UNCHANGED <<resource, status, clocks, helm, origin, cut>>
  BY DEF BeginPass, RefuseCollision, GoTo, IInv, Shaped, TypeOK
<1>2. /\ Copy \in Copies /\ Copy.spec = spec /\ Copy.clocks = clocks
      /\ Reported(Copy.status, status)
  BY SpecAssumption DEF Copy, Copies, Statuses, Phases, Reported, IInv, Shaped, TypeOK
<1>3. /\ mem'.spec = spec /\ mem'.clocks = clocks /\ Reported(mem'.status, status)
  BY <1>2, FailedCopy DEF BeginPass, RefuseCollision, GoTo, Reported, Reasons
<1>4. ~moved /\ ~cut => Names(status, spec) /\ Stamped(spec, status)
  BY <1>1 DEF Timed
<1>5. ~moved /\ ~cut => TimedPass'
  BY <1>1, <1>3, <1>4 DEF TimedPass, Alike, Names, Stamped, Awaited, Reported, resource
<1> QED BY <1>1, <1>4, <1>5 DEF Timed, Names, resource

\* Time runs alike for the stored clocks and for the copy's.
LEMMA TimeTimed == ASSUME IInv, Timed, TimePasses PROVE Timed'
<1> DEFINE older(c) == [k \in Markers |-> Older(c[k])]
<1>1. /\ clocks' = older(clocks)
      /\ mem' = IF mem = None THEN None ELSE [mem EXCEPT !.clocks = older(mem.clocks)]
      /\ UNCHANGED <<resource, status, helm, pc, origin, cut, bounds>>
  BY DEF TimePasses
<1>2. \A k \in Readiness : clocks'[k] = "none" <=> clocks[k] = "none"
  BY <1>1 DEF Readiness, Markers, Older
<1> HIDE DEF older
<1>3. pc # "idle" => /\ mem'.spec = mem.spec /\ mem'.gen = mem.gen
                     /\ mem'.status = mem.status
                     /\ mem.clocks = clocks => mem'.clocks = clocks'
  <2> SUFFICES ASSUME pc # "idle"
               PROVE  /\ mem'.spec = mem.spec /\ mem'.gen = mem.gen
                      /\ mem'.status = mem.status
                      /\ mem.clocks = clocks => mem'.clocks = clocks'
    OBVIOUS
  <2>1. mem \in Copies /\ mem # None
    BY DEF IInv, Shaped
  <2> QED BY <1>1, <2>1 DEF Copies
<1>4. pc # "idle" /\ TimedPass => TimedPass'
  <2> HAVE pc # "idle" /\ TimedPass
  <2>1. Fresh' <=> Fresh
    BY <1>1, <1>3 DEF Fresh, resource
  <2> QED BY <1>1, <1>2, <1>3, <2>1 DEF TimedPass, Stamped, Awaited, resource
<1> QED BY <1>1, <1>2, <1>4 DEF Timed, Names, Stamped, Awaited, resource

\* An upgrade changes the version alone, and makes the copy of a pass older.
LEMMA EditTimed == ASSUME IInv, Timed, NEW s \in Specs, EditSpec(s) PROVE Timed'
<1>1. /\ spec' = s /\ gen' = gen + 1 /\ gen \in Nat
      /\ UNCHANGED <<life, status, clocks, helm, pc, mem, origin, cut>>
      /\ moved' = (moved \/ [s EXCEPT !.version = spec.version] # spec)
  BY DEF EditSpec, IInv, Shaped, TypeOK
<1>2. ~moved' => ~moved /\ Alike(s, spec)
  BY <1>1, SpecAssumption DEF Alike, AllSpecs
<1>3. pc # "idle" => ~Fresh'
  <2>1. pc # "idle" => mem.gen \in Nat /\ mem.gen <= gen
    BY CopyTypes DEF IInv, Shaped
  <2> QED BY <1>1, <2>1 DEF Fresh
<1>4. ASSUME Alike(s, spec), Timed, ~moved, ~cut PROVE Names(status, s)
  BY <1>4 DEF Timed, Names, Alike
<1>5. ASSUME Alike(s, spec), TimedPass, pc # "idle" PROVE TimedPass'
  BY <1>1, <1>3, <1>5 DEF TimedPass, Names, Alike, Stamped, Awaited
<1>6. ASSUME Alike(s, spec), Stamped(spec, status) PROVE Stamped(spec, status)'
  BY <1>1, <1>6 DEF Alike, Stamped, Awaited
<1> QED BY <1>1, <1>2, <1>4, <1>5, <1>6 DEF Timed

LEMMA TimedStep == IInv /\ Numbered /\ Timed /\ [Next]_vars => Timed'
<1> SUFFICES ASSUME IInv, Numbered, Timed, [Next]_vars PROVE Timed'
  OBVIOUS
<1>0. ASSUME UNCHANGED <<spec, gen, moved, status, clocks, pc, mem, origin, cut>>,
             life' = "live" => life = "live" \/ pc = "idle"
      PROVE  Timed'
  BY <1>0 DEF Timed, TimedPass, Names, Stamped, Awaited, Fresh
<1>1. CASE UNCHANGED vars
  BY <1>0, <1>1 DEF vars, resource
<1>2. CASE AddFinalizer \/ Finalize
  BY <1>0, <1>2 DEF AddFinalizer, Finalize
<1>3. CASE Delete
  BY <1>0, <1>3 DEF Delete
<1>4. CASE Interrupted
  BY <1>4 DEF Interrupted, Timed
<1>5. CASE \E r \in Releases :
             ForeignOperation(r) \/ OperationEnds(r) \/ Rollout(r) \/ Degrade(r)
  BY <1>0, <1>5 DEF ForeignOperation, OperationEnds, Rollout, Degrade, resource
<1> QED
  BY <1>1, <1>2, <1>3, <1>4, <1>5, RemoveStaleTimed, QuietStagesTimed,
     EnsureServerTimed, EnsureChartTimed, ObserveRevisionTimed, AwaitTimed,
     StageFailsTimed, EndTimed, BeginTimed, TimeTimed, EditTimed
  DEF Next, PassStep, OutsideStep

\* A stage that waits for readiness gives up only by its clock, and in the
\* state it was in that clock ran for the revision observed.
LEMMA GivesUpOnTime ==
    IInv /\ Timed /\ [Next]_vars => (~moved /\ ~cut => TimedFromItsRollout)
<1> SUFFICES ASSUME IInv, Timed, [Next]_vars, ~moved, ~cut,
                    NEW k \in {"deployment", "service"},
                    pc = (IF k = "service" THEN "service" ELSE "running"),
                    pc' = "end", mem'.status.phase = "Failed"
             PROVE  origin[k] = Waited(mem)
  BY DEF TimedFromItsRollout
<1>1. /\ mem \in Copies /\ clocks \in Clocks /\ mem.spec \in Specs
      /\ mem.status.phase = "Installing" /\ TimedPass /\ mem.clocks = clocks
  BY DEF IInv, Shaped, TypeOK, Progress, Timed, TimedPass
<1>2. AwaitRunning \/ AwaitService
  BY DEF Next, PassStep, OutsideStep, AddFinalizer, BeginPass, RefuseCollision,
         RemoveStale, TakeGitSource, TakeHelmSource, EnsureServer, ObserveRevision,
         EnsureRepo, EnsureChart, EndPass, PersistStatus, Finalize, StageFails,
         Interrupted, GoTo, Delete, TimePasses, EditSpec, ForeignOperation,
         OperationEnds, Rollout, Degrade, vars, resource
<1>3. ASSUME NEW new \in Clocks, NEW stage, NEW m \in Copies,
             m.clocks = mem.clocks, m.status.phase # "Failed", Stamp(new, stage, m)
      PROVE  FALSE
  BY <1>1, <1>3, StampClocks DEF Same
<1>4. \A markers : Cleared(markers) \in Clocks
  BY <1>1, ClearedTypes
<1>5. AwaitReadiness(k)
  BY <1>1, <1>2, <1>3, <1>4, InstalledCopy DEF AwaitRunning, AwaitService
<1>6. mem.clocks[k] = "old"
  BY <1>1, <1>3, <1>5, StartedTypes DEF AwaitReadiness, GoTo, Markers
<1> QED BY <1>1, <1>6 DEF TimedPass, Stamped, Readiness, Waited, Target, Awaited

\* While the resource keeps its name and source and no pass is cut off, a wait
\* for readiness that times out was timed from the rollout it waits for
\* (restartReadinessClocks).
THEOREM UpgradesRestart == Spec => UpgradesRestartTheClock
<1> DEFINE Clocked == IInv /\ Numbered /\ Timed
<1>1. Init => Numbered /\ Timed
  BY DEF Init, Numbered, Absent, Timed, Names, Stamped, Readiness, Markers
<1>2. Clocked /\ [Next]_vars => Clocked'
  BY NextKeeps, NumberedStep, TimedStep
<1>3. Clocked /\ [Next]_vars => [~moved /\ ~cut => TimedFromItsRollout]_vars
  BY GivesUpOnTime
<1>4. Init => Clocked
  BY <1>1, InitSatisfies
<1> HIDE DEF Clocked
<1> QED BY <1>2, <1>3, <1>4, PTL DEF Spec, UpgradesRestartTheClock

=============================================================================

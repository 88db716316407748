---------------------------- MODULE WorkloadBundles ----------------------------
(***************************************************************************)
(* What one AIWorkload keeps in Fleet, in git or as a Helm release, and how*)
(* it is taken down: the passes of its controller against edits, an        *)
(* informer that lags, Fleet, which works from HelmOps and from the git    *)
(* repository in its own time, Rancher, and failures.                      *)
(***************************************************************************)
EXTENDS Naturals

CONSTANTS
    Components,   \* of the Blueprint, or the one chart of an App
    Scenes,       \* the cases looked at
    None

Spaces == {"fleet-local", "fleet-default"}     \* fleetNamespaces
Keys   == Components \X Spaces
Revs   == 0 .. 1                               \* of values and versions
\* What a render depends on: the revision and, if every cluster is named in it,
\* the targets.
Digests == [rev : Revs, spaces : SUBSET Spaces]
Specs  == [on : SUBSET Components, spaces : (SUBSET Spaces) \ {{}}, rev : Revs]
\* The AIWorkload as stored: its finalizer, whether FleetBundleNames is filled,
\* and the annotations for published files and for the last synchronisation.
Stored == [life : {"live", "deleting", "gone"}, spec : Specs, final : BOOLEAN,
           named : BOOLEAN, stamp : [Components -> Digests \cup {None}],
           synced : Revs \cup {None}]
Passes == [w : Stored, todo : SUBSET (Components \cup Keys),
           c : Components \cup {None}]
\* The strategy, what backs each component's repository, the specification at
\* first, whether Settings has a Rancher token, and how many edits and faults.
SceneKind == [strategy : {"FleetBundle", "GitOps", "App", "Helm"},
              kind : [Components -> {"chart", "git"}], start : Specs,
              token : BOOLEAN, edits : Nat, faults : Nat]

ASSUME ScenesAssumption == Scenes \subseteq SceneKind /\ None \notin Components
ASSUME NoneAssumption ==
    /\ None \notin Revs /\ None \notin Digests /\ None \notin Passes

VARIABLES
    scene,
    w, seen,     \* the AIWorkload, and the informer's copy
    queued,      \* it is in the work queue
    pc, mem,     \* the pass: where it is, and what it holds
    file,        \* workloads/<bundle>.yaml in the git repository
    helmOp, bundle, \* per component and Fleet workspace
    release,     \* of a Helm workload
    cleaned,     \* history: components whose file a clean-up removed
    steady,      \* history: the keys wanted ever since the start
    excused,     \* history: why it may be gone, and what went wrong then
    edits, faults

fleet  == <<helmOp, bundle>>
past   == <<cleaned, steady, excused>>
bounds == <<edits, faults>>
vars   == <<scene, w, seen, queued, pc, mem, file, fleet, release, past, bounds>>

Stages == {"idle", "finalizer", "names", "render", "stamp", "cleanup", "mirror",
           "remove", "teardown"}

TypeOK ==
    /\ scene \in Scenes /\ w \in Stored /\ seen \in Stored
    /\ queued \in BOOLEAN /\ pc \in Stages
    /\ mem \in Passes \cup {None} /\ (mem = None) = (pc = "idle")
    /\ file \in [Components -> Digests \cup {None}]
    /\ helmOp \in [Keys -> Revs \cup {None}]
    /\ bundle \in [Keys -> Digests \cup {None}]
    /\ release \in {"none", "deployed", "requested", "uninstalling"}
    /\ cleaned \subseteq Components /\ steady \subseteq Keys
    /\ excused \subseteq {"asked", "early", "withdrawn", "git"}
    /\ edits \in Nat /\ faults \in Nat

Strategy  == scene.strategy
Blueprint == Strategy \in {"FleetBundle", "GitOps"}
InGit     == Strategy \in {"GitOps", "App"}
Git(c)    == scene.kind[c] = "git"

\* FleetBundleNames: of every component, or of the App.
Names == IF Strategy = "App" THEN scene.start.on ELSE Components

\* gitChartFingerprint and the file hash take every target in; a HelmOp only
\* has those of its workspace.
Digest(spec) == [rev |-> spec.rev, spaces |-> spec.spaces]
Generated(k) == [rev |-> helmOp[k], spaces |-> {}]
Wants(spec) == spec.on \X spec.spaces

Init ==
    /\ scene \in Scenes
    /\ w = [life |-> "live", spec |-> scene.start, final |-> FALSE,
            named |-> Strategy = "App", stamp |-> [c \in Components |-> None],
            synced |-> None]
    /\ seen = w /\ queued = TRUE /\ pc = "idle" /\ mem = None
    /\ file = [c \in Components |-> IF Strategy = "App" /\ c \in scene.start.on
                                    THEN Digest(scene.start) ELSE None]
    /\ helmOp = [k \in Keys |-> None] /\ bundle = helmOp
    /\ release = IF Strategy = "Helm" THEN "deployed" ELSE "none"
    /\ cleaned = {} /\ steady = Wants(scene.start) /\ excused = {}
    /\ edits = 0 /\ faults = 0

-----------------------------------------------------------------------------
(* The work queue and the store.                                           *)

Fault == faults < scene.faults /\ faults' = faults + 1

\* Fleet's objects are watched by the names the informer's copy lists.
Noticed(changed) == changed /\ seen.named /\ seen.life # "gone"

Queue(again) == queued' = (queued \/ again)
EndPass(again) == pc' = "idle" /\ mem' = None /\ Queue(again)
Errs == EndPass(TRUE)
Continue(stage, x, todo, c) ==
    pc' = stage /\ mem' = [w |-> x, todo |-> todo, c |-> c]

\* An Update carries the resourceVersion of the pass's copy.
Current == mem.w = w
Update(new) == Current /\ w' = new
Conflict ==
    /\ ~Current /\ Errs
    /\ UNCHANGED <<scene, seen, w, file, fleet, release, past, bounds>>

Begin ==
    /\ pc = "idle" /\ queued /\ queued' = FALSE
    /\ LET Start(stage, todo) == Continue(stage, seen, todo, None)
       IN CASE seen.life = "gone" -> UNCHANGED <<pc, mem>>
            [] seen.life = "deleting" ->
                 Start("teardown", IF seen.named THEN Names ELSE {})
            [] seen.life = "live" /\ ~seen.final -> Start("finalizer", {})
            [] seen.life = "live" /\ seen.final /\ Blueprint /\ ~seen.named ->
                 Start("names", {})
            [] seen.life = "live" /\ seen.final /\ Blueprint /\ seen.named ->
                 Start("render", seen.spec.on)
            [] seen.life = "live" /\ seen.final /\ Strategy = "App" ->
                 Start("mirror", {})
            [] OTHER -> UNCHANGED <<pc, mem>>
    /\ UNCHANGED <<scene, seen, w, file, fleet, release, past, bounds>>

AddFinalizer ==
    /\ pc = "finalizer" /\ Update([mem.w EXCEPT !.final = TRUE]) /\ EndPass(TRUE)
    /\ UNCHANGED <<scene, seen, file, fleet, release, past, bounds>>

\* FleetBundleNames, from every component of the Blueprint, once.
PopulateNames ==
    /\ pc = "names" /\ Update([mem.w EXCEPT !.named = TRUE]) /\ EndPass(TRUE)
    /\ UNCHANGED <<scene, seen, file, fleet, release, past, bounds>>

Conflicts ==
    /\ pc \in {"finalizer", "names", "stamp"} /\ Conflict

\* A call fails, or the process stops, before the step at hand.
Fails ==
    /\ pc # "idle" /\ Fault /\ Errs
    /\ UNCHANGED <<scene, seen, w, file, fleet, release, past, edits>>

-----------------------------------------------------------------------------
(* Rendering.                                                              *)

Todo(c) == mem.todo \ {c}
Rendered(c) == Continue("render", mem.w, Todo(c), None)

\* Workspaces in the code's order: the first one alone, or all of them.
First(spaces) == IF "fleet-local" \in spaces THEN {"fleet-local"} ELSE spaces

Patched(c, spaces, spec) ==
    [k \in Keys |-> IF k[1] = c /\ k[2] \in spaces THEN spec.rev ELSE helmOp[k]]
PatchedBundles(c, spaces, spec) ==
    [k \in Keys |-> IF k[1] = c /\ k[2] \in spaces THEN Digest(spec) ELSE bundle[k]]

\* No download when every Bundle already carries the fingerprint.
UpToDateSomewhere(c) ==
    \E s \in mem.w.spec.spaces : bundle[<<c, s>>] = Digest(mem.w.spec)
UpToDate(c) == \A s \in mem.w.spec.spaces : bundle[<<c, s>>] = Digest(mem.w.spec)

\* A HelmOp is patched in every pass, a git chart's Bundle when it differs.
WriteTo(c, spaces) ==
    /\ IF Git(c)
       THEN /\ bundle' = IF UpToDate(c) THEN bundle
                         ELSE PatchedBundles(c, spaces, mem.w.spec)
            /\ UNCHANGED helmOp
       ELSE helmOp' = Patched(c, spaces, mem.w.spec) /\ UNCHANGED bundle
    /\ UNCHANGED <<scene, seen, w, file, release, past, edits>>

RenderComponent ==
    /\ pc = "render" /\ Strategy = "FleetBundle"
    /\ \E c \in mem.todo :
         /\ WriteTo(c, mem.w.spec.spaces) /\ Rendered(c)
         /\ Queue(Noticed(fleet' # fleet))
    /\ UNCHANGED faults

\* The second workspace is refused, or the answer of the only one is lost.
RenderFails ==
    /\ pc = "render" /\ Strategy = "FleetBundle" /\ Fault /\ Errs
    /\ \E c \in mem.todo : WriteTo(c, First(mem.w.spec.spaces))

\* The repository is left alone while the annotation has the content's hash.
Published(c) == mem.w.stamp[c] = Digest(mem.w.spec)
WriteFile(c) == file' = [file EXCEPT ![c] = Digest(mem.w.spec)]

TryWrite(c) ==
    \/ WriteFile(c) /\ UNCHANGED faults
    \/ Fault /\ UNCHANGED file
Write(c) == WriteFile(c) /\ UNCHANGED faults

Push ==
    /\ pc = "render" /\ Strategy = "GitOps"
    /\ \E c \in mem.todo :
         IF Published(c)
         THEN Rendered(c) /\ UNCHANGED <<file, faults>>
         ELSE Write(c) /\ Continue("stamp", mem.w, mem.todo, c)
    /\ UNCHANGED <<scene, seen, w, queued, fleet, release, past, edits>>

Stamp ==
    /\ pc = "stamp"
    /\ LET new == [mem.w EXCEPT !.stamp[mem.c] = Digest(mem.w.spec)] IN
         /\ Update(new)
         /\ Continue("render", new, Todo(mem.c), None)
    /\ UNCHANGED <<scene, seen, queued, file, fleet, release, past, bounds>>

-----------------------------------------------------------------------------
(* What is no longer wanted: cleanupStaleHelmOps.                          *)

ListStale ==
    /\ pc = "render" /\ mem.todo = {}
    /\ Continue("cleanup", mem.w,
                {k \in Keys : helmOp[k] # None /\ k \notin Wants(mem.w.spec)}, None)
    /\ UNCHANGED <<scene, seen, w, queued, file, fleet, release, past, bounds>>

Deleted(f, keys) == [k \in Keys |-> IF k \in keys THEN None ELSE f[k]]

\* Only the one in this workspace.
StaleAnywhere(k) == {k[1]} \X Spaces
StaleAt(k) == {k}

Discard ==
    /\ pc = "cleanup"
    /\ \E k \in mem.todo :
         /\ IF Strategy = "GitOps"
            THEN /\ file' = [file EXCEPT ![k[1]] = None]
                 /\ cleaned' = cleaned \cup {k[1]}
                 /\ UNCHANGED <<queued, fleet>>
            ELSE /\ helmOp' = Deleted(helmOp, StaleAt(k))
                 /\ bundle' = Deleted(bundle, StaleAt(k))
                 /\ Queue(Noticed(TRUE))
                 /\ UNCHANGED <<file, cleaned>>
         /\ Continue("cleanup", mem.w, Todo(k), None)
    /\ UNCHANGED <<scene, seen, w, release, steady, excused, bounds>>

\* The HelmOp is deleted, its Bundle is not.
DiscardFails ==
    /\ pc = "cleanup" /\ Strategy = "FleetBundle" /\ Fault /\ Errs
    /\ \E k \in mem.todo : helmOp' = Deleted(helmOp, StaleAt(k))
    /\ UNCHANGED <<scene, seen, w, file, bundle, release, past, edits>>

Finish ==
    /\ pc = "cleanup" /\ mem.todo = {} /\ EndPass(FALSE)
    /\ UNCHANGED <<scene, seen, w, file, fleet, release, past, bounds>>

-----------------------------------------------------------------------------
(* An App in git: its specification follows the HelmOp, and it goes with it.*)

\* The first HelmOp found: getHelmOp tries both workspaces.
MirroredHere == helmOp[<<CHOOSE c \in Names : TRUE, "fleet-local">>]
Found == {k \in Keys : helmOp[k] # None}
Mirrored ==
    IF \E k \in Found : k[2] = "fleet-local"
    THEN helmOp[CHOOSE k \in Found : k[2] = "fleet-local"]
    ELSE helmOp[CHOOSE k \in Found : TRUE]

\* Fleet has yet to read the file, or nothing has changed.
Mirror ==
    /\ pc = "mirror" /\ EndPass(FALSE)
    /\ mem.w.synced = IF Found = {} THEN None ELSE Mirrored
    /\ UNCHANGED <<scene, seen, w, file, fleet, release, past, bounds>>

SyncSpec ==
    /\ pc = "mirror" /\ Found # {} /\ Mirrored # mem.w.synced
    /\ \/ /\ Update([mem.w EXCEPT !.synced = Mirrored, !.spec.rev = Mirrored])
          /\ EndPass(FALSE)
          /\ UNCHANGED <<scene, seen, file, fleet, release, past, bounds>>
       \/ Conflict

\* Gone after it has been there, that is, after a synchronisation.
Absent == Found = {}
Withdrawn == Absent /\ mem.w.synced # None

\* deleteAIWorkload: the finalizer is removed, then the workload.
GivesUp ==
    /\ pc = "mirror" /\ Withdrawn
    /\ \/ LET new == [mem.w EXCEPT !.final = FALSE] IN
            /\ Update(new) /\ Continue("remove", new, {}, None)
            /\ UNCHANGED <<scene, seen, queued, file, fleet, release, past, bounds>>
       \/ Conflict

\* The API server's part in a Delete: it waits for finalizers.
Removed(x) == [x EXCEPT !.life = IF @ # "live" THEN @
                                 ELSE IF x.final THEN "deleting" ELSE "gone"]

Remove ==
    /\ pc = "remove" /\ w' = Removed(w) /\ EndPass(w.life = "gone")
    /\ UNCHANGED <<scene, seen, file, fleet, release, past, bounds>>

-----------------------------------------------------------------------------
(* Deletion.                                                               *)

\* The HelmOps of both workspaces, then their Bundles.
TearDown ==
    /\ pc = "teardown" /\ Strategy = "FleetBundle"
    /\ \E c \in mem.todo :
         /\ helmOp' = Deleted(helmOp, {c} \X Spaces)
         /\ bundle' = Deleted(bundle, {c} \X Spaces)
         /\ Continue("teardown", mem.w, Todo(c), None)
         /\ Queue(Noticed(fleet' # fleet))
    /\ UNCHANGED <<scene, seen, w, file, release, past, bounds>>

\* One of the calls fails: of the HelmOps the others are still deleted, and the
\* Bundles only when all HelmOps are.  The finalizer stays.
GoesOn(c) == Continue("teardown", mem.w, Todo(c), None) /\ UNCHANGED queued
Keeps(c) == Errs

TearDownFails ==
    /\ pc = "teardown" /\ Strategy = "FleetBundle" /\ Fault
    /\ \E c \in mem.todo :
         /\ \E some \in (SUBSET Spaces) \ {Spaces} :
              \/ helmOp' = Deleted(helmOp, {c} \X some) /\ UNCHANGED bundle
              \/ /\ helmOp' = Deleted(helmOp, {c} \X Spaces)
                 /\ bundle' = Deleted(bundle, {c} \X some)
         /\ Keeps(c)
    /\ UNCHANGED <<scene, seen, w, file, release, past, edits>>

\* The file, from which Fleet removes the rest; an error is only logged.
DeleteFile ==
    /\ pc = "teardown" /\ InGit
    /\ \E c \in mem.todo :
         /\ Continue("teardown", mem.w, Todo(c), None)
         /\ \/ /\ file' = [file EXCEPT ![c] = None]
               /\ UNCHANGED <<excused, faults>>
            \/ Fault /\ excused' = excused \cup {"git"} /\ UNCHANGED file
    /\ UNCHANGED <<scene, seen, w, queued, fleet, release, cleaned, steady, edits>>

\* Rancher's App says that it is being uninstalled.
InProgress == release = "uninstalling"
Remains == release # "none"

AwaitOnce ==
    /\ pc = "teardown" /\ Strategy = "Helm" /\ Remains
    /\ release' = IF scene.token /\ ~InProgress THEN "requested" ELSE release
    /\ EndPass(FALSE)
    /\ UNCHANGED <<scene, seen, w, file, fleet, past, bounds>>

\* With a token the operator asks Rancher to uninstall the release, and in
\* either case it looks again later.
AwaitRelease ==
    /\ pc = "teardown" /\ Strategy = "Helm" /\ Remains
    /\ release' = IF scene.token /\ ~InProgress THEN "requested" ELSE release
    /\ EndPass(TRUE)
    /\ UNCHANGED <<scene, seen, w, file, fleet, past, bounds>>

RemoveFinalizer ==
    /\ pc = "teardown" /\ mem.todo = {} /\ (Strategy = "Helm" => ~Remains)
    /\ \/ /\ Update([mem.w EXCEPT !.final = FALSE, !.life = "gone"])
          /\ EndPass(FALSE)
          /\ UNCHANGED <<scene, seen, file, fleet, release, past, bounds>>
       \/ Conflict

-----------------------------------------------------------------------------
(* Around the controller.                                                  *)

Quiet == UNCHANGED <<pc, mem>>

\* The informer.
Observe ==
    /\ seen # w /\ seen' = w /\ queued' = TRUE
    /\ UNCHANGED <<scene, w, file, fleet, release, past, bounds>> /\ Quiet

\* Fleet makes a Bundle of a HelmOp.
Generate ==
    /\ \E k \in Keys :
         /\ helmOp[k] # None /\ ~Git(k[1]) /\ bundle[k] # Generated(k)
         /\ bundle' = [bundle EXCEPT ![k] = Generated(k)]
    /\ Queue(Noticed(TRUE))
    /\ UNCHANGED <<scene, w, seen, file, helmOp, release, past, bounds>> /\ Quiet

\* It may collect the Bundle of a HelmOp that is gone.
Collect ==
    /\ \E k \in Keys :
         /\ helmOp[k] = None /\ ~Git(k[1]) /\ bundle[k] # None
         /\ bundle' = [bundle EXCEPT ![k] = None]
    /\ Queue(Noticed(TRUE))
    /\ UNCHANGED <<scene, w, seen, file, helmOp, release, past, bounds>> /\ Quiet

\* It applies a file: HelmOps, or Bundles for a git chart; what the file no
\* longer has goes.
FromFile(c, s) == file[c] # None /\ s \in file[c].spaces
ApplyFile ==
    /\ InGit
    /\ \E c \in Components :
         LET Ours(k) == k[1] = c IN
         IF Git(c)
         THEN /\ bundle' = [k \in Keys |-> IF ~Ours(k) THEN bundle[k]
                  ELSE IF FromFile(c, k[2]) THEN file[c] ELSE None]
              /\ bundle' # bundle /\ UNCHANGED helmOp
         ELSE /\ helmOp' = [k \in Keys |-> IF ~Ours(k) THEN helmOp[k]
                  ELSE IF FromFile(c, k[2]) THEN file[c].rev ELSE None]
              /\ helmOp' # helmOp /\ UNCHANGED bundle
    /\ Queue(Noticed(TRUE))
    /\ UNCHANGED <<scene, w, seen, file, release, past, bounds>> /\ Quiet

\* Rancher uninstalls a release.
Uninstalling ==
    /\ release = "requested" /\ release' = "uninstalling" /\ queued' = TRUE
    /\ UNCHANGED <<scene, w, seen, file, fleet, past, bounds>> /\ Quiet

Uninstalled ==
    /\ release = "uninstalling" /\ release' = "none" /\ queued' = TRUE
    /\ UNCHANGED <<scene, w, seen, file, fleet, past, bounds>> /\ Quiet

\* Its operation fails before it has begun: nothing tells the operator.
UninstallFails ==
    /\ release = "requested" /\ Fault /\ release' = "deployed"
    /\ UNCHANGED <<scene, w, seen, queued, file, fleet, past, edits>> /\ Quiet

\* From the Apps page.
UninstallByUser ==
    /\ w.life = "deleting" /\ release = "deployed" /\ ~scene.token
    /\ release' = "uninstalling" /\ queued' = TRUE
    /\ UNCHANGED <<scene, w, seen, file, fleet, past, bounds>> /\ Quiet

Edit == edits < scene.edits /\ edits' = edits + 1

\* Another revision, a component enabled or disabled, a workspace's clusters
\* added or removed: at least one component and one cluster stay.
Toggle(set, x) == IF x \in set THEN set \ {x} ELSE set \cup {x}
Edited(spec) ==
    {[spec EXCEPT !.rev = 1 - @]}
      \cup {[spec EXCEPT !.on = Toggle(@, c)] : c \in Components}
      \cup {[spec EXCEPT !.spaces = Toggle(@, s)] : s \in Spaces}

Change ==
    /\ Blueprint /\ w.life = "live" /\ Edit
    /\ \E spec \in {x \in Edited(w.spec) : x.on # {} /\ x.spaces # {}} :
         /\ w' = [w EXCEPT !.spec = spec]
         /\ steady' = steady \cap Wants(spec)
    /\ UNCHANGED <<scene, seen, queued, file, fleet, release, cleaned, excused, faults>>
    /\ Quiet

Delete ==
    /\ w.life = "live" /\ Edit
    /\ w' = Removed(w)
    /\ excused' = excused \cup {IF w.final THEN "asked" ELSE "early"}
    /\ UNCHANGED <<scene, seen, queued, file, fleet, release, cleaned, steady, faults>>
    /\ Quiet

\* The file of an App is written from the UI, or removed from the repository.
Publish ==
    /\ Strategy = "App" /\ w.life = "live" /\ Edit
    /\ \E c \in Components : file[c] # None /\ file' = [file EXCEPT ![c].rev = 1 - @]
    /\ UNCHANGED <<scene, w, seen, queued, fleet, release, past, faults>> /\ Quiet

Withdraw ==
    /\ Strategy = "App" /\ w.life = "live" /\ Edit
    /\ \E c \in Components : file[c] # None /\ file' = [file EXCEPT ![c] = None]
    /\ excused' = excused \cup {"withdrawn"}
    /\ UNCHANGED <<scene, w, seen, queued, fleet, release, cleaned, steady, faults>>
    /\ Quiet

\* An administrator deletes a HelmOp, or a git chart's Bundle.
Lose ==
    /\ Strategy = "FleetBundle" /\ w.life = "live" /\ Fault
    /\ \E k \in Keys :
         IF Git(k[1])
         THEN bundle[k] # None /\ bundle' = Deleted(bundle, {k}) /\ UNCHANGED helmOp
         ELSE helmOp[k] # None /\ helmOp' = Deleted(helmOp, {k}) /\ UNCHANGED bundle
    /\ Queue(Noticed(TRUE))
    /\ UNCHANGED <<scene, w, seen, file, release, past, edits>> /\ Quiet

Pass ==
    \/ Begin \/ AddFinalizer \/ PopulateNames \/ Conflicts
    \/ RenderComponent \/ Push \/ Stamp \/ ListStale \/ Discard \/ Finish
    \/ Mirror \/ SyncSpec \/ GivesUp \/ Remove
    \/ TearDown \/ DeleteFile \/ AwaitRelease \/ RemoveFinalizer
Disturb == Fails \/ RenderFails \/ DiscardFails \/ TearDownFails
Outside == Generate \/ ApplyFile \/ Uninstalling \/ Uninstalled

Next ==
    \/ Pass \/ Disturb \/ Observe \/ Outside \/ Collect \/ UninstallFails
    \/ UninstallByUser \/ Change \/ Delete \/ Publish \/ Withdraw \/ Lose

Spec == Init /\ [][Next]_vars

\* The work queue and the informer go on, Fleet works and Rancher's operations
\* run.  Fleet need not collect a Bundle, nor a user uninstall a release.
Fairness == WF_vars(Pass) /\ WF_vars(Observe)
              /\ WF_vars(Generate) /\ WF_vars(ApplyFile)
              /\ WF_vars(Uninstalling \/ Uninstalled)
LiveSpec == Spec /\ Fairness

-----------------------------------------------------------------------------
(* Properties.                                                             *)

AtRest == pc = "idle" /\ ~queued /\ seen = w /\ w.life = "live"
Ready  == w.final /\ w.named
Stale(k) == k \notin Wants(w.spec)

\* A pass that left nothing to do left Fleet with just what the specification
\* asks for: every wanted HelmOp, none other, every git chart's Bundle with the
\* fingerprint of all the targets; and, unless a call failed, no Bundle of a
\* HelmOp that is gone.  (ensureBlueprintHelmOp, ensureBlueprintGitChartBundle
\* and cleanupStaleHelmOps.)
RestIsRendered ==
    (AtRest /\ Ready /\ Strategy = "FleetBundle") =>
        \A k \in Keys :
          IF Git(k[1]) THEN ~Stale(k) => bundle[k] = Digest(w.spec)
          ELSE /\ helmOp[k] = IF Stale(k) THEN None ELSE w.spec.rev
               /\ Stale(k) /\ faults = 0 => bundle[k] = None

\* Likewise the repository has the files of the components, as far as no
\* clean-up ever removed them, although publishBlueprintGitFile looks at an
\* annotation and not at the repository.
RestIsPublished ==
    (AtRest /\ Ready /\ Strategy = "GitOps") =>
        \A c \in w.spec.on \ cleaned : file[c] = Digest(w.spec)

\* What is deployed in one workspace stays while it is wanted there, whatever
\* the clean-up removes in the other one (the comment in cleanupStaleHelmOps).
KeptWhileSteady ==
    [][w'.life = "live" /\ Strategy = "FleetBundle" /\ faults' = faults =>
         \A k \in steady' : helmOp[k] # None => helmOp'[k] # None]_vars

\* A deletion that the finalizer held up leaves nothing behind: no HelmOp, no
\* Bundle, no release; no file, unless its removal failed (handleDeletion).
GoneIsTornDown ==
    (w.life = "gone" /\ "asked" \in excused) =>
        CASE Strategy = "FleetBundle" ->
               \A k \in Keys : helmOp[k] = None /\ bundle[k] = None
          [] Strategy = "Helm" -> release = "none"
          [] OTHER -> "git" \in excused \/ \A c \in Components : file[c] = None

\* A workload is only gone when someone deleted it, or its file: not because
\* Fleet had yet to make a HelmOp of the file (reconcileGitOpsStatus).
OnlyDeletedIsGone ==
    w.life = "gone" => {"asked", "early", "withdrawn"} \cap excused # {}

\* After the last edit and the last fault, what is wanted is deployed.
Deployed ==
    \A k \in Wants(w.spec) : k[1] \notin cleaned =>
        IF Git(k[1]) THEN bundle[k] = Digest(w.spec)
        ELSE helmOp[k] = w.spec.rev /\ bundle[k] = Generated(k)
Delivered ==
    <>[](w.life # "live" \/ "withdrawn" \in excused \/ Strategy = "Helm" \/ Deployed)

\* A deletion comes to its end: calls that fail are made again, and so is a
\* request to uninstall that came to nothing.  Without a token it is the user's.
DeletionsEnd ==
    (w.life = "deleting") ~> (w.life = "gone" \/ (Strategy = "Helm" /\ ~scene.token))

\* "a component the user disabled via ComponentValues.Enabled=false is simply
\* absent from the desired set, so cleanupStaleHelmOps below tears down its
\* HelmOp/Bundle" (blueprint.go).
DisabledIsTornDown ==
    (AtRest /\ Ready /\ Strategy = "FleetBundle") =>
        \A k \in Keys : k[1] \notin w.spec.on => helmOp[k] = None /\ bundle[k] = None
=============================================================================

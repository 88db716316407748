----------------------------- MODULE PullSecrets -----------------------------
(***************************************************************************)
(* Image pull secrets in one namespace that several workloads install      *)
(* into.  On the operator's own cluster the reconcile pass merges them     *)
(* into the ServiceAccounts; on a downstream cluster a script does, shipped*)
(* in a Fleet Bundle per workload and run again and again.  Either deletes *)
(* the pods that were admitted too early, for their controller to create   *)
(* them anew, and must not go on deleting them for ever.                   *)
(***************************************************************************)
EXTENDS Integers, FiniteSets

CONSTANTS
    Workloads,
    Secrets,      \* names of pull secrets, delivered and other
    Needs,        \* the secrets recorded for each workload
    BundleName,   \* the name of each workload's Bundle
    SAs,          \* ServiceAccounts
    Managed,      \* those of Helm charts and the default one
    Early,        \* those there from the start
    Replicas,     \* the pods of the controller
    Foreign,      \* those administrators add
    Scenes,       \* the cases looked at: a controller, a layout, and bounds
    MaxBounces,   \* chartPodMaxBounces
    None

Clusters  == {"local", "remote"}
Names     == {BundleName[w] : w \in Workloads}
Gens      == 0 .. 1            \* pod UIDs, used in turn
PodStates == {"gone", "pending", "started", "failing", "running", "ending"}
Pods      == [gen : Gens, secrets : SUBSET Secrets, state : PodStates]
Copies    == Replicas \X Gens  \* pods, by slot and UID
Kinds     == {"replica", "stateful", "other"}
\* The controller of the pods, as its chart made it; where the workloads are
\* installed, and which cluster is looked at; and how many edits (deletions, an
\* administrator's secrets) and faults (failed calls, restarts) are looked at.
ChartKind  == [owner : Workloads, sa : SAs, label : BOOLEAN, kind : Kinds,
               own : SUBSET Secrets, hook : SUBSET Secrets, pulls : SUBSET Secrets]
LayoutKind == [here : Clusters, target : [Workloads -> SUBSET Clusters]]
SceneKind  == [chart : ChartKind, layout : LayoutKind, edits : Nat, faults : Nat]
Accounts  == [SAs -> (SUBSET Secrets) \cup {None}]
Passes    == [w : Workloads, sas : Accounts, todo : SUBSET (SAs \cup Replicas),
              pod : Copies \cup {None}, unsettled : BOOLEAN]
Runs      == [w : Workloads, todo : SUBSET (SAs \cup Replicas), at : SAs \cup {None},
              read : SUBSET Secrets, patched : BOOLEAN, pods : [Replicas -> Pods]]

ASSUME SetsAssumption ==
    /\ Managed \cup Early \subseteq SAs /\ SAs \cap Replicas = {}
    /\ Needs \in [Workloads -> SUBSET Secrets]
    /\ Foreign \subseteq Secrets /\ Scenes \subseteq SceneKind
    /\ None \notin Workloads \cup SAs \cup Replicas /\ \A x \in SUBSET Secrets : None # x
ASSUME NoneAssumption == None \notin Passes \cup Copies
ASSUME MaxBouncesAssumption == MaxBounces \in Nat

VARIABLES
    scene,
    life,        \* of each workload
    event,       \* workloads queued at once, by a watch or an error
    due,         \* workloads queued for later, as RequeueAfter asks
    resolved,    \* the Blueprint that gives the workloads their scope is there
    sa,          \* the pull secrets on each ServiceAccount
    pod, seen,   \* the pods, and the operator's informer's copies
    count, last, \* the controller's annotations: bounces, and the last pod bounced
    bundle,      \* whose content each Bundle carries
    installed,   \* and what Fleet has brought to the downstream cluster
    run,         \* the merge script of each installed Bundle
    pc, mem,     \* the pass: where it is, and what it holds
    spent,       \* history: pods deleted against the limit
    edits, faults

queues   == <<event, due>>
pods     == <<pod, seen>>
tally    == <<count, last, spent>>
fleet    == <<bundle, installed, run>>
bounds   == <<edits, faults>>
vars     == <<scene, life, queues, resolved, sa, pods, tally, fleet, pc, mem, bounds>>

Stages == {"idle", "scope", "merge", "pods", "count", "delete", "record",
           "cleanup", "prune"}

TypeOK ==
    /\ scene \in Scenes
    /\ life \in [Workloads -> {"live", "deleting", "gone"}]
    /\ event \in [Workloads -> BOOLEAN] /\ due \in [Workloads -> BOOLEAN]
    /\ resolved \in BOOLEAN /\ sa \in Accounts
    /\ pod \in [Replicas -> Pods] /\ seen \in [Replicas -> Pods]
    /\ count \in Nat /\ spent \in Nat
    /\ last \in Copies \cup {None}
    /\ bundle \in [Names -> Workloads \cup {None}]
    /\ installed \in [Names -> Workloads \cup {None}]
    /\ run \in [Names -> Runs \cup {None}]
    /\ pc \in Stages /\ mem \in Passes \cup {None}
    /\ edits \in Nat /\ faults \in Nat
    /\ (mem = None) = (pc = "idle")

chart  == scene.chart
layout == scene.layout

Delivered == UNION {Needs[w] : w \in Workloads}
Local == layout.here = "local"
TargetsHere(w) == layout.here \in layout.target[w]

Init ==
    /\ scene \in Scenes
    /\ life = [w \in Workloads |-> "live"]
    /\ event = [w \in Workloads |-> TRUE] /\ due = [w \in Workloads |-> FALSE]
    /\ resolved = TRUE
    /\ sa = [s \in SAs |-> IF s \in Early THEN {} ELSE None]
    /\ pod = [i \in Replicas |-> [gen |-> 0, secrets |-> {}, state |-> "gone"]]
    /\ seen = pod
    /\ count = 0 /\ last = None /\ spent = 0
    /\ bundle = [n \in Names |-> None] /\ installed = bundle /\ run = bundle
    /\ pc = "idle" /\ mem = None
    /\ edits = 0 /\ faults = 0

-----------------------------------------------------------------------------
(* Pods and the secrets they lack.                                         *)

Existing(accounts) == {s \in SAs : accounts[s] # None}

OnSA == IF sa[chart.sa] = None THEN {} ELSE sa[chart.sa]

\* podMissesDeliveredSecret
Misses(q, w) == (Needs[w] \cap OnSA) \ q.secrets # {}

\* Fault: where the secrets of the pod came from is not asked.
HelpsWhateverItsSource(q, w) ==
    Misses(q, w) /\ chart.kind # "other" /\ chart.owner = w /\ chart.own = {}

\* Deleting the pod gives it a secret: its controller has a template without
\* secrets of its own, belongs to the workload, and the ServiceAccount
\* accounts for all the pod has.
Helps(q, w) ==
    /\ Misses(q, w) /\ chart.kind # "other" /\ chart.owner = w
    /\ chart.own = {} /\ q.secrets \subseteq OnSA

\* Deletion is by name: the name of a ReplicaSet's pod is its own, that of a
\* StatefulSet's pod is also its successor's.
Found(i, gen) ==
    pod[i].state # "gone" /\ (chart.kind = "stateful" \/ pod[i].gen = gen)

Deleted(i, gen) == IF Found(i, gen) THEN [pod EXCEPT ![i].state = "ending"] ELSE pod

-----------------------------------------------------------------------------
(* The pass of the operator.                                               *)

Fault == faults < scene.faults /\ faults' = faults + 1

\* Fault: a pass that found pods to watch does not come back.
EndPassSettled ==
    /\ pc' = "idle" /\ mem' = None /\ UNCHANGED queues

\* A settled pass waits for an event, another one is run again later.
EndPass ==
    /\ pc' = "idle" /\ mem' = None
    /\ due' = [due EXCEPT ![mem.w] = @ \/ mem.unsettled] /\ UNCHANGED event

Errs ==
    /\ pc' = "idle" /\ mem' = None
    /\ event' = [event EXCEPT ![mem.w] = TRUE] /\ UNCHANGED due

GoTo(stage, m) == pc' = stage /\ mem' = m /\ UNCHANGED queues

\* By the time a delayed pass runs the informer has caught up.
Begin(w) ==
    /\ pc = "idle" /\ life[w] # "gone"
    /\ \/ event[w] /\ event' = [event EXCEPT ![w] = FALSE] /\ UNCHANGED due
       \/ due[w] /\ (Local => seen = pod) /\ due' = [due EXCEPT ![w] = FALSE] /\ UNCHANGED event
    /\ pc' = IF life[w] = "live" THEN "scope" ELSE "cleanup"
    /\ mem' = [w |-> w, sas |-> sa, todo |-> {}, pod |-> None, unsettled |-> FALSE]
    /\ UNCHANGED <<scene, life, resolved, sa, pods, tally, fleet, bounds>>

\* resolveWorkloadScope and deliverPullSecrets, then the ServiceAccounts are
\* listed.  Without a scope what was delivered is left as it is.
Deliver ==
    /\ pc = "scope"
    /\ \/ /\ ~resolved \/ (Local /\ ~TargetsHere(mem.w))
          /\ EndPass /\ UNCHANGED bundle
       \/ /\ resolved /\ ~Local
          /\ bundle' = IF TargetsHere(mem.w)
                       THEN [bundle EXCEPT ![BundleName[mem.w]] = mem.w] ELSE bundle
          /\ EndPass
       \/ /\ resolved /\ Local /\ TargetsHere(mem.w) /\ UNCHANGED bundle
          /\ GoTo("merge", [mem EXCEPT !.sas = sa, !.todo = Managed \cap Existing(sa)])
    /\ UNCHANGED <<scene, life, resolved, sa, pods, tally, installed, run, bounds>>

\* Fault: the copy is written back whatever happened meanwhile.
CurrentOrNot(s) == TRUE

\* The Update carries the version of the copy it was made from.
Current(s) == sa[s] = mem.sas[s]

\* mergeImagePullSecrets and its Update.
MergeSA(s) ==
    /\ pc = "merge" /\ s \in mem.todo
    /\ LET lacks == ~(Needs[mem.w] \subseteq mem.sas[s])
       IN  IF lacks /\ ~Current(s)
           THEN Errs /\ UNCHANGED sa
           ELSE /\ sa' = IF lacks
                          THEN [sa EXCEPT ![s] = mem.sas[s] \cup Needs[mem.w]] ELSE sa
                /\ GoTo("merge", [mem EXCEPT !.todo = @ \ {s},
                                             !.unsettled = @ \/ lacks])
    /\ UNCHANGED <<scene, life, resolved, pods, tally, fleet, bounds>>

ListPods ==
    /\ pc = "merge" /\ mem.todo = {}
    /\ GoTo("pods", [mem EXCEPT !.todo = Replicas])
    /\ UNCHANGED <<scene, life, resolved, sa, pods, tally, fleet, bounds>>

Turn(i) == pc = "pods" /\ i \in mem.todo

NextPod(i, more) ==
    GoTo("pods", [mem EXCEPT !.todo = @ \ {i}, !.pod = None, !.unsettled = @ \/ more])

\* A pod already failing and labelled by Helm is bounced, against a limit.
Bounces(q) == q.state = "failing" /\ chart.label

Recreatable(q, w) ==
    q.state \in {"pending", "started", "failing"} /\ ~Bounces(q) /\ Helps(q, w)

\* recreateForDeliveredSecret: one that has started something is watched until
\* its pull fails.
Watch(i) ==
    /\ Turn(i) /\ Recreatable(seen[i], mem.w) /\ seen[i].state = "started"
    /\ NextPod(i, TRUE)
    /\ UNCHANGED <<scene, life, resolved, sa, pods, tally, fleet, bounds>>

Recreate(i) ==
    /\ Turn(i) /\ Recreatable(seen[i], mem.w) /\ seen[i].state # "started"
    /\ pod' = Deleted(i, seen[i].gen)
    /\ NextPod(i, Found(i, seen[i].gen))
    /\ UNCHANGED <<scene, life, resolved, sa, seen, tally, fleet, bounds>>

\* bounceHelmLabelledPod: each pod is to count once.
Bounceable(i) ==
    /\ Bounces(seen[i]) /\ chart.owner = mem.w
    /\ last # <<i, seen[i].gen>> /\ count < MaxBounces

Skip(i) ==
    /\ Turn(i) /\ ~Recreatable(seen[i], mem.w) /\ ~Bounceable(i)
    /\ NextPod(i, FALSE)
    /\ UNCHANGED <<scene, life, resolved, sa, pods, tally, fleet, bounds>>

\* Fault: the pod goes first, and is counted afterwards.
CountLater(i) ==
    /\ Turn(i) /\ Bounceable(i)
    /\ pod' = Deleted(i, seen[i].gen) /\ spent' = spent + (IF Found(i, seen[i].gen) THEN 1 ELSE 0)
    /\ GoTo("delete", [mem EXCEPT !.pod = <<i, seen[i].gen>>])
    /\ UNCHANGED <<scene, life, resolved, sa, seen, count, last, fleet, bounds>>

\* incrementBounceCount
Count(i) ==
    /\ Turn(i) /\ Bounceable(i)
    /\ count' = count + 1
    /\ GoTo("delete", [mem EXCEPT !.pod = <<i, seen[i].gen>>])
    /\ UNCHANGED <<scene, life, resolved, sa, pods, last, spent, fleet, bounds>>

DeletePod ==
    /\ pc = "delete"
    /\ LET i == mem.pod[1]
           found == Found(i, mem.pod[2])
       IN  /\ pod' = Deleted(i, mem.pod[2])
           /\ spent' = spent + (IF found THEN 1 ELSE 0)
           /\ GoTo("record", [mem EXCEPT !.unsettled = @ \/ found])
    /\ UNCHANGED <<scene, life, resolved, sa, seen, count, last, fleet, bounds>>

\* recordBouncedPod
Record ==
    /\ pc = "record"
    /\ last' = mem.pod
    /\ NextPod(mem.pod[1], FALSE)
    /\ UNCHANGED <<scene, life, resolved, sa, pods, count, spent, fleet, bounds>>

Finish ==
    /\ pc = "pods" /\ mem.todo = {}
    /\ EndPass
    /\ UNCHANGED <<scene, life, resolved, sa, pods, tally, fleet, bounds>>

\* Any call may fail, and the pass with it.
Fails ==
    /\ \/ pc = "scope" /\ (Local => TargetsHere(mem.w))
       \/ pc \in {"delete", "record", "cleanup"}
       \/ pc \in {"merge", "pods", "prune"} /\ mem.todo # {}
    /\ Fault /\ Errs
    /\ UNCHANGED <<scene, life, resolved, sa, pods, tally, fleet, edits>>

-----------------------------------------------------------------------------
(* A deleted workload.                                                     *)

\* cleanupPullSecretBundles: the Bundles labelled with the workload.
Cleanup ==
    /\ pc = "cleanup"
    /\ bundle' = [n \in Names |-> IF bundle[n] = mem.w THEN None ELSE bundle[n]]
    /\ GoTo("prune", [mem EXCEPT !.sas = sa, !.todo = IF Local THEN Existing(sa) ELSE {}])
    /\ UNCHANGED <<scene, life, resolved, sa, pods, tally, installed, run, bounds>>

\* Fault: only the ServiceAccounts that are merged into are pruned, and one
\* that cannot be is passed over.
PruneLeniently(s) ==
    /\ pc = "prune" /\ s \in mem.todo
    /\ sa' = IF Current(s) /\ s \in Managed THEN [sa EXCEPT ![s] = @ \ Needs[mem.w]] ELSE sa
    /\ GoTo("prune", [mem EXCEPT !.todo = @ \ {s}])
    /\ UNCHANGED <<scene, life, resolved, pods, tally, fleet, bounds>>

\* pruneLocalSAImagePullSecrets: of the operator's cluster, wherever the
\* workload was installed and whoever else delivered the same names.
Prune(s) ==
    /\ pc = "prune" /\ s \in mem.todo
    /\ LET mutated == mem.sas[s] \cap Needs[mem.w] # {}
       IN  IF mutated /\ ~Current(s)
           THEN Errs /\ UNCHANGED sa
           ELSE /\ sa' = IF mutated THEN [sa EXCEPT ![s] = mem.sas[s] \ Needs[mem.w]] ELSE sa
                /\ GoTo("prune", [mem EXCEPT !.todo = @ \ {s}])
    /\ UNCHANGED <<scene, life, resolved, pods, tally, fleet, bounds>>

\* The finalizer is removed.
Release ==
    /\ pc = "prune" /\ mem.todo = {}
    /\ life' = [life EXCEPT ![mem.w] = "gone"]
    /\ EndPass
    /\ UNCHANGED <<scene, resolved, sa, pods, tally, fleet, bounds>>

-----------------------------------------------------------------------------
(* Fleet, and the merge script it brings downstream.                       *)

\* A Bundle that is removed takes its Job and CronJob along.
FleetApplies(n) ==
    /\ installed[n] # bundle[n]
    /\ installed' = [installed EXCEPT ![n] = bundle[n]]
    /\ run' = IF bundle[n] = None THEN [run EXCEPT ![n] = None] ELSE run
    /\ UNCHANGED <<scene, life, queues, resolved, sa, pods, tally, bundle, pc, mem, bounds>>

Script(n, r) == run' = [run EXCEPT ![n] = r]
ScriptOnly == UNCHANGED <<scene, life, queues, resolved, pods, tally, bundle, installed,
                          pc, mem, bounds>>

\* The Job after a change of the Bundle, the CronJob at any later time.
Tick(n) ==
    /\ installed[n] # None /\ run[n] = None
    /\ Script(n, [w |-> installed[n], todo |-> Managed \cap Existing(sa), at |-> None,
                  read |-> {}, patched |-> FALSE, pods |-> seen])
    /\ ScriptOnly /\ UNCHANGED sa

InSAs(n) == run[n] # None /\ run[n].todo \subseteq SAs

ReadSA(n, s) ==
    /\ InSAs(n) /\ s \in run[n].todo /\ run[n].at = None
    /\ Script(n, IF Needs[run[n].w] \subseteq sa[s]
                 THEN [run[n] EXCEPT !.todo = @ \ {s}]
                 ELSE [run[n] EXCEPT !.at = s, !.read = sa[s]])
    /\ ScriptOnly /\ UNCHANGED sa

\* Fault: the list is replaced by the secrets of the workload.
OnlyDesired(n) == Needs[run[n].w]

Union(n) == run[n].read \cup Needs[run[n].w]

\* The patch replaces the whole list by the union of what was read and what
\* is desired.
PatchSA(n) ==
    /\ InSAs(n) /\ run[n].at # None
    /\ sa' = [sa EXCEPT ![run[n].at] = Union(n)]
    /\ Script(n, [run[n] EXCEPT !.todo = @ \ {run[n].at}, !.at = None, !.read = {},
                                !.patched = TRUE])
    /\ ScriptOnly

\* The pods are listed once, and each has its turn; those of other workloads
\* are left alone.
ScriptLists(n) ==
    /\ InSAs(n) /\ run[n].todo = {}
    /\ Script(n, IF chart.owner = run[n].w
                 THEN [run[n] EXCEPT !.todo = Replicas, !.pods = pod] ELSE None)
    /\ ScriptOnly /\ UNCHANGED sa

\* Fault: whether an SA was patched is not asked.
BouncesAlways(n, q) == chart.label /\ q.state = "failing" /\ chart.owner = run[n].w

\* A labelled pod is also deleted for the sake of a patch of this run.
ScriptBounces(n, q) ==
    chart.label /\ q.state = "failing" /\ run[n].patched /\ chart.owner = run[n].w

ScriptDeletes(n, q) ==
    \/ q.state \in {"pending", "failing"} /\ Helps(q, run[n].w)
    \/ ScriptBounces(n, q)

ScriptPod(n, i) ==
    /\ run[n] # None /\ i \in run[n].todo
    /\ LET q == run[n].pods[i]
       IN  pod' = IF ScriptDeletes(n, q) THEN Deleted(i, q.gen) ELSE pod
    /\ Script(n, IF run[n].todo = {i} THEN None ELSE [run[n] EXCEPT !.todo = @ \ {i}])
    /\ UNCHANGED <<scene, life, queues, resolved, sa, seen, tally, bundle, installed,
                   pc, mem, bounds>>

\* set -e: the first call that fails ends the script.
ScriptFails(n) ==
    /\ run[n] # None /\ Fault /\ Script(n, None)
    /\ UNCHANGED <<scene, life, queues, resolved, sa, pods, tally, bundle, installed,
                   pc, mem, edits>>

-----------------------------------------------------------------------------
(* Pods, informers and everyone else.                                      *)

\* A pod without secrets of its own is admitted with its ServiceAccount's,
\* unless a webhook comes first.
Admitted ==
    LET mine == IF chart.own # {} THEN chart.own ELSE OnSA
    IN  IF chart.hook = {} THEN {mine} ELSE {chart.hook, mine \cup chart.hook}

NextGen(i) == 1 - pod[i].gen

\* A UID is taken again only when nobody holds a pod that had it.
Forgotten(i) ==
    /\ Local => seen[i].gen # NextGen(i)
    /\ mem # None => mem.pod # <<i, NextGen(i)>>
    /\ \A n \in Names : run[n] # None /\ ~InSAs(n) => run[n].pods[i].gen # NextGen(i)

Admit(i) ==
    /\ pod[i].state = "gone" /\ sa[chart.sa] # None /\ life[chart.owner] # "gone"
    /\ Forgotten(i)
    /\ \E own \in Admitted :
         pod' = [pod EXCEPT ![i] = [gen |-> NextGen(i), secrets |-> own,
                                    state |-> "pending"]]
    /\ last' = IF last = <<i, NextGen(i)>> THEN None ELSE last
    /\ UNCHANGED <<scene, life, queues, resolved, sa, seen, count, spent, fleet, pc, mem,
                   bounds>>

Becomes(i, state) ==
    /\ pod' = [pod EXCEPT ![i].state = state]
    /\ UNCHANGED <<scene, life, queues, resolved, sa, seen, tally, fleet, pc, mem, bounds>>

Starts(i) == pod[i].state = "pending" /\ Becomes(i, "started")

PullFails(i) == pod[i].state \in {"pending", "started"} /\ Becomes(i, "failing")

\* Pulls are tried again and again.
Pulled(i) ==
    /\ pod[i].state \in {"pending", "started", "failing"}
    /\ chart.pulls \subseteq pod[i].secrets /\ Becomes(i, "running")

Ends(i) == pod[i].state = "ending" /\ Becomes(i, "gone")

\* A container starts again and its image is gone from the node; Fleet, or
\* the poll of a Helm release, reports it.
PullsAgain(i) ==
    /\ edits < scene.edits /\ edits' = edits + 1
    /\ pod[i].state = "running"
    /\ pod' = [pod EXCEPT ![i].state = "failing"] /\ seen' = IF Local THEN [seen EXCEPT ![i] = pod'[i]] ELSE seen
    /\ event' = [event EXCEPT ![chart.owner] = TRUE]
    /\ UNCHANGED <<scene, life, due, resolved, sa, tally, fleet, pc, mem, faults>>

Sync(i) ==
    /\ Local /\ seen[i] # pod[i]
    /\ seen' = [seen EXCEPT ![i] = pod[i]]
    /\ UNCHANGED <<scene, life, queues, resolved, sa, pod, tally, fleet, pc, mem, bounds>>

\* A change of a ClusterRepo, of credentials, of the Bundle, or the poll.
Event(w) ==
    /\ pc = "idle" /\ (Local \/ bundle[BundleName[w]] # w)
    /\ ~event[w] /\ event' = [event EXCEPT ![w] = TRUE]
    /\ UNCHANGED <<scene, life, due, resolved, sa, pods, tally, fleet, pc, mem, bounds>>

Edit == edits < scene.edits /\ edits' = edits + 1 /\ UNCHANGED faults

Delete(w) ==
    /\ Edit /\ life[w] = "live"
    /\ life' = [life EXCEPT ![w] = "deleting"] /\ event' = [event EXCEPT ![w] = TRUE]
    /\ UNCHANGED <<scene, due, resolved, sa, pods, tally, fleet, pc, mem>>

\* The chart's ServiceAccount comes late; the release it belongs to reports.
CreateSA(s) ==
    /\ s = chart.sa /\ sa[s] = None
    /\ sa' = [sa EXCEPT ![s] = {}] /\ event' = [event EXCEPT ![chart.owner] = TRUE]
    /\ UNCHANGED <<scene, life, due, resolved, pods, tally, fleet, pc, mem, bounds>>

\* An administrator adds a pull secret to a ServiceAccount.
AddSecret(s, n) ==
    /\ Edit /\ sa[s] # None /\ n \notin sa[s]
    /\ sa' = [sa EXCEPT ![s] = @ \cup {n}]
    /\ UNCHANGED <<scene, life, queues, resolved, pods, tally, fleet, pc, mem>>

\* The Blueprint is deleted or created.
Toggle ==
    /\ Edit /\ resolved' = ~resolved /\ event' = [w \in Workloads |-> TRUE]
    /\ UNCHANGED <<scene, life, due, sa, pods, tally, fleet, pc, mem>>

Restart ==
    /\ Fault /\ pc' = "idle" /\ mem' = None
    /\ event' = [w \in Workloads |-> TRUE] /\ due' = [w \in Workloads |-> FALSE]
    /\ seen' = IF Local THEN pod ELSE seen
    /\ UNCHANGED <<scene, life, resolved, sa, pod, tally, fleet, edits>>

-----------------------------------------------------------------------------
PassStep ==
    \/ \E w \in Workloads : Begin(w)
    \/ Deliver \/ ListPods \/ DeletePod \/ Record \/ Finish \/ Fails
    \/ \E s \in SAs : MergeSA(s) \/ Prune(s)
    \/ \E i \in Replicas : Watch(i) \/ Recreate(i) \/ Skip(i) \/ Count(i)
    \/ Cleanup \/ Release

ScriptStep(n) ==
    \/ Tick(n) \/ PatchSA(n) \/ ScriptLists(n) \/ ScriptFails(n)
    \/ \E s \in SAs : ReadSA(n, s)
    \/ \E i \in Replicas : ScriptPod(n, i)

PodStep(i) == Admit(i) \/ PullFails(i) \/ Pulled(i) \/ Ends(i)

Next ==
    \/ PassStep \/ Toggle \/ Restart
    \/ \E n \in Names : ScriptStep(n) \/ FleetApplies(n)
    \/ \E i \in Replicas : PodStep(i) \/ Starts(i) \/ PullsAgain(i) \/ Sync(i)
    \/ \E w \in Workloads : Event(w) \/ Delete(w)
    \/ \E s \in SAs : CreateSA(s) \/ \E x \in Foreign : AddSecret(s, x)

Spec == Init /\ [][Next]_vars

\* The work queue, the CronJob's schedule, Fleet, the informers and the pods'
\* controller and kubelet go on.
Fairness ==
    /\ WF_vars(PassStep)
    /\ \A n \in Names : WF_vars(ScriptStep(n)) /\ WF_vars(FleetApplies(n))
    /\ \A i \in Replicas : WF_vars(Sync(i)) /\ WF_vars(PodStep(i))
LiveSpec == Spec /\ Fairness

-----------------------------------------------------------------------------
(* Properties.                                                             *)

Owner == chart.owner

\* A pod of a live workload that only waits to be deleted: admitted without
\* a secret it can have.
Stuck(i) ==
    /\ pod[i].state \in {"pending", "failing"} /\ Helps(pod[i], Owner)
    /\ ~(Local /\ Bounces(pod[i]) /\ count = MaxBounces)

SAServed == chart.sa \in Managed /\ sa[chart.sa] # None => Needs[Owner] \subseteq OnSA

\* The controller of a pod that cannot pull is given MaxBounces pods at most,
\* wherever a pass was cut off (chartPodMaxBounces).
BouncesAreBounded == spent <= MaxBounces

\* What a webhook gives pods is nothing their ServiceAccount may have as well:
\* otherwise a pod whose list the webhook replaced looks like one admitted early.
HookApart == chart.hook \cap (Delivered \cup Foreign) = {}

\* The operator is at rest with a workload only when its ServiceAccount has
\* what the workload needs and no pod waits for it, as long as no call failed
\* and no other workload was deleted in the namespace.  (It needs that no other
\* workload merges all the same secrets before it.)
RestIsServed ==
    /\ HookApart /\ Local /\ pc = "idle" /\ ~event[Owner] /\ ~due[Owner]
    /\ TargetsHere(Owner) /\ resolved /\ faults = 0
    /\ \A w \in Workloads : life[w] = "live"
    => SAServed /\ \A i \in Replicas : ~Stuck(i)

\* What a deleted workload alone delivered is withdrawn with it: from every
\* ServiceAccount of the operator's cluster, and from Fleet.
GoneIsWithdrawn ==
    \A w \in Workloads : life[w] = "gone" =>
        /\ \A n \in Names : bundle[n] # w
        /\ Local => \A s \in Existing(sa) :
             sa[s] \cap (Needs[w] \ UNION {Needs[v] : v \in Workloads \ {w}}) = {}

\* The operator never takes a secret from a ServiceAccount that it did not
\* deliver, nor undoes an administrator's edit.
ForeignIsKept ==
    [][Local => \A s \in Existing(sa) : sa[s] \ Delivered \subseteq sa'[s]]_vars

\* Neither the pass nor the scripts delete pods for ever ("these stop on their
\* own"), whatever the controller's kind, labels and secrets: those of a webhook
\* set apart, which make each new pod as worth deleting as the last.
PodDeletionsEnd ==
    HookApart =>
        <>[][\A i \in Replicas : pod'[i].state = "ending" => pod[i].state = "ending"]_vars

\* The workload's secrets arrive and stay, and no pod stays behind: where passes
\* come again, and downstream without them, although scripts overwrite each
\* other's patches.
SecretsArrive ==
    /\ [](\A w \in Workloads : life[w] = "live") /\ TargetsHere(Owner) /\ HookApart
    /\ <>[]resolved
    /\ Local => []<>(pc = "scope" /\ mem.w = Owner)
    => <>[](SAServed /\ \A i \in Replicas : ~Stuck(i))
=============================================================================

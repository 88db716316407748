-------------------------- MODULE PullSecretsProofs --------------------------
(***************************************************************************)
(* Theorems about PullSecrets for every set of workloads, secrets,         *)
(* ServiceAccounts and pods, and every choice of scenes: type correctness; *)
(* the limit on bounced pods; nobody else's secret is taken; what a        *)
(* deleted workload alone delivered is withdrawn; and the operator is at   *)
(* rest with a workload only when its pods have their secrets.             *)
(***************************************************************************)
EXTENDS PullSecrets, TLAPS

-----------------------------------------------------------------------------
(* Types.                                                                  *)

\* What a pass goes on with.
LEMMA PassTypes ==
    ASSUME NEW m \in Passes
    PROVE  /\ \A x : [m EXCEPT !.todo = @ \ {x}] \in Passes
           /\ \A a \in Accounts, t \in SUBSET (SAs \cup Replicas) :
                [m EXCEPT !.sas = a, !.todo = t] \in Passes
           /\ [m EXCEPT !.todo = Replicas] \in Passes
           /\ \A p \in Copies : [m EXCEPT !.pod = p] \in Passes
           /\ \A u \in BOOLEAN :
                /\ [m EXCEPT !.unsettled = @ \/ u] \in Passes
                /\ \A x : /\ [m EXCEPT !.todo = @ \ {x}, !.unsettled = @ \/ u] \in Passes
                          /\ [m EXCEPT !.todo = @ \ {x}, !.pod = None, !.unsettled = @ \/ u] \in Passes
  BY DEF Passes

\* What a run of the script goes on with.
LEMMA RunTypes ==
    ASSUME NEW r \in Runs
    PROVE  /\ \A x : [r EXCEPT !.todo = @ \ {x}] \in Runs
           /\ \A s \in SAs, a \in SUBSET Secrets : [r EXCEPT !.at = s, !.read = a] \in Runs
           /\ [r EXCEPT !.todo = @ \ {r.at}, !.at = None, !.read = {}, !.patched = TRUE] \in Runs
           /\ \A q \in [Replicas -> Pods] : [r EXCEPT !.todo = Replicas, !.pods = q] \in Runs
  BY DEF Runs

\* A pod in another state is a pod.
LEMMA PodTypes ==
    ASSUME NEW q \in [Replicas -> Pods], NEW i \in Replicas, NEW state \in PodStates
    PROVE  [q EXCEPT ![i].state = state] \in [Replicas -> Pods]
  <1>1. [q[i] EXCEPT !.state = state] \in Pods
    BY DEF Pods
  <1> QED BY <1>1

\* Deleting a pod leaves pods.
LEMMA DeletedTypes ==
    ASSUME TypeOK, NEW i \in Replicas, NEW gen
    PROVE  Deleted(i, gen) \in [Replicas -> Pods] /\ Found(i, gen) \in BOOLEAN
  BY PodTypes DEF Deleted, Found, TypeOK, PodStates

\* What a pass under way holds.
LEMMA Held ==
    ASSUME TypeOK, pc # "idle"
    PROVE  /\ mem \in Passes /\ mem # None /\ mem.w \in Workloads /\ mem.sas \in Accounts
           /\ mem.todo \subseteq SAs \cup Replicas /\ mem.pod \in Copies \cup {None}
           /\ mem.unsettled \in BOOLEAN /\ Needs[mem.w] \subseteq Secrets
  BY SetsAssumption DEF TypeOK, Passes

\* The next stage of a pass.
LEMMA Goes ==
    ASSUME NEW stage \in Stages \ {"idle"}, NEW m \in Passes, GoTo(stage, m)
    PROVE  /\ pc' \in Stages /\ mem' \in Passes \cup {None} /\ (mem' = None) = (pc' = "idle")
           /\ UNCHANGED <<event, due>>
  BY NoneAssumption DEF GoTo, queues

\* The end of a pass.
LEMMA Ended ==
    ASSUME TypeOK, pc # "idle", EndPass \/ Errs
    PROVE  /\ pc' \in Stages /\ mem' \in Passes \cup {None} /\ (mem' = None) = (pc' = "idle")
           /\ event' \in [Workloads -> BOOLEAN] /\ due' \in [Workloads -> BOOLEAN]
           /\ pc' = "idle"
  BY Held DEF EndPass, Errs, Stages, TypeOK

\* A changed ServiceAccount.
LEMMA AccountTypes ==
    ASSUME NEW a \in Accounts, NEW s \in SAs, NEW b \in SUBSET Secrets
    PROVE  [a EXCEPT ![s] = b] \in Accounts
  BY DEF Accounts

\* The start is well formed.
LEMMA InitTypes == Init => TypeOK
  BY SetsAssumption DEF Init, TypeOK, Accounts, Pods, PodStates, Gens, Stages, Names, Copies

\* What a pass or a run of the script is about to touch is there.
Aimed ==
    /\ pc \in {"delete", "record"} => mem.pod \in Copies
    /\ pc \in {"merge", "prune"} => \A s \in SAs \cap mem.todo : mem.sas[s] # None
    /\ \A n \in Names : run[n] # None => \A s \in SAs \cap run[n].todo : sa[s] # None

TypeInv == TypeOK /\ Aimed

\* It holds at the start.
LEMMA InitTypeInv == Init => TypeInv
  BY InitTypes DEF Init, TypeInv, Aimed, Names

\* A pass that ends, or goes on, and touches nothing else.
LEMMA PassEnds ==
    ASSUME TypeInv, pc # "idle", EndPass \/ Errs,
           UNCHANGED <<scene, life, resolved, sa, pods, tally, installed, run>>,
           bundle' \in [Names -> Workloads \cup {None}], edits' \in Nat, faults' \in Nat
    PROVE  TypeInv'
  BY Ended DEF TypeInv, TypeOK, Aimed, pods, tally

\* A pass that goes on, with what it holds.
LEMMA PassGoes ==
    ASSUME TypeInv, NEW stage \in Stages \ {"idle"}, NEW m \in Passes, GoTo(stage, m),
           stage \in {"delete", "record"} => m.pod \in Copies,
           stage \in {"merge", "prune"} => \A s \in SAs \cap m.todo : m.sas[s] # None,
           UNCHANGED <<scene, life, resolved, seen, installed, run, bounds>>,
           sa' \in Accounts, \A s \in SAs : sa[s] # None => sa'[s] # None,
           pod' \in [Replicas -> Pods], count' \in Nat, spent' \in Nat,
           last' \in Copies \cup {None}, bundle' \in [Names -> Workloads \cup {None}]
    PROVE  TypeInv'
  <1>1. mem' = m /\ pc' = stage
    BY DEF GoTo
  <1> QED
    BY <1>1, Goes DEF TypeInv, TypeOK, Aimed, bounds

\* A step outside the pass and the scripts.
LEMMA OutsideTypes ==
    ASSUME TypeInv, UNCHANGED <<scene, pc, mem, bundle, tally>>,
           life' \in [Workloads -> {"live", "deleting", "gone"}],
           event' \in [Workloads -> BOOLEAN], due' \in [Workloads -> BOOLEAN],
           resolved' \in BOOLEAN, sa' \in Accounts,
           \A s \in SAs : sa[s] # None => sa'[s] # None,
           pod' \in [Replicas -> Pods], seen' \in [Replicas -> Pods],
           installed' \in [Names -> Workloads \cup {None}],
           run' \in [Names -> Runs \cup {None}],
           \A n \in Names : run'[n] # None =>
               \/ run[n] # None /\ run'[n].todo \cap SAs \subseteq run[n].todo
               \/ \A s \in SAs \cap run'[n].todo : sa[s] # None,
           edits' \in Nat, faults' \in Nat
    PROVE  TypeInv'
  BY DEF TypeInv, TypeOK, Aimed, tally

\* Every step of a pass keeps the types.
LEMMA PassStepTypes ==
    ASSUME TypeInv, PassStep
    PROVE  TypeInv'
  <1> TypeOK BY DEF TypeInv
  <1>1. ASSUME NEW x \in Workloads, Begin(x) PROVE TypeInv'
    <2> DEFINE m == [w |-> x, sas |-> sa, todo |-> {}, pod |-> None, unsettled |-> FALSE]
    <2>1. m \in Passes
      BY DEF Passes, TypeOK
    <2>2. /\ mem' = m /\ pc' \in {"scope", "cleanup"}
          /\ event' \in [Workloads -> BOOLEAN] /\ due' \in [Workloads -> BOOLEAN]
          /\ UNCHANGED <<scene, life, resolved, sa, pods, tally, fleet, bounds>>
      BY <1>1 DEF Begin, TypeOK
    <2> QED
      BY <2>1, <2>2, NoneAssumption DEF TypeInv, TypeOK, Aimed, Stages, pods, tally, fleet, bounds
  <1>2. CASE Deliver
    <2>0. pc # "idle" /\ UNCHANGED <<scene, life, resolved, sa, pods, tally, installed, run, bounds>>
      BY <1>2 DEF Deliver
    <2>1. CASE UNCHANGED bundle /\ EndPass
      BY <2>0, <2>1, PassEnds DEF TypeOK, bounds
    <2>2. CASE (bundle' = IF TargetsHere(mem.w)
                         THEN [bundle EXCEPT ![BundleName[mem.w]] = mem.w] ELSE bundle) /\ EndPass
      <3>1. bundle' \in [Names -> Workloads \cup {None}]
        BY <2>0, <2>2, Held DEF Names, TypeOK
      <3> QED BY <2>0, <2>2, <3>1, PassEnds DEF TypeOK, bounds
    <2>3. CASE UNCHANGED bundle
               /\ GoTo("merge", [mem EXCEPT !.sas = sa, !.todo = Managed \cap Existing(sa)])
      <3> DEFINE m == [mem EXCEPT !.sas = sa, !.todo = Managed \cap Existing(sa)]
      <3>1. m \in Passes
        BY <2>0, Held, PassTypes DEF Existing, TypeOK
      <3>2. \A s \in SAs \cap m.todo : m.sas[s] # None
        BY <2>0, Held DEF Existing, Passes
      <3> QED BY <2>0, <2>3, <3>1, <3>2, PassGoes DEF pods, tally, Stages, TypeOK
    <2> QED BY <1>2, <2>1, <2>2, <2>3 DEF Deliver
  <1>3. CASE ListPods
    <2>1. [mem EXCEPT !.todo = Replicas] \in Passes
      BY <1>3, Held, PassTypes DEF ListPods
    <2> QED BY <1>3, <2>1, PassGoes DEF ListPods, Stages, pods, tally, fleet, TypeOK
  <1>4. CASE DeletePod
    <2>1. /\ pc = "delete" /\ mem.pod \in Copies /\ mem \in Passes
          /\ UNCHANGED <<scene, life, resolved, sa, seen, count, last, fleet, bounds>>
      BY <1>4, Held DEF DeletePod, TypeInv, Aimed
    <2> DEFINE found == Found(mem.pod[1], mem.pod[2])
               m == [mem EXCEPT !.unsettled = @ \/ found]
    <2>2. mem.pod[1] \in Replicas
      BY <2>1 DEF Copies
    <2>3. found \in BOOLEAN /\ Deleted(mem.pod[1], mem.pod[2]) \in [Replicas -> Pods]
      BY <2>2, DeletedTypes
    <2>4. m \in Passes /\ m.pod = mem.pod
      BY <2>1, <2>3, PassTypes DEF Passes
    <2>5. /\ pod' = Deleted(mem.pod[1], mem.pod[2]) /\ GoTo("record", m)
          /\ spent' = spent + (IF found THEN 1 ELSE 0)
      BY <1>4 DEF DeletePod
    <2> HIDE DEF m, found
    <2>6. spent' \in Nat
      BY <2>5 DEF TypeOK
    <2> QED BY <2>1, <2>3, <2>4, <2>5, <2>6, PassGoes DEF fleet, TypeOK, Stages
  <1>5. CASE Record
    <2>1. /\ pc = "record" /\ mem.pod \in Copies /\ mem \in Passes /\ last' = mem.pod
          /\ UNCHANGED <<scene, life, resolved, sa, pods, count, spent, fleet, bounds>>
          /\ NextPod(mem.pod[1], FALSE)
      BY <1>5, Held DEF Record, TypeInv, Aimed
    <2>2. [mem EXCEPT !.todo = @ \ {mem.pod[1]}, !.pod = None, !.unsettled = @ \/ FALSE] \in Passes
      BY <2>1, PassTypes
    <2> QED BY <2>1, <2>2, PassGoes DEF NextPod, fleet, pods, TypeOK, Stages
  <1>6. CASE Finish \/ Fails
    <2>1. /\ pc # "idle" /\ (EndPass \/ Errs)
          /\ UNCHANGED <<scene, life, resolved, sa, pods, tally, fleet, edits>>
          /\ faults' \in Nat
      BY <1>6 DEF Finish, Fails, Fault, bounds, TypeOK
    <2> QED BY <2>1, PassEnds DEF fleet, TypeOK
  <1>7. ASSUME NEW s \in SAs, MergeSA(s) \/ Prune(s) PROVE TypeInv'
    <2>1. /\ pc \in {"merge", "prune"} /\ s \in mem.todo /\ mem \in Passes /\ mem.sas[s] # None
          /\ UNCHANGED <<scene, life, resolved, pods, tally, fleet, bounds>>
      BY <1>7, Held DEF MergeSA, Prune, TypeInv, Aimed
    <2>2. CASE Errs /\ UNCHANGED sa
      BY <2>1, <2>2, PassEnds DEF fleet, bounds, TypeOK
    <2>3. CASE ~(Errs /\ UNCHANGED sa)
      <3>1. mem.sas[s] \in SUBSET Secrets /\ Needs[mem.w] \subseteq Secrets
        BY <2>1, Held DEF Accounts
      <3>2. /\ sa' \in {sa, [sa EXCEPT ![s] = mem.sas[s] \cup Needs[mem.w]],
                        [sa EXCEPT ![s] = mem.sas[s] \ Needs[mem.w]]}
        BY <1>7, <2>3 DEF MergeSA, Prune
      <3>3. sa' \in Accounts
        BY <3>1, <3>2, AccountTypes, SMTT(30) DEF TypeOK
      <3>4. \A x \in SAs : sa[x] # None => sa'[x] # None
        BY <3>1, <3>2, SetsAssumption DEF TypeOK, Accounts
      <3>5. PICK u \in BOOLEAN : \E m : /\ GoTo(pc, m)
                        /\ m \in {[mem EXCEPT !.todo = @ \ {s}, !.unsettled = @ \/ u],
                                  [mem EXCEPT !.todo = @ \ {s}]}
        <4>1. CASE MergeSA(s)
          <5> DEFINE u == ~(Needs[mem.w] \subseteq mem.sas[s])
          <5>1. u \in BOOLEAN OBVIOUS
          <5>2. GoTo(pc, [mem EXCEPT !.todo = @ \ {s}, !.unsettled = @ \/ u])
            BY <2>3, <4>1 DEF MergeSA
          <5> HIDE DEF u
          <5> QED BY <5>1, <5>2
        <4>2. CASE Prune(s)
          BY <2>3, <4>2 DEF Prune
        <4> QED BY <1>7, <4>1, <4>2
      <3>6. PICK m : /\ GoTo(pc, m)
                     /\ m \in {[mem EXCEPT !.todo = @ \ {s}, !.unsettled = @ \/ u],
                               [mem EXCEPT !.todo = @ \ {s}]}
        BY <3>5
      <3>7. m \in Passes /\ m.sas = mem.sas /\ m.todo = mem.todo \ {s}
        <4>1. CASE m = [mem EXCEPT !.todo = @ \ {s}, !.unsettled = @ \/ u]
          <5>1. m \in Passes BY <2>1, <4>1, PassTypes
          <5>2. m.sas = mem.sas BY <2>1, <4>1 DEF Passes
          <5>3. m.todo = mem.todo \ {s} BY <2>1, <4>1 DEF Passes
          <5> QED BY <5>1, <5>2, <5>3
        <4>2. CASE m = [mem EXCEPT !.todo = @ \ {s}]
          <5>1. m \in Passes BY <2>1, <4>2, PassTypes
          <5> QED BY <2>1, <4>2, <5>1 DEF Passes
        <4> QED BY <3>6, <4>1, <4>2
      <3>8. \A x \in SAs \cap m.todo : m.sas[x] # None
        BY <2>1, <3>7 DEF TypeInv, Aimed
      <3> QED
        BY <2>1, <3>3, <3>4, <3>6, <3>7, <3>8, PassGoes DEF pods, tally, fleet, TypeOK, Stages
    <2> QED BY <2>2, <2>3
  <1>8. ASSUME NEW i \in Replicas, Watch(i) \/ Recreate(i) \/ Skip(i) \/ Count(i) PROVE TypeInv'
    <2>1. /\ pc = "pods" /\ mem \in Passes
          /\ UNCHANGED <<scene, life, resolved, sa, seen, last, spent, fleet, bounds>>
      BY <1>8, Held DEF Watch, Recreate, Skip, Count, Turn, pods, tally
    <2>2. pod' \in [Replicas -> Pods] /\ count' \in Nat
      <3>1. Watch(i) \/ Skip(i) => UNCHANGED <<pod, count>>
        BY DEF Watch, Skip, pods, tally
      <3>2. Recreate(i) => UNCHANGED count /\ pod' = Deleted(i, seen[i].gen)
        BY DEF Recreate, tally
      <3>3. Count(i) => UNCHANGED pod /\ count' = count + 1
        BY DEF Count, pods
      <3>4. Deleted(i, seen[i].gen) \in [Replicas -> Pods]
        BY DeletedTypes
      <3> QED BY <1>8, <3>1, <3>2, <3>3, <3>4 DEF TypeOK
    <2>3. \A u \in BOOLEAN : NextPod(i, u) => TypeInv'
      <3> TAKE u \in BOOLEAN
      <3>1. [mem EXCEPT !.todo = @ \ {i}, !.pod = None, !.unsettled = @ \/ u] \in Passes
        BY <2>1, PassTypes
      <3> QED BY <2>1, <2>2, <3>1, PassGoes DEF NextPod, fleet, TypeOK, Stages
    <2>4. CASE Watch(i) \/ Skip(i)
      <3>1. NextPod(i, TRUE) \/ NextPod(i, FALSE)
        BY <2>4 DEF Watch, Skip
      <3> QED BY <2>3, <3>1
    <2>5. CASE Recreate(i)
      <3>1. Found(i, seen[i].gen) \in BOOLEAN
        BY DeletedTypes
      <3> QED BY <2>3, <2>5, <3>1 DEF Recreate
    <2>6. CASE Count(i)
      <3> DEFINE m == [mem EXCEPT !.pod = <<i, seen[i].gen>>]
      <3>1. <<i, seen[i].gen>> \in Copies
        BY DEF TypeOK, Pods, Copies
      <3>2. m \in Passes /\ m.pod \in Copies
        BY <2>1, <3>1, PassTypes DEF Passes
      <3>3. GoTo("delete", m)
        BY <2>6 DEF Count
      <3> HIDE DEF m
      <3> QED BY <2>1, <2>2, <3>2, <3>3, PassGoes DEF fleet, TypeOK, Stages
    <2> QED BY <1>8, <2>4, <2>5, <2>6
  <1>9. CASE Cleanup
    <2> DEFINE m == [mem EXCEPT !.sas = sa, !.todo = IF Local THEN Existing(sa) ELSE {}]
    <2>1. /\ pc = "cleanup" /\ mem \in Passes /\ GoTo("prune", m)
          /\ UNCHANGED <<scene, life, resolved, sa, pods, tally, installed, run, bounds>>
      BY <1>9, Held DEF Cleanup
    <2>2. m \in Passes
      BY <2>1, PassTypes DEF Existing, TypeOK
    <2>3. \A s \in SAs \cap m.todo : m.sas[s] # None
      BY <2>1 DEF Existing, Passes
    <2>4. bundle' \in [Names -> Workloads \cup {None}]
      BY <1>9 DEF Cleanup, TypeOK
    <2> HIDE DEF m
    <2> QED BY <2>1, <2>2, <2>3, <2>4, PassGoes DEF pods, tally, TypeOK, Stages
  <1>10. CASE Release
    <2>1. /\ pc = "prune" /\ EndPass /\ life' = [life EXCEPT ![mem.w] = "gone"]
          /\ UNCHANGED <<scene, resolved, sa, pods, tally, fleet, bounds>>
      BY <1>10 DEF Release
    <2>2. life' \in [Workloads -> {"live", "deleting", "gone"}]
      BY <2>1 DEF TypeOK
    <2> QED
      BY <2>1, <2>2, Ended DEF TypeInv, TypeOK, Aimed, pods, tally, fleet, bounds
  <1> QED
    BY <1>1, <1>2, <1>3, <1>4, <1>5, <1>6, <1>7, <1>8, <1>9, <1>10 DEF PassStep

\* Every step of a script keeps the types.
LEMMA ScriptStepTypes ==
    ASSUME TypeInv, NEW n \in Names, ScriptStep(n)
    PROVE  TypeInv'
  <1> TypeOK BY DEF TypeInv
  <1> DEFINE Still == /\ UNCHANGED <<scene, life, queues, resolved, seen, tally, bundle, installed,
                                     pc, mem>>
                      /\ edits' \in Nat /\ faults' \in Nat
  <1>0. run[n] # None => run[n] \in Runs
    BY DEF TypeOK
  <1>1. ASSUME Still, sa' \in Accounts, \A s \in SAs : sa[s] # None => sa'[s] # None,
               pod' \in [Replicas -> Pods], NEW r \in Runs \cup {None}, Script(n, r),
               r # None => \/ run[n] # None /\ r.todo \cap SAs \subseteq run[n].todo
                           \/ \A s \in SAs \cap r.todo : sa[s] # None
        PROVE  TypeInv'
    <2>1. run' = [run EXCEPT ![n] = r] /\ run' \in [Names -> Runs \cup {None}]
      BY <1>1 DEF Script, TypeOK
    <2>2. \A k \in Names : run'[k] # None =>
               \/ run[k] # None /\ run'[k].todo \cap SAs \subseteq run[k].todo
               \/ \A s \in SAs \cap run'[k].todo : sa[s] # None
      BY <1>1, <2>1 DEF TypeOK
    <2> QED BY <1>1, <2>1, <2>2, OutsideTypes DEF queues, TypeOK
  <1>2. CASE Tick(n)
    <2> DEFINE r == [w |-> installed[n], todo |-> Managed \cap Existing(sa), at |-> None,
                     read |-> {}, patched |-> FALSE, pods |-> seen]
    <2>1. /\ Still /\ UNCHANGED <<sa, pod>> /\ Script(n, r) /\ installed[n] \in Workloads
      BY <1>2 DEF Tick, ScriptOnly, pods, bounds, TypeOK
    <2>2. r \in Runs /\ \A s \in SAs \cap r.todo : sa[s] # None
      BY <2>1 DEF Runs, Existing, TypeOK
    <2> HIDE DEF r
    <2> QED BY <1>1, <2>1, <2>2 DEF TypeOK
  <1>3. ASSUME NEW s \in SAs, ReadSA(n, s) PROVE TypeInv'
    <2>1. /\ Still /\ UNCHANGED <<sa, pod>> /\ run[n] \in Runs /\ sa[s] # None /\ run[n] # None
      BY <1>0, <1>3 DEF ReadSA, InSAs, ScriptOnly, pods, bounds, TypeOK, TypeInv, Aimed
    <2>2. PICK r \in {[run[n] EXCEPT !.todo = @ \ {s}],
                      [run[n] EXCEPT !.at = s, !.read = sa[s]]} : Script(n, r)
      BY <1>3 DEF ReadSA
    <2>3. sa[s] \in SUBSET Secrets
      BY <2>1 DEF TypeOK, Accounts
    <2>4. r \in Runs
      <3>1. [run[n] EXCEPT !.todo = @ \ {s}] \in Runs
        BY <2>1, RunTypes
      <3>2. [run[n] EXCEPT !.at = s, !.read = sa[s]] \in Runs
        BY <2>1, <2>3, RunTypes
      <3> QED BY <2>2, <3>1, <3>2
    <2>5. r.todo \subseteq run[n].todo
      BY <2>1, <2>2 DEF Runs
    <2> QED BY <1>1, <2>1, <2>2, <2>4, <2>5 DEF TypeOK
  <1>4. CASE PatchSA(n)
    <2> DEFINE r == [run[n] EXCEPT !.todo = @ \ {run[n].at}, !.at = None, !.read = {},
                                   !.patched = TRUE]
    <2>1. /\ Still /\ UNCHANGED pod /\ run[n] # None /\ run[n].at # None /\ Script(n, r)
          /\ sa' = [sa EXCEPT ![run[n].at] = Union(n)]
      BY <1>4 DEF PatchSA, InSAs, ScriptOnly, pods, bounds, TypeOK
    <2>2. r \in Runs /\ r.todo \subseteq run[n].todo
      BY <1>0, <2>1, RunTypes DEF Runs
    <2>3. Union(n) \in SUBSET Secrets /\ run[n].at \in SAs
      BY <1>0, <2>1, SetsAssumption DEF Union, Runs
    <2>4. sa' \in Accounts
      BY <2>1, <2>3, AccountTypes DEF TypeOK
    <2>5. \A s \in SAs : sa[s] # None => sa'[s] # None
      BY <2>1, <2>3, SetsAssumption DEF TypeOK, Accounts
    <2> HIDE DEF r
    <2> QED BY <1>1, <2>1, <2>2, <2>4, <2>5 DEF TypeOK
  <1>5. CASE ScriptLists(n)
    <2> DEFINE r == [run[n] EXCEPT !.todo = Replicas, !.pods = pod]
    <2>1. /\ Still /\ UNCHANGED <<sa, pod>> /\ run[n] # None /\ (Script(n, r) \/ Script(n, None))
      BY <1>5 DEF ScriptLists, InSAs, ScriptOnly, pods, bounds, TypeOK
    <2>2. r \in Runs /\ r.todo = Replicas
      BY <1>0, <2>1, RunTypes DEF Runs, TypeOK
    <2>3. \A s \in SAs \cap r.todo : sa[s] # None
      BY <2>2, SetsAssumption
    <2> HIDE DEF r
    <2>4. CASE Script(n, r)
      BY <1>1, <2>1, <2>2, <2>3, <2>4 DEF TypeOK
    <2>5. CASE Script(n, None)
      BY <1>1, <2>1, <2>5 DEF TypeOK
    <2> QED BY <2>1, <2>4, <2>5
  <1>6. ASSUME NEW i \in Replicas, ScriptPod(n, i) PROVE TypeInv'
    <2> DEFINE r == [run[n] EXCEPT !.todo = @ \ {i}]
    <2>1. /\ Still /\ UNCHANGED sa /\ run[n] # None /\ (Script(n, r) \/ Script(n, None))
          /\ pod' \in {pod, Deleted(i, run[n].pods[i].gen)}
      BY <1>6 DEF ScriptPod, bounds, TypeOK
    <2>2. pod' \in [Replicas -> Pods]
      BY <2>1, DeletedTypes DEF TypeOK
    <2>3. r \in Runs /\ r.todo \subseteq run[n].todo
      BY <1>0, <2>1, RunTypes DEF Runs
    <2> HIDE DEF r
    <2>4. CASE Script(n, r)
      BY <1>1, <2>1, <2>2, <2>3, <2>4 DEF TypeOK
    <2>5. CASE Script(n, None)
      BY <1>1, <2>1, <2>2, <2>5 DEF TypeOK
    <2> QED BY <2>1, <2>4, <2>5
  <1>7. CASE ScriptFails(n)
    BY <1>1, <1>7 DEF ScriptFails, Fault, pods, TypeOK
  <1> QED
    BY <1>2, <1>3, <1>4, <1>5, <1>6, <1>7 DEF ScriptStep

\* So do the pods' controller, the informers, Fleet and everyone else.
LEMMA OtherTypes ==
    ASSUME TypeInv
    PROVE  /\ \A i \in Replicas, state \in PodStates : Becomes(i, state) => TypeInv'
           /\ \A i \in Replicas : (PullsAgain(i) => TypeInv') /\ (Sync(i) => TypeInv')
           /\ \A s \in SAs : CreateSA(s) => TypeInv'
           /\ \A s \in SAs, x \in Secrets : AddSecret(s, x) => TypeInv'
  <1> TypeOK BY DEF TypeInv
  <1> USE DEF TypeOK, pods, queues, tally, fleet, bounds
  <1>3. ASSUME NEW i \in Replicas, NEW state \in PodStates, Becomes(i, state) PROVE TypeInv'
    <2>1. [pod EXCEPT ![i].state = state] \in [Replicas -> Pods]
      BY PodTypes
    <2> QED BY <1>3, <2>1, OutsideTypes DEF Becomes
  <1>4. ASSUME NEW i \in Replicas, PullsAgain(i) PROVE TypeInv'
    <2> DEFINE p == [pod EXCEPT ![i].state = "failing"]
    <2>1. p \in [Replicas -> Pods]
      BY PodTypes DEF PodStates
    <2>2. /\ pod' \in [Replicas -> Pods] /\ edits' \in Nat
          /\ event' \in [Workloads -> BOOLEAN]
          /\ UNCHANGED <<scene, life, due, resolved, sa, tally, fleet, pc, mem, faults>>
      <3>1. /\ pod' = p /\ edits' = edits + 1
            /\ event' = [event EXCEPT ![chart.owner] = TRUE]
            /\ UNCHANGED <<scene, life, due, resolved, sa, tally, fleet, pc, mem, faults>>
        BY <1>4 DEF PullsAgain
      <3> HIDE DEF p
      <3>2. pod' \in [Replicas -> Pods]
        BY <2>1, <3>1
      <3>3. event' \in [Workloads -> BOOLEAN]
        BY <3>1
      <3>4. edits' \in Nat
        BY <3>1
      <3> QED BY <3>1, <3>2, <3>3, <3>4
    <2>3. seen' = IF Local THEN [seen EXCEPT ![i] = pod'[i]] ELSE seen
      BY <1>4 DEF PullsAgain
    <2>4. seen' \in [Replicas -> Pods]
      BY <2>2, <2>3
    <2> QED BY <2>2, <2>4, OutsideTypes
  <1>5. ASSUME NEW i \in Replicas, Sync(i) PROVE TypeInv'
    BY <1>5, OutsideTypes DEF Sync
  <1>6. ASSUME NEW s \in SAs, CreateSA(s) PROVE TypeInv'
    <2>2. sa' = [sa EXCEPT ![s] = {}] /\ sa' \in Accounts
      BY <1>6, AccountTypes DEF CreateSA
    <2>3. \A y \in SAs : sa[y] # None => sa'[y] # None
      BY <2>2, SetsAssumption DEF Accounts
    <2> QED BY <1>6, <2>2, <2>3, OutsideTypes DEF CreateSA
  <1>7. ASSUME NEW s \in SAs, NEW x \in Secrets, AddSecret(s, x) PROVE TypeInv'
    <2>2. sa[s] \in SUBSET Secrets /\ sa' = [sa EXCEPT ![s] = sa[s] \cup {x}]
      BY <1>7 DEF AddSecret, Accounts
    <2>3. sa' \in Accounts
      BY <2>2, AccountTypes
    <2>4. \A y \in SAs : sa[y] # None => sa'[y] # None
      BY <2>2, SetsAssumption DEF Accounts
    <2> QED BY <1>7, <2>3, <2>4, OutsideTypes DEF AddSecret, Edit
  <1> QED BY <1>3, <1>4, <1>5, <1>6, <1>7

\* Every step keeps the types.
LEMMA StepTypes ==
    ASSUME TypeInv, [Next]_vars
    PROVE  TypeInv'
  <1> TypeOK BY DEF TypeInv
  <1>1. ASSUME NEW i \in Replicas, PodStep(i) \/ Starts(i) \/ PullsAgain(i) \/ Sync(i)
        PROVE  TypeInv'
    <2>1. CASE Admit(i)
      <3>1. PICK own \in Admitted :
              pod' = [pod EXCEPT ![i] = [gen |-> NextGen(i), secrets |-> own, state |-> "pending"]]
        BY <2>1 DEF Admit
      <3>2. chart \in ChartKind
        BY SetsAssumption DEF TypeOK, SceneKind, chart
      <3>3. own \subseteq Secrets
        BY <2>1, <3>2, SetsAssumption DEF Admitted, OnSA, Admit, ChartKind, TypeOK, Accounts
      <3>4. NextGen(i) \in Gens
        BY DEF NextGen, TypeOK, Pods, Gens
      <3>5. pod' \in [Replicas -> Pods]
        BY <3>1, <3>3, <3>4 DEF Pods, PodStates, TypeOK
      <3>6. /\ UNCHANGED <<scene, life, queues, resolved, sa, seen, count, spent, fleet, pc, mem, bounds>>
            /\ last' \in Copies \cup {None}
        BY <2>1 DEF Admit, TypeOK
      <3> QED
        BY <3>5, <3>6 DEF TypeInv, TypeOK, Aimed, queues, fleet, bounds
    <2>2. CASE PullFails(i) \/ Pulled(i) \/ Ends(i) \/ Starts(i)
      BY <2>2, OtherTypes DEF PullFails, Pulled, Ends, Starts, PodStates
    <2>3. CASE PullsAgain(i) \/ Sync(i)
      BY <2>3, OtherTypes DEF PodStates
    <2> QED BY <1>1, <2>1, <2>2, <2>3 DEF PodStep
  <1>2. ASSUME NEW n \in Names, FleetApplies(n) PROVE TypeInv'
    <2>1. /\ installed' \in [Names -> Workloads \cup {None}]
          /\ run' \in [Names -> Runs \cup {None}]
          /\ \A k \in Names : run'[k] # None => run'[k] = run[k]
          /\ UNCHANGED <<scene, life, queues, resolved, sa, pods, tally, bundle, pc, mem, bounds>>
      BY <1>2 DEF FleetApplies, TypeOK
    <2>2. \A k \in Names : run'[k] # None =>
               run[k] # None /\ run'[k].todo \cap SAs \subseteq run[k].todo
      BY <2>1
    <2> QED BY <2>1, <2>2, OutsideTypes DEF TypeOK, queues, pods, bounds
  <1>3. ASSUME NEW x \in Workloads, Event(x) \/ Delete(x) PROVE TypeInv'
    <2>1. /\ life' \in [Workloads -> {"live", "deleting", "gone"}]
          /\ event' \in [Workloads -> BOOLEAN] /\ edits' \in Nat
          /\ UNCHANGED <<scene, due, resolved, sa, pods, tally, fleet, pc, mem, faults>>
      <3>1. /\ life' \in {life, [life EXCEPT ![x] = "deleting"]}
            /\ event' = [event EXCEPT ![x] = TRUE] /\ edits' \in {edits, edits + 1}
            /\ UNCHANGED <<scene, due, resolved, sa, pods, tally, fleet, pc, mem, faults>>
        BY <1>3 DEF Event, Delete, Edit, bounds
      <3> QED BY <3>1 DEF TypeOK
    <2> QED BY <2>1, OutsideTypes DEF TypeOK, pods, fleet
  <1>4. ASSUME NEW s \in SAs, CreateSA(s) \/ \E x \in Foreign : AddSecret(s, x) PROVE TypeInv'
    BY <1>4, OtherTypes, SetsAssumption
  <1>5. CASE Toggle
    BY <1>5, OutsideTypes DEF Toggle, Edit, TypeOK, pods, fleet
  <1>6. CASE Restart
    BY <1>6 DEF Restart, Fault, TypeInv, TypeOK, Aimed, Stages, tally, fleet
  <1>7. CASE UNCHANGED vars
    BY <1>7 DEF vars, TypeInv, TypeOK, Aimed, queues, pods, tally, fleet, bounds
  <1> QED
    BY <1>1, <1>2, <1>3, <1>4, <1>5, <1>6, <1>7, PassStepTypes, ScriptStepTypes DEF Next

\* Together.
LEMMA SpecTypes == Spec => []TypeInv
  BY InitTypeInv, StepTypes, PTL DEF Spec

\* The state of workloads, ServiceAccounts, pods, the pass and the scripts stays
\* well formed.
THEOREM PullSecretsTypeCorrect == Spec => []TypeOK
  <1>1. TypeInv => TypeOK
    BY DEF TypeInv
  <1> QED BY <1>1, SpecTypes, PTL

-----------------------------------------------------------------------------
(* The limit on bounced pods.                                              *)

\* A pod is counted before it is deleted: between the two there is one that
\* counts already.
Counted ==
    /\ count <= MaxBounces
    /\ spent + (IF pc = "delete" THEN 1 ELSE 0) <= count

\* Steps that neither count nor delete against the limit keep it, as long as
\* they do not lead to a deletion.
LEMMA CountedKept ==
    ASSUME TypeOK, Counted, UNCHANGED <<count, spent>>, pc' = "delete" => pc = "delete"
    PROVE  Counted'
  BY DEF Counted, TypeOK

\* Every step keeps the tally.
LEMMA StepCounted ==
    ASSUME TypeOK, Counted, [Next]_vars
    PROVE  Counted'
  <1>1. CASE \E i \in Replicas : Count(i)
    <2>1. /\ pc = "pods" /\ count < MaxBounces /\ count' = count + 1 /\ pc' = "delete"
          /\ UNCHANGED spent
      BY <1>1 DEF Count, Turn, Bounceable, GoTo
    <2> QED BY <2>1, MaxBouncesAssumption DEF Counted, TypeOK
  <1>2. CASE DeletePod
    <2>1. pc = "delete" /\ pc' = "record" /\ UNCHANGED count /\ spent' \in {spent, spent + 1}
      BY <1>2 DEF DeletePod, GoTo, TypeOK
    <2>2. spent \in Nat /\ count \in Nat
      BY DEF TypeOK
    <2>3. count <= MaxBounces /\ spent + 1 <= count
      BY <2>1 DEF Counted
    <2>4. spent' <= count /\ spent' \in Nat
      BY <2>1, <2>2, <2>3
    <2>5. (IF pc' = "delete" THEN 1 ELSE 0) = 0
      <3>1. pc' # "delete"
        BY <2>1
      <3> QED BY <3>1
    <2>6. spent' + (IF pc' = "delete" THEN 1 ELSE 0) <= count
      BY <2>4, <2>5
    <2> QED BY <2>1, <2>3, <2>6 DEF Counted
  <1>3. CASE PassStep /\ ~DeletePod /\ ~\E i \in Replicas : Count(i)
    BY <1>3, CountedKept DEF PassStep, Begin, Deliver, MergeSA, ListPods, Watch, Recreate, Skip,
       Record, Finish, Fails, Cleanup, Prune, Release, NextPod, EndPass, Errs, GoTo, tally
  <1>4. ASSUME NEW n \in Names, ScriptStep(n) \/ FleetApplies(n) PROVE Counted'
    BY <1>4, CountedKept DEF ScriptStep, Tick, PatchSA, ScriptLists, ScriptFails, ReadSA, ScriptPod,
       ScriptOnly, FleetApplies, tally
  <1>5. ASSUME NEW i \in Replicas, PodStep(i) \/ Starts(i) \/ PullsAgain(i) \/ Sync(i)
        PROVE  Counted'
    BY <1>5, CountedKept DEF PodStep, Admit, PullFails, Pulled, Ends, Starts, Becomes, PullsAgain,
       Sync, tally
  <1>6. CASE \/ Toggle \/ Restart \/ UNCHANGED vars
             \/ \E x \in Workloads : Event(x) \/ Delete(x)
             \/ \E s \in SAs : CreateSA(s) \/ \E x \in Foreign : AddSecret(s, x)
    BY <1>6, CountedKept DEF Toggle, Restart, Event, Delete, CreateSA, AddSecret, vars, tally
  <1> QED
    BY <1>1, <1>2, <1>3, <1>4, <1>5, <1>6 DEF Next

\* The controller of pods that cannot pull loses chartPodMaxBounces of them at
\* most, wherever passes are cut off and however often the operator restarts
\* (bounceHelmLabelledPod counts first and deletes afterwards).
THEOREM NoMoreBounces == Spec => []BouncesAreBounded
  <1>1. Init => Counted
    BY MaxBouncesAssumption DEF Init, Counted
  <1>2. TypeInv /\ Counted /\ [Next]_vars => Counted'
    BY StepCounted DEF TypeInv
  <1>3. TypeInv /\ Counted => BouncesAreBounded
    BY MaxBouncesAssumption DEF TypeInv, TypeOK, Counted, BouncesAreBounded
  <1> QED BY <1>1, <1>2, <1>3, SpecTypes, PTL DEF Spec

-----------------------------------------------------------------------------
(* Nobody else's secret.                                                   *)

\* Scripts run on other clusters only.
NoScripts ==
    /\ pc \in {"merge", "pods", "count", "delete", "record"} => Local
    /\ Local => \A n \in Names : bundle[n] = None /\ installed[n] = None /\ run[n] = None

\* That does not change.
LEMMA StepNoScripts ==
    ASSUME TypeInv, NoScripts, [Next]_vars
    PROVE  NoScripts'
  <1> TypeOK BY DEF TypeInv
  <1>0. ASSUME UNCHANGED <<scene, installed, run>>,
               Local => \A n \in Names : bundle'[n] \in {bundle[n], None},
               \/ pc' \in {pc, "idle", "scope", "cleanup", "prune"} \/ Local
        PROVE  NoScripts'
    BY <1>0 DEF NoScripts, Local, layout
  <1>1. CASE PassStep
    <2>1. CASE Deliver
      <3>1. /\ UNCHANGED <<scene, installed, run>>
            /\ Local => UNCHANGED bundle /\ (pc' # "idle" => pc' = "merge")
            /\ ~Local => pc' = "idle"
        BY <2>1 DEF Deliver, EndPass, GoTo
      <3> QED BY <1>0, <3>1
    <2>2. CASE Cleanup
      <3>1. /\ UNCHANGED <<scene, installed, run>> /\ pc' = "prune"
            /\ \A n \in Names : bundle'[n] \in {bundle[n], None}
        BY <2>2 DEF Cleanup, GoTo
      <3> QED BY <1>0, <3>1
    <2>3. CASE ~Deliver /\ ~Cleanup
      <3>1. /\ UNCHANGED <<scene, bundle, installed, run>>
            /\ \/ pc' \in {pc, "idle", "scope", "cleanup", "prune"}
               \/ pc \in {"merge", "pods", "count", "delete", "record"}
        BY <1>1, <2>3 DEF PassStep, Begin, MergeSA, ListPods, Watch, Recreate, Skip, Count,
           DeletePod, Turn, Record, Finish, Fails, Prune, Release, NextPod, EndPass, Errs, GoTo, fleet
      <3> QED BY <1>0, <3>1 DEF NoScripts
    <2> QED BY <2>1, <2>2, <2>3
  <1>2. ASSUME NEW n \in Names, ScriptStep(n) \/ FleetApplies(n) PROVE NoScripts'
    <2>1. Local => ~ScriptStep(n)
      BY DEF NoScripts, ScriptStep, Tick, PatchSA, ScriptLists, ScriptFails, ReadSA, ScriptPod, InSAs
    <2>2. Local => ~FleetApplies(n)
      BY DEF NoScripts, FleetApplies
    <2>3. UNCHANGED <<scene, pc>>
      BY <1>2 DEF ScriptStep, Tick, PatchSA, ScriptLists, ScriptFails, ReadSA, ScriptPod,
         ScriptOnly, FleetApplies
    <2> QED BY <1>2, <2>1, <2>2, <2>3 DEF NoScripts, Local, layout
  <1>3. ASSUME NEW i \in Replicas, PodStep(i) \/ Starts(i) \/ PullsAgain(i) \/ Sync(i)
        PROVE  NoScripts'
    BY <1>0, <1>3 DEF PodStep, Admit, PullFails, Pulled, Ends, Starts, Becomes, PullsAgain,
       Sync, fleet
  <1>4. CASE \/ Toggle \/ Restart \/ UNCHANGED vars
             \/ \E x \in Workloads : Event(x) \/ Delete(x)
             \/ \E s \in SAs : CreateSA(s) \/ \E x \in Foreign : AddSecret(s, x)
    BY <1>0, <1>4 DEF Toggle, Restart, Event, Delete, CreateSA, AddSecret, vars, fleet
  <1> QED
    BY <1>1, <1>2, <1>3, <1>4 DEF Next

\* On the operator's cluster every step leaves what it did not deliver.
LEMMA StepKeepsForeign ==
    ASSUME TypeInv, NoScripts, [Next]_vars, Local, NEW s \in Existing(sa)
    PROVE  sa[s] \ Delivered \subseteq sa'[s]
  <1> TypeOK /\ s \in SAs /\ sa[s] # None BY DEF TypeInv, Existing
  <1>1. ASSUME NEW x \in SAs, MergeSA(x) PROVE sa[s] \ Delivered \subseteq sa'[s]
    <2>1. \/ UNCHANGED sa
          \/ Current(x) /\ sa' = [sa EXCEPT ![x] = mem.sas[x] \cup Needs[mem.w]]
      BY <1>1 DEF MergeSA
    <2> QED BY <2>1 DEF Current, TypeOK, Accounts
  <1>2. ASSUME NEW x \in SAs, Prune(x) PROVE sa[s] \ Delivered \subseteq sa'[s]
    <2>1. \/ UNCHANGED sa
          \/ Current(x) /\ sa' = [sa EXCEPT ![x] = mem.sas[x] \ Needs[mem.w]]
      BY <1>2 DEF Prune
    <2>2. Needs[mem.w] \subseteq Delivered
      BY <1>2, Held DEF Prune, Delivered
    <2> QED BY <2>1, <2>2 DEF Current, TypeOK, Accounts
  <1>3. CASE PassStep /\ ~\E x \in SAs : MergeSA(x) \/ Prune(x)
    BY <1>3 DEF PassStep, Begin, Deliver, ListPods, Watch, Recreate, Skip, Count, DeletePod, Record,
       Finish, Fails, Cleanup, Release
  <1>4. ASSUME NEW n \in Names, ScriptStep(n) \/ FleetApplies(n)
        PROVE  sa[s] \ Delivered \subseteq sa'[s]
    <2>1. ~ScriptStep(n)
      BY DEF NoScripts, ScriptStep, Tick, PatchSA, ScriptLists, ScriptFails, ReadSA, ScriptPod, InSAs
    <2> QED BY <1>4, <2>1 DEF FleetApplies
  <1>5. ASSUME NEW i \in Replicas, PodStep(i) \/ Starts(i) \/ PullsAgain(i) \/ Sync(i)
        PROVE  sa[s] \ Delivered \subseteq sa'[s]
    BY <1>5 DEF PodStep, Admit, PullFails, Pulled, Ends, Starts, Becomes, PullsAgain, Sync
  <1>6. ASSUME NEW y \in SAs, CreateSA(y) \/ \E x \in Foreign : AddSecret(y, x)
        PROVE  sa[s] \ Delivered \subseteq sa'[s]
    BY <1>6 DEF CreateSA, AddSecret, TypeOK, Accounts
  <1>7. CASE Toggle \/ Restart \/ UNCHANGED vars \/ \E x \in Workloads : Event(x) \/ Delete(x)
    BY <1>7 DEF Toggle, Restart, Event, Delete, vars
  <1> QED
    BY <1>1, <1>2, <1>3, <1>4, <1>5, <1>6, <1>7 DEF Next

\* Scripts stay away from the operator's cluster.
LEMMA SpecNoScripts == Spec => []NoScripts
  <1>1. Init => NoScripts
    BY DEF Init, NoScripts, Names
  <1>2. TypeInv /\ NoScripts /\ [Next]_vars => NoScripts'
    BY StepNoScripts
  <1> QED BY <1>1, <1>2, SpecTypes, PTL DEF Spec

\* The operator takes no secret from a ServiceAccount that it did not deliver,
\* and overwrites nobody's edit: each Update carries the version of the copy it
\* was made from (mergeImagePullSecrets, pruneLocalSAImagePullSecrets).
THEOREM NobodyElsesSecret == Spec => ForeignIsKept
  <1>1. TypeInv /\ NoScripts /\ [Next]_vars =>
          [Local => \A s \in Existing(sa) : sa[s] \ Delivered \subseteq sa'[s]]_vars
    BY StepKeepsForeign
  <1> QED BY <1>1, SpecTypes, SpecNoScripts, PTL DEF Spec, ForeignIsKept

-----------------------------------------------------------------------------
(* A deleted workload.                                                     *)

\* What w alone delivers.
Only(w) == Needs[w] \ UNION {Needs[v] : v \in Workloads \ {w}}

\* No pass works on a workload that is gone, so nothing of it comes back; and a
\* clean-up leaves behind what no longer has any of its secrets.
Withdrawing ==
    /\ pc # "idle" => life[mem.w] # "gone"
    /\ \A w \in Workloads : life[w] = "gone" => \A n \in Names : bundle[n] # w
    /\ pc = "prune" => \A n \in Names : bundle[n] # mem.w
    /\ Local => \A w \in Workloads : life[w] = "gone" =>
         \A s \in Existing(sa) : sa[s] \cap Only(w) = {}
    /\ Local /\ pc = "prune" => \A s \in Existing(sa) :
         sa[s] \cap Only(mem.w) \subseteq IF s \in mem.todo THEN mem.sas[s] ELSE {}

\* What two workloads deliver neither delivers alone.
LEMMA OnlyOnes ==
    ASSUME NEW w \in Workloads, NEW v \in Workloads, v # w
    PROVE  Only(w) \cap Needs[v] = {} /\ Only(w) \subseteq Needs[w] /\ Only(w) \subseteq Delivered
  BY DEF Only, Delivered

\* A step that neither adds such a secret nor a Bundle.
LEMMA WithdrawingKept ==
    ASSUME TypeOK, Withdrawing, UNCHANGED scene,
           \A w \in Workloads : life'[w] = "gone" => life[w] = "gone",
           \A n \in Names : bundle'[n] \in {bundle[n], None},
           Local => \A s \in Existing(sa)' : sa'[s] \cap Delivered \subseteq IF sa[s] = None THEN {} ELSE sa[s],
           \/ pc' = "idle"
           \/ pc' \notin {"idle", "prune"} /\ pc # "idle" /\ mem'.w = mem.w
           \/ pc' = pc /\ mem' = mem
    PROVE  Withdrawing'
  <1>1. None \notin Workloads
    BY SetsAssumption
  <1>2. \A w \in Workloads : Only(w) \subseteq Delivered
    BY DEF Only, Delivered
  <1>3. pc # "idle" => mem.w \in Workloads
    BY Held
  <1> QED BY <1>1, <1>2, <1>3 DEF Withdrawing, Existing, Local, layout

\* Every step keeps it, where administrators add other secrets.
LEMMA StepWithdrawing ==
    ASSUME Foreign \cap Delivered = {}, TypeInv, NoScripts, Withdrawing, [Next]_vars
    PROVE  Withdrawing'
  <1> TypeOK BY DEF TypeInv
  <1>1. ASSUME NEW x \in Workloads, Begin(x) PROVE Withdrawing'
    BY <1>1 DEF Begin, Withdrawing, fleet, Local, layout, Existing, TypeOK
  <1>2. CASE Deliver
    <2>1. /\ pc = "scope" /\ mem.w \in Workloads /\ UNCHANGED <<scene, life, sa>>
          /\ \/ pc' = "idle" \/ (pc' = "merge" /\ mem'.w = mem.w)
          /\ \A n \in Names : bundle'[n] \in {bundle[n], mem.w}
      BY <1>2, Held DEF Deliver, EndPass, GoTo, Passes, TypeOK
    <2> QED BY <2>1 DEF Withdrawing, Local, layout, Existing
  <1>3. ASSUME NEW s \in SAs, MergeSA(s) PROVE Withdrawing'
    <2>1. /\ pc = "merge" /\ mem \in Passes /\ mem.w \in Workloads
          /\ UNCHANGED <<scene, life, bundle>>
          /\ \/ pc' = "idle" \/ (pc' = "merge" /\ mem'.w = mem.w)
          /\ \/ UNCHANGED sa
             \/ Current(s) /\ sa' = [sa EXCEPT ![s] = mem.sas[s] \cup Needs[mem.w]]
      BY <1>3, Held DEF MergeSA, Errs, GoTo, Passes, fleet
    <2>2. \/ UNCHANGED sa
          \/ sa[s] # None /\ sa' = [sa EXCEPT ![s] = sa[s] \cup Needs[mem.w]]
      BY <1>3, <2>1 DEF Current, MergeSA, TypeInv, Aimed
    <2>3. \A w \in Workloads : life[w] = "gone" => Only(w) \cap Needs[mem.w] = {}
      BY <2>1, OnlyOnes DEF Withdrawing
    <2> QED BY <2>1, <2>2, <2>3 DEF Withdrawing, Existing, Local, layout, TypeOK, Accounts
  <1>5. CASE \/ ListPods \/ DeletePod \/ Record \/ Finish \/ Fails
             \/ \E i \in Replicas : Watch(i) \/ Recreate(i) \/ Skip(i) \/ Count(i)
    <2>1. /\ pc # "idle" /\ UNCHANGED <<scene, life, sa, bundle>>
          /\ pc' = "idle" \/ (pc' \notin {"idle", "prune"} /\ mem'.w = mem.w)
      <3>1. CASE ListPods \/ DeletePod \/ Record \/ Finish \/ Fails
        BY <3>1, Held DEF ListPods, DeletePod, Record, Finish, Fails, NextPod, EndPass, Errs, GoTo,
           Passes, fleet
      <3>2. ASSUME NEW i \in Replicas, Watch(i) \/ Recreate(i) \/ Skip(i) \/ Count(i)
            PROVE  /\ pc # "idle" /\ UNCHANGED <<scene, life, sa, bundle>>
                   /\ pc' = "idle" \/ (pc' \notin {"idle", "prune"} /\ mem'.w = mem.w)
        BY <3>2, Held DEF Watch, Recreate, Skip, Count, Turn, NextPod, GoTo, Passes, fleet
      <3> QED BY <1>5, <3>1, <3>2
    <2> QED BY <2>1, WithdrawingKept DEF Existing
  <1>6. CASE Cleanup
    <2>1. /\ pc = "cleanup" /\ pc' = "prune" /\ mem'.w = mem.w /\ mem.w \in Workloads
          /\ mem'.sas = sa /\ mem'.todo = (IF Local THEN Existing(sa) ELSE {})
          /\ UNCHANGED <<scene, life, sa>>
      BY <1>6, Held DEF Cleanup, GoTo, Passes
    <2>2. bundle' = [n \in Names |-> IF bundle[n] = mem.w THEN None ELSE bundle[n]]
      BY <1>6 DEF Cleanup
    <2>3. None \notin Workloads
      BY SetsAssumption
    <2> QED BY <2>1, <2>2, <2>3 DEF Withdrawing, Local, layout, Existing
  <1>7. ASSUME NEW s \in SAs, Prune(s) PROVE Withdrawing'
    <2>1. /\ pc = "prune" /\ s \in mem.todo /\ mem \in Passes /\ mem.w \in Workloads
          /\ sa[s] = None \/ sa[s] \subseteq Secrets
          /\ UNCHANGED <<scene, life, bundle>>
      BY <1>7, Held DEF Prune, TypeOK, Accounts, fleet
    <2>2. CASE Errs /\ UNCHANGED sa
      BY <2>1, <2>2, WithdrawingKept DEF Errs, Existing
    <2>3. CASE ~(Errs /\ UNCHANGED sa)
      <3>1. /\ pc' = "prune" /\ mem'.w = mem.w /\ mem'.sas = mem.sas /\ mem'.todo = mem.todo \ {s}
        BY <1>7, <2>1, <2>3 DEF Prune, GoTo, Passes
      <3>2. \/ UNCHANGED sa /\ mem.sas[s] \cap Needs[mem.w] = {}
            \/ sa[s] = mem.sas[s] /\ sa' = [sa EXCEPT ![s] = sa[s] \ Needs[mem.w]]
        BY <1>7, <2>3 DEF Prune, Current
      <3>3. Only(mem.w) \subseteq Needs[mem.w]
        BY DEF Only
      <3>4. mem.sas[s] # None
        BY <2>1 DEF TypeInv, Aimed
      <3>5. CASE UNCHANGED sa /\ mem.sas[s] \cap Needs[mem.w] = {}
        BY <2>1, <3>1, <3>3, <3>5 DEF Withdrawing, Existing, Local, layout
      <3>6. CASE sa[s] = mem.sas[s] /\ sa' = [sa EXCEPT ![s] = sa[s] \ Needs[mem.w]]
        BY <2>1, <3>1, <3>3, <3>4, <3>6 DEF Withdrawing, Existing, Local, layout, TypeOK, Accounts
      <3> QED BY <3>2, <3>5, <3>6
    <2> QED BY <2>2, <2>3
  <1>8. CASE Release
    <2>1. /\ pc = "prune" /\ mem.todo = {} /\ pc' = "idle" /\ mem.w \in Workloads
          /\ life' = [life EXCEPT ![mem.w] = "gone"]
          /\ UNCHANGED <<scene, sa, bundle>>
      BY <1>8, Held DEF Release, EndPass, fleet
    <2> QED BY <2>1 DEF Withdrawing, Existing, Local, layout, TypeOK
  <1>9. ASSUME NEW n \in Names, ScriptStep(n) \/ FleetApplies(n) PROVE Withdrawing'
    <2>1. Local => ~ScriptStep(n)
      BY DEF NoScripts, ScriptStep, Tick, PatchSA, ScriptLists, ScriptFails, ReadSA, ScriptPod, InSAs
    <2>2. /\ UNCHANGED <<scene, life, bundle, pc, mem>>
          /\ Local => UNCHANGED sa
      BY <1>9, <2>1 DEF ScriptStep, Tick, PatchSA, ScriptLists, ScriptFails, ReadSA, ScriptPod,
         ScriptOnly, FleetApplies
    <2> QED BY <2>2, WithdrawingKept DEF Existing
  <1>10. ASSUME NEW i \in Replicas, PodStep(i) \/ Starts(i) \/ PullsAgain(i) \/ Sync(i)
        PROVE  Withdrawing'
    <2>1. UNCHANGED <<scene, life, bundle, sa, pc, mem>>
      BY <1>10 DEF PodStep, Admit, PullFails, Pulled, Ends, Starts, Becomes, PullsAgain, Sync, fleet
    <2> QED BY <2>1, WithdrawingKept DEF Existing
  <1>11. CASE \E s \in SAs : CreateSA(s) \/ \E x \in Foreign : AddSecret(s, x)
    <2>1. /\ UNCHANGED <<scene, life, bundle, pc, mem>>
          /\ \E s \in SAs : \/ sa[s] = None /\ sa' = [sa EXCEPT ![s] = {}]
                            \/ \E x \in Foreign : sa[s] # None /\ sa' = [sa EXCEPT ![s] = @ \cup {x}]
      BY <1>11 DEF CreateSA, AddSecret, fleet
    <2>2. \A s \in Existing(sa)' : sa'[s] \cap Delivered \subseteq IF sa[s] = None THEN {} ELSE sa[s]
      BY <2>1 DEF Existing, TypeOK, Accounts
    <2> QED BY <2>1, <2>2, WithdrawingKept
  <1>12. CASE Toggle \/ Restart \/ UNCHANGED vars \/ \E x \in Workloads : Event(x) \/ Delete(x)
    <2>1. /\ UNCHANGED <<scene, bundle, sa>>
          /\ pc' = "idle" \/ UNCHANGED <<pc, mem>>
          /\ \A w \in Workloads : life'[w] = "gone" => life[w] = "gone"
      BY <1>12 DEF Toggle, Restart, Event, Delete, vars, fleet, TypeOK
    <2> QED BY <2>1, WithdrawingKept DEF Existing
  <1> QED
    BY <1>1, <1>2, <1>3, <1>5, <1>6, <1>7, <1>8, <1>9, <1>10, <1>11, <1>12 DEF Next, PassStep

\* What a deleted workload alone delivered is withdrawn with it, also when passes
\* fail, conflict or are cut off, as long as administrators do not add the same
\* secrets themselves (cleanupPullSecretBundles, pruneLocalSAImagePullSecrets).
THEOREM DeletionWithdraws ==
    ASSUME Foreign \cap Delivered = {}
    PROVE  Spec => []GoneIsWithdrawn
  <1>1. Init => Withdrawing
    BY DEF Init, Withdrawing
  <1>2. TypeInv /\ NoScripts /\ Withdrawing /\ [Next]_vars => Withdrawing'
    BY StepWithdrawing
  <1>3. Withdrawing => GoneIsWithdrawn
    BY DEF Withdrawing, GoneIsWithdrawn, Only
  <1> QED BY <1>1, <1>2, <1>3, SpecTypes, SpecNoScripts, PTL DEF Spec

-----------------------------------------------------------------------------
(* The operator at rest.  A pass that gave a ServiceAccount something comes *)
(* back, with an informer that has caught up: whatever was admitted before  *)
(* is known to it then, and whatever is admitted later has the secrets.     *)

\* The other workloads that deliver here, and what none of them does.
Rivals == {v \in Workloads \ {Owner} : TargetsHere(v)}
Own == Needs[Owner] \ UNION {Needs[v] : v \in Rivals}

\* A workload has a secret of its own, if it has any: one that no other brings to
\* the ServiceAccounts before it has seen the pods that lack it.
OwnSecrets ==
    \A s \in Scenes : s.layout.here = "local" =>
        LET w == s.chart.owner
            others == {v \in Workloads \ {w} : "local" \in s.layout.target[v]}
        IN  Needs[w] # {} => Needs[w] \ UNION {Needs[v] : v \in others} # {}

\* No call has failed and no workload was deleted.
Smooth == Local /\ TargetsHere(Owner) /\ faults = 0 /\ \A w \in Workloads : life[w] = "live"

\* A ServiceAccount that has not all the workload needs.
Lacking(s) == s \in Managed /\ sa[s] # None /\ ~(Needs[Owner] \subseteq sa[s])
Owing == \E s \in SAs : Lacking(s)

\* The pods that the pass deletes for the sake of a secret.
Plain ==
    /\ chart.sa \in Managed /\ chart.kind # "other"
    /\ chart.own = {} /\ chart.hook = {}

Waiting == {"pending", "started", "failing"}

\* Nothing is to be done about a pod, or its copy tells what is.
Cared(i) ==
    \/ ~Plain \/ Needs[Owner] \subseteq pod[i].secrets \/ pod[i].state \notin Waiting
    \/ Bounces(pod[i]) /\ count = MaxBounces

Informed(i) ==
    /\ seen[i].gen = pod[i].gen /\ seen[i].secrets = pod[i].secrets /\ seen[i].state \in Waiting
    /\ seen[i].state = "failing" => pod[i].state \notin {"pending", "started"}

Known == \A i \in Replicas : Cared(i) \/ Informed(i)

\* Where secrets come from.
Sourced ==
    /\ \A s \in Existing(sa) : sa[s] \subseteq Foreign \cup (IF s \in Managed THEN Delivered ELSE {})
    /\ \A s \in Existing(sa) : sa[s] \cap Own # {} => Needs[Owner] \subseteq sa[s]
    /\ \A i \in Replicas : pod[i].state # "gone" /\ chart.own = {} =>
          /\ sa[chart.sa] # None
          /\ IF chart.hook = {} THEN pod[i].secrets \subseteq OnSA ELSE chart.hook \subseteq pod[i].secrets

\* The last pod bounced is no more.
Removed ==
    \A i \in Replicas :
        \/ last = <<i, pod[i].gen>>
        \/ pc = "record" /\ mem.pod = <<i, pod[i].gen>>
        => pod[i].state \in {"ending", "gone"}

\* A pod that this pass still comes to, or another one will.
ToCome(i) ==
    \/ event[Owner]
    \/ /\ i \in mem.todo
       /\ pc # "pods" /\ mem.pod[1] = i => pc = "delete" /\ mem.pod[2] = pod[i].gen

OwnPass == pc # "idle" /\ mem.w = Owner

InPass ==
    CASE pc = "scope" -> due[Owner] \/ Owing \/ Known
      [] pc = "merge" ->
           /\ due[Owner] \/ mem.unsettled \/ Owing \/ Known
           /\ \A s \in SAs : Lacking(s) => event[Owner] \/ s \in mem.todo
           /\ \A s \in SAs \cap mem.todo :
                sa[s] # None /\ (Lacking(s) <=> ~(Needs[Owner] \subseteq mem.sas[s]))
      [] pc \in {"pods", "delete", "record"} ->
           /\ \/ due[Owner] \/ mem.unsettled \/ Owing
              \/ \A i \in Replicas : Cared(i) \/ (Informed(i) /\ ToCome(i))
           /\ event[Owner] \/ ~Owing
      [] OTHER -> TRUE

\* Between the passes of the workload.
Resting ==
    /\ due[Owner] \/ Owing \/ Known
    /\ ~event[Owner] /\ ~due[Owner] /\ resolved => ~Owing /\ \A i \in Replicas : Cared(i)

\* What a pass works on: a live workload, or one that goes.
Purposeful ==
    /\ pc \in {"cleanup", "prune"} => life[mem.w] # "live"
    /\ pc = "merge" => TargetsHere(mem.w) /\ mem.todo \subseteq Managed

Stand == IF OwnPass THEN InPass ELSE Resting

Serving == Smooth => Sourced /\ Removed /\ Stand

\* The steps without a failure or a deletion, on the operator's own cluster.
Moves ==
    \/ \E w \in Workloads : Begin(w) \/ Event(w)
    \/ Deliver \/ ListPods \/ DeletePod \/ Record \/ Finish \/ Toggle \/ UNCHANGED vars
    \/ \E s \in SAs : MergeSA(s) \/ CreateSA(s) \/ \E x \in Foreign : AddSecret(s, x)
    \/ \E i \in Replicas : \/ Watch(i) \/ Recreate(i) \/ Skip(i) \/ Count(i)
                           \/ PodStep(i) \/ Starts(i) \/ PullsAgain(i) \/ Sync(i)

-----------------------------------------------------------------------------
(* Steps.                                                                  *)

\* A scene stays as it is.
LEMMA SameScene ==
    ASSUME UNCHANGED scene
    PROVE  /\ chart' = chart /\ layout' = layout /\ Owner' = Owner /\ Rivals' = Rivals /\ Own' = Own
           /\ Local' = Local /\ Plain' = Plain /\ \A w : TargetsHere(w)' = TargetsHere(w)
  BY DEF chart, layout, Owner, Rivals, Own, Local, Plain, TargetsHere

LEMMA Scened ==
    ASSUME TypeOK, Foreign \cap Delivered = {}, OwnSecrets
    PROVE  /\ chart \in ChartKind /\ Owner \in Workloads /\ chart.sa \in SAs
           /\ Local /\ Needs[Owner] # {} => Own # {}
           /\ Needs[Owner] \subseteq Delivered /\ Own \subseteq Needs[Owner]
           /\ \A v \in Rivals : v \in Workloads /\ Needs[v] \cap Own = {}
  <1>1. scene \in Scenes /\ scene \in SceneKind
    BY SetsAssumption DEF TypeOK
  <1>2. chart \in ChartKind /\ Owner \in Workloads /\ chart.sa \in SAs
    BY <1>1 DEF SceneKind, ChartKind, chart, Owner
  <1>4. Local => Rivals = {v \in Workloads \ {Owner} : "local" \in scene.layout.target[v]}
    BY DEF Local, layout, Rivals, TargetsHere
  <1>5. Local /\ Needs[Owner] # {} => Own # {}
    BY <1>1, <1>4 DEF OwnSecrets, Own, Local, layout, chart, Owner
  <1> QED BY <1>2, <1>5 DEF Rivals, Own, Delivered

LEMMA SmoothMoves ==
    ASSUME TypeInv, NoScripts, Purposeful, Smooth', [Next]_vars
    PROVE  Smooth /\ Moves /\ UNCHANGED <<scene, life>>
  <1> TypeOK BY DEF TypeInv
  <1>0. faults' = 0 /\ faults \in Nat /\ \A w \in Workloads : life'[w] = "live"
    BY DEF Smooth, TypeOK
  <1>1. ~Fault
    BY <1>0 DEF Fault
  <1>2. UNCHANGED scene
    BY DEF Next, PassStep, Begin, Deliver, ListPods, DeletePod, Record, Finish, Fails, MergeSA, Prune,
           Watch, Recreate, Skip, Count, Cleanup, Release, Toggle, Restart, ScriptStep, Tick, PatchSA,
           ScriptLists, ScriptFails, ReadSA, ScriptPod, ScriptOnly, FleetApplies, PodStep, Admit,
           PullFails, Pulled, Ends, Starts, Becomes, PullsAgain, Sync, Event, Delete, CreateSA,
           AddSecret, vars
  <1>3. Local
    BY <1>2, SameScene DEF Smooth
  <1>4. ~Fails /\ ~Restart
    BY <1>1 DEF Fails, Restart
  <1>5. \A n \in Names : ~ScriptStep(n) /\ ~FleetApplies(n)
    BY <1>3 DEF NoScripts, ScriptStep, Tick, PatchSA, ScriptLists, ScriptFails, ReadSA, ScriptPod, InSAs,
                FleetApplies
  <1>6. \A w \in Workloads : ~Delete(w)
    BY <1>0 DEF Delete, TypeOK
  <1>7. ~Cleanup /\ ~Release /\ \A s \in SAs : ~Prune(s)
    <2>1. ASSUME Cleanup \/ \E s \in SAs : Prune(s) PROVE FALSE
      BY <1>0, <2>1, Held DEF Cleanup, Prune, Purposeful
    <2>2. ASSUME Release PROVE FALSE
      BY <1>0, <2>2, Held DEF Release, TypeOK
    <2> QED BY <2>1, <2>2
  <1>8. Moves
    BY <1>4, <1>5, <1>6, <1>7 DEF Next, PassStep, Moves
  <1>9. faults' = faults /\ life' = life
    BY <1>8 DEF Moves, Begin, Event, Deliver, ListPods, DeletePod, Record, Finish, Toggle, vars, MergeSA,
                CreateSA, AddSecret, Edit, Watch, Recreate, Skip, Count, PodStep, Admit, PullFails, Pulled,
                Ends, Starts, Becomes, PullsAgain, Sync, bounds
  <1> QED BY <1>2, <1>8, <1>9, SameScene DEF Smooth

LEMMA StepPurposeful ==
    ASSUME TypeInv, Purposeful, [Next]_vars
    PROVE  Purposeful'
  <1> TypeOK BY DEF TypeInv
  <1>1. CASE PassStep
    <2>1. ASSUME NEW w \in Workloads, Begin(w) PROVE Purposeful'
      BY <2>1 DEF Begin, Purposeful
    <2>2. CASE Deliver
      <3>1. \/ pc' = "idle"
            \/ /\ pc' = "merge" /\ mem'.w = mem.w /\ mem'.todo = Managed \cap Existing(sa)
               /\ TargetsHere(mem.w) /\ UNCHANGED scene
        BY <2>2, Held DEF Deliver, EndPass, GoTo, Passes
      <3> QED BY <3>1, SameScene DEF Purposeful
    <2>3. ASSUME NEW s \in SAs, MergeSA(s) PROVE Purposeful'
      <3>1. \/ pc' = "idle"
            \/ /\ pc' = "merge" /\ pc = "merge" /\ mem'.w = mem.w /\ mem'.todo \subseteq mem.todo
               /\ UNCHANGED scene
        BY <2>3, Held DEF MergeSA, Errs, GoTo, Passes
      <3> QED BY <3>1, SameScene DEF Purposeful
    <2>4. CASE Cleanup \/ \E s \in SAs : Prune(s)
      <3>1. /\ pc \in {"cleanup", "prune"} /\ life' = life
            /\ pc' = "idle" \/ (pc' = "prune" /\ mem'.w = mem.w)
        BY <2>4, Held DEF Cleanup, Prune, Errs, GoTo, Passes
      <3> QED BY <3>1 DEF Purposeful
    <2>5. CASE \/ ListPods \/ DeletePod \/ Record \/ Finish \/ Fails \/ Release
               \/ \E i \in Replicas : Watch(i) \/ Recreate(i) \/ Skip(i) \/ Count(i)
      <3>1. pc' \in {"idle", "pods", "delete", "record"}
        BY <2>5 DEF ListPods, DeletePod, Record, Finish, Fails, Release, Watch, Recreate, Skip, Count,
                    NextPod, EndPass, Errs, GoTo
      <3> QED BY <3>1 DEF Purposeful
    <2> QED BY <1>1, <2>1, <2>2, <2>3, <2>4, <2>5 DEF PassStep
  <1>2. CASE ~PassStep /\ ~Restart /\ [Next]_vars
    <2>1. UNCHANGED <<scene, pc, mem>>
      BY <1>2 DEF Next, Toggle, ScriptStep, Tick, PatchSA, ScriptLists, ScriptFails, ReadSA, ScriptPod,
           ScriptOnly, FleetApplies, PodStep, Admit, PullFails, Pulled, Ends, Starts, Becomes,
           PullsAgain, Sync, Event, Delete, CreateSA, AddSecret, vars
    <2>2. \A w \in Workloads : life'[w] = "live" => life[w] = "live"
      BY <1>2 DEF Next, Toggle, ScriptStep, Tick, PatchSA, ScriptLists, ScriptFails, ReadSA, ScriptPod,
           ScriptOnly, FleetApplies, PodStep, Admit, PullFails, Pulled, Ends, Starts, Becomes,
           PullsAgain, Sync, Event, Delete, CreateSA, AddSecret, vars, TypeOK
    <2>3. pc # "idle" => mem.w \in Workloads
      BY Held
    <2> QED BY <2>1, <2>2, <2>3, SameScene DEF Purposeful
  <1>3. CASE Restart
    BY <1>3 DEF Restart, Purposeful
  <1> QED BY <1>1, <1>2, <1>3 DEF Next

\* What may become of the ServiceAccounts.
LEMMA AccountsMove ==
    ASSUME TypeInv, Purposeful, Moves
    PROVE  \/ UNCHANGED sa
           \/ \E s \in SAs :
                /\ pc = "merge" /\ MergeSA(s) /\ s \in mem.todo /\ s \in Managed
                /\ sa[s] # None /\ sa[s] = mem.sas[s] /\ ~(Needs[mem.w] \subseteq sa[s])
                /\ sa' = [sa EXCEPT ![s] = sa[s] \cup Needs[mem.w]]
           \/ \E s \in SAs : CreateSA(s) /\ sa[s] = None /\ sa' = [sa EXCEPT ![s] = {}]
           \/ \E s \in SAs, x \in Foreign :
                AddSecret(s, x) /\ sa[s] # None /\ sa' = [sa EXCEPT ![s] = sa[s] \cup {x}]
  <1> TypeOK BY DEF TypeInv
  <1>1. ASSUME NEW s \in SAs, MergeSA(s), sa' # sa
        PROVE  /\ pc = "merge" /\ s \in mem.todo /\ s \in Managed
               /\ sa[s] # None /\ sa[s] = mem.sas[s] /\ ~(Needs[mem.w] \subseteq sa[s])
               /\ sa' = [sa EXCEPT ![s] = sa[s] \cup Needs[mem.w]]
    <2>1. /\ pc = "merge" /\ s \in mem.todo /\ Current(s) /\ ~(Needs[mem.w] \subseteq mem.sas[s])
          /\ sa' = [sa EXCEPT ![s] = mem.sas[s] \cup Needs[mem.w]]
      BY <1>1 DEF MergeSA
    <2>2. mem.sas[s] # None /\ s \in Managed
      BY <2>1 DEF TypeInv, Aimed, Purposeful
    <2> QED BY <2>1, <2>2 DEF Current
  <1>2. sa' = sa \/ \E s \in SAs : MergeSA(s) \/ CreateSA(s) \/ \E x \in Foreign : AddSecret(s, x)
    BY DEF Moves, Begin, Event, Deliver, ListPods, DeletePod, Record, Finish, Toggle, vars,
           Watch, Recreate, Skip, Count, PodStep, Admit, PullFails, Pulled, Ends, Starts, Becomes,
           PullsAgain, Sync
  <1>3. \A s \in SAs : CreateSA(s) => sa[s] = None /\ sa' = [sa EXCEPT ![s] = {}]
    BY DEF CreateSA
  <1>4. \A s \in SAs, x \in Foreign : AddSecret(s, x) =>
          sa[s] # None /\ sa' = [sa EXCEPT ![s] = sa[s] \cup {x}]
    BY DEF AddSecret
  <1> QED BY <1>1, <1>2, <1>3, <1>4

\* They only grow.
LEMMA AccountsGrow ==
    ASSUME TypeInv, Purposeful, Moves, NEW s \in SAs, sa[s] # None
    PROVE  sa'[s] # None /\ sa[s] \subseteq sa'[s]
  <1> TypeOK BY DEF TypeInv
  <1>1. sa \in Accounts /\ sa' \in Accounts /\ \A x \in SUBSET Secrets : None # x
    BY StepTypes, SetsAssumption DEF TypeInv, TypeOK, Moves, Next, PassStep
  <1>2. \A t \in SAs : sa[t] = None \/ sa[t] \subseteq Secrets
    BY <1>1 DEF Accounts
  <1>3. sa'[s] = None \/ sa'[s] \subseteq Secrets
    BY <1>1 DEF Accounts
  <1>4. ASSUME NEW t \in SAs, NEW b \in SUBSET Secrets, sa' = [sa EXCEPT ![t] = sa[t] \cup b], sa[t] # None
        PROVE  sa'[s] # None /\ sa[s] \subseteq sa'[s]
    <2>1. CASE s # t
      BY <1>1, <1>4, <2>1 DEF Accounts
    <2>2. CASE s = t
      <3>1. sa'[t] = sa[t] \cup b
        BY <1>1, <1>4 DEF Accounts
      <3>2. sa[t] \cup b \in SUBSET Secrets
        BY <1>2, <1>4
      <3> QED BY <1>1, <2>2, <3>1, <3>2
    <2> QED BY <2>1, <2>2
  <1>5. ASSUME NEW t \in SAs, sa[t] = None, sa' = [sa EXCEPT ![t] = {}]
        PROVE  sa'[s] # None /\ sa[s] \subseteq sa'[s]
    BY <1>1, <1>5 DEF Accounts
  <1>6. Foreign \subseteq Secrets /\ (pc = "merge" => Needs[mem.w] \subseteq Secrets)
    BY Held, SetsAssumption
  <1>7. ASSUME NEW t \in SAs, sa[t] # None, pc = "merge", sa' = [sa EXCEPT ![t] = sa[t] \cup Needs[mem.w]]
        PROVE  sa'[s] # None /\ sa[s] \subseteq sa'[s]
    BY <1>4, <1>6, <1>7
  <1>8. ASSUME NEW t \in SAs, sa[t] # None, NEW x \in Foreign, sa' = [sa EXCEPT ![t] = sa[t] \cup {x}]
        PROVE  sa'[s] # None /\ sa[s] \subseteq sa'[s]
    <2>1. {x} \in SUBSET Secrets
      BY <1>6
    <2> QED BY <1>4, <1>8, <2>1
  <1> QED BY <1>5, <1>7, <1>8, AccountsMove

\* Another state of a pod.
LEMMA AnotherState ==
    ASSUME TypeOK, NEW i \in Replicas, NEW state
    PROVE  LET q == [pod EXCEPT ![i].state = state]
           IN  /\ q[i].gen = pod[i].gen /\ q[i].secrets = pod[i].secrets /\ q[i].state = state
               /\ \A j \in Replicas \ {i} : q[j] = pod[j]
  BY DEF TypeOK, Pods

\* A deleted pod ends.
LEMMA Ending ==
    ASSUME TypeOK, NEW i \in Replicas, NEW gen, pod' = Deleted(i, gen)
    PROVE  /\ \A j \in Replicas \ {i} : pod'[j] = pod[j]
           /\ pod'[i].gen = pod[i].gen /\ pod'[i].secrets = pod[i].secrets
           /\ IF Found(i, gen) THEN pod[i].state # "gone" /\ pod'[i].state = "ending"
              ELSE pod'[i] = pod[i]
           /\ pod[i].state # "gone" /\ pod[i].gen = gen => Found(i, gen)
  BY AnotherState DEF Deleted, Found

\* What may become of the pods.
LEMMA PodsMove ==
    ASSUME TypeInv, Purposeful, Moves, NEW i \in Replicas
    PROVE  \/ pod'[i] = pod[i]
           \/ /\ pod'[i].gen = pod[i].gen /\ pod'[i].secrets = pod[i].secrets
              /\ pod[i].state # "gone"
              /\ pod[i].state = "ending" => pod'[i].state \in {"ending", "gone"}
           \/ Admit(i)
  <1> TypeOK BY DEF TypeInv
  <1>1. CASE DeletePod
    <2>1. mem.pod[1] \in Replicas /\ pod' = Deleted(mem.pod[1], mem.pod[2])
      BY <1>1 DEF DeletePod, TypeInv, Aimed, Copies
    <2>2. PICK j \in Replicas : j = mem.pod[1]
      BY <2>1
    <2> QED BY <2>1, <2>2, Ending
  <1>2. ASSUME NEW j \in Replicas, Recreate(j) PROVE pod'[i] = pod[i] \/
              /\ pod'[i].gen = pod[i].gen /\ pod'[i].secrets = pod[i].secrets
              /\ pod[i].state # "gone" /\ pod'[i].state \in {"ending", "gone"}
    BY <1>2, Ending DEF Recreate
  <1>3. ASSUME NEW j \in Replicas, PullFails(j) \/ Pulled(j) \/ Ends(j) \/ Starts(j)
        PROVE  pod'[i] = pod[i] \/
              /\ pod'[i].gen = pod[i].gen /\ pod'[i].secrets = pod[i].secrets
              /\ pod[i].state # "gone"
              /\ pod[i].state = "ending" => pod'[i].state \in {"ending", "gone"}
    <2>1. \E state : pod' = [pod EXCEPT ![j].state = state]
                     /\ pod[j].state # "gone" /\ (pod[j].state = "ending" => state = "gone")
      BY <1>3 DEF PullFails, Pulled, Ends, Starts, Becomes
    <2> QED BY <2>1, AnotherState
  <1>4. ASSUME NEW j \in Replicas, PullsAgain(j)
        PROVE  pod'[i] = pod[i] \/
              /\ pod'[i].gen = pod[i].gen /\ pod'[i].secrets = pod[i].secrets
              /\ pod[i].state \notin {"gone", "ending"}
    <2>1. pod' = [pod EXCEPT ![j].state = "failing"] /\ pod[j].state = "running"
      BY <1>4 DEF PullsAgain
    <2> QED BY <2>1, AnotherState
  <1>5. ASSUME NEW j \in Replicas, Admit(j) PROVE pod'[i] = pod[i] \/ Admit(i)
    <2>1. CASE i = j
      BY <1>5, <2>1
    <2>2. CASE i # j
      BY <1>5, <2>2 DEF Admit, TypeOK
    <2> QED BY <2>1, <2>2
  <1>6. \/ pod' = pod \/ DeletePod
        \/ \E j \in Replicas : Recreate(j) \/ PullFails(j) \/ Pulled(j) \/ Ends(j) \/ Starts(j)
                               \/ PullsAgain(j) \/ Admit(j)
    BY DEF Moves, Begin, Event, Deliver, ListPods, Record, Finish, Toggle, vars, MergeSA, CreateSA,
           AddSecret, Watch, Skip, Count, PodStep, Sync, pods
  <1> QED BY <1>1, <1>2, <1>3, <1>4, <1>5, <1>6

\* A pod that is admitted.
LEMMA Admission ==
    ASSUME TypeOK, NEW i \in Replicas, Admit(i)
    PROVE  /\ pod[i].state = "gone" /\ pod'[i].state = "pending" /\ pod'[i].gen = NextGen(i)
           /\ \A j \in Replicas \ {i} : pod'[j] = pod[j]
           /\ sa[chart.sa] # None /\ sa' = sa /\ Forgotten(i)
           /\ chart.own = {} => IF chart.hook = {} THEN pod'[i].secrets = OnSA
                                ELSE chart.hook \subseteq pod'[i].secrets
  <1>1. PICK own \in Admitted :
          pod' = [pod EXCEPT ![i] = [gen |-> NextGen(i), secrets |-> own, state |-> "pending"]]
    BY DEF Admit
  <1>2. /\ pod'[i].state = "pending" /\ pod'[i].gen = NextGen(i) /\ pod'[i].secrets = own
        /\ \A j \in Replicas \ {i} : pod'[j] = pod[j]
    BY <1>1 DEF TypeOK
  <1>3. chart.own = {} => IF chart.hook = {} THEN own = OnSA ELSE chart.hook \subseteq own
    BY DEF Admitted
  <1> QED BY <1>2, <1>3 DEF Admit

LEMMA StepSourced ==
    ASSUME TypeInv, Purposeful, Moves, Foreign \cap Delivered = {}, OwnSecrets,
           UNCHANGED scene, Local, Sourced
    PROVE  Sourced'
  <1> TypeOK BY DEF TypeInv
  <1>1. /\ sa \in Accounts /\ \A x \in SUBSET Secrets : None # x
        /\ chart' = chart /\ Owner' = Owner /\ Own' = Own /\ chart.sa \in SAs
        /\ Needs[Owner] \subseteq Delivered /\ Own \subseteq Needs[Owner]
        /\ pc = "merge" => /\ mem.w \in Workloads /\ Needs[mem.w] \subseteq Delivered
                           /\ mem.w # Owner => Needs[mem.w] \cap Own = {}
        /\ Foreign \cap Own = {}
    <2>1. pc = "merge" => mem.w \in Workloads /\ TargetsHere(mem.w)
      BY Held DEF Purposeful
    <2> QED BY <2>1, SameScene, Scened, SetsAssumption DEF TypeOK, Rivals, Delivered
  <1>2. \A s \in Existing(sa) : sa[s] \subseteq Foreign \cup (IF s \in Managed THEN Delivered ELSE {})
    BY DEF Sourced
  <1>3. \A s \in Existing(sa) : sa[s] \cap Own # {} => Needs[Owner] \subseteq sa[s]
    BY DEF Sourced
  <1>4. ASSUME NEW s \in Existing(sa')
        PROVE  /\ sa'[s] \subseteq Foreign \cup (IF s \in Managed THEN Delivered ELSE {})
               /\ sa'[s] \cap Own # {} => Needs[Owner] \subseteq sa'[s]
    <2>1. CASE sa' = sa
      BY <1>2, <1>3, <1>4, <2>1
    <2>2. ASSUME NEW t \in SAs, pc = "merge", t \in Managed, sa[t] # None,
                 sa' = [sa EXCEPT ![t] = sa[t] \cup Needs[mem.w]]
          PROVE  /\ sa'[s] \subseteq Foreign \cup (IF s \in Managed THEN Delivered ELSE {})
                 /\ sa'[s] \cap Own # {} => Needs[Owner] \subseteq sa'[s]
      <3>1. CASE s = t
        <4>1. t \in Existing(sa) /\ sa'[s] = sa[t] \cup Needs[mem.w]
          BY <1>1, <2>2, <3>1 DEF Existing, Accounts
        <4> QED BY <1>1, <1>2, <1>3, <2>2, <3>1, <4>1
      <3>2. CASE s # t
        BY <1>1, <1>2, <1>3, <1>4, <2>2, <3>2 DEF Existing, Accounts
      <3> QED BY <3>1, <3>2
    <2>3. ASSUME NEW t \in SAs, sa' = [sa EXCEPT ![t] = {}]
          PROVE  /\ sa'[s] \subseteq Foreign \cup (IF s \in Managed THEN Delivered ELSE {})
                 /\ sa'[s] \cap Own # {} => Needs[Owner] \subseteq sa'[s]
      BY <1>1, <1>2, <1>3, <1>4, <2>3 DEF Existing, Accounts
    <2>4. ASSUME NEW t \in SAs, NEW x \in Foreign, sa[t] # None, sa' = [sa EXCEPT ![t] = sa[t] \cup {x}]
          PROVE  /\ sa'[s] \subseteq Foreign \cup (IF s \in Managed THEN Delivered ELSE {})
                 /\ sa'[s] \cap Own # {} => Needs[Owner] \subseteq sa'[s]
      BY <1>1, <1>2, <1>3, <1>4, <2>4 DEF Existing, Accounts
    <2> QED BY <2>1, <2>2, <2>3, <2>4, AccountsMove
  <1>5. sa[chart.sa] # None => sa'[chart.sa] # None /\ OnSA \subseteq OnSA'
    BY <1>1, AccountsGrow DEF OnSA
  <1>6. ASSUME NEW i \in Replicas, pod'[i].state # "gone", chart.own = {}
        PROVE  /\ sa'[chart.sa] # None
               /\ IF chart.hook = {} THEN pod'[i].secrets \subseteq OnSA' ELSE chart.hook \subseteq pod'[i].secrets
    <2>1. CASE Admit(i)
      BY <1>5, <1>6, <2>1, Admission
    <2>2. CASE ~Admit(i)
      <3>1. pod'[i].secrets = pod[i].secrets /\ pod[i].state # "gone"
        BY <1>6, <2>2, PodsMove
      <3> QED BY <1>5, <1>6, <3>1 DEF Sourced
    <2> QED BY <2>1, <2>2
  <1> QED BY <1>1, <1>4, <1>6 DEF Sourced

LEMMA StepRemoved ==
    ASSUME TypeInv, Purposeful, Moves, Removed
    PROVE  Removed'
  <1> TypeOK BY DEF TypeInv
  <1> SUFFICES ASSUME NEW i \in Replicas,
                      \/ last' = <<i, pod'[i].gen>>
                      \/ pc' = "record" /\ mem'.pod = <<i, pod'[i].gen>>
               PROVE  pod'[i].state \in {"ending", "gone"}
    BY DEF Removed
  <1>1. CASE Admit(i)
    <2>1. pod'[i].gen = NextGen(i) /\ Forgotten(i) /\ pc' = pc /\ mem' = mem
      BY <1>1, Admission DEF Admit
    <2>2. last' # <<i, NextGen(i)>>
      <3>1. NextGen(i) \in Gens
        BY DEF NextGen, TypeOK, Pods, Gens
      <3>2. None # <<i, NextGen(i)>>
        BY <3>1, NoneAssumption DEF Copies
      <3>3. last' = IF last = <<i, NextGen(i)>> THEN None ELSE last
        BY <1>1 DEF Admit
      <3> QED BY <3>2, <3>3
    <2>3. pc # "idle" => mem # None
      BY Held
    <2> QED BY <2>1, <2>2, <2>3 DEF Forgotten
  <1>2. CASE ~Admit(i)
    <2>1. /\ pod'[i].gen = pod[i].gen
          /\ pod[i].state \in {"ending", "gone"} => pod'[i].state \in {"ending", "gone"}
      BY <1>2, PodsMove DEF TypeOK
    <2>2. CASE DeletePod
      <3>1. /\ pc = "delete" /\ mem.pod \in Copies /\ mem \in Passes /\ last' = last
            /\ pod' = Deleted(mem.pod[1], mem.pod[2]) /\ mem'.pod = mem.pod
        BY <2>2, Held DEF DeletePod, TypeInv, Aimed, GoTo, Passes
      <3>2. CASE mem'.pod = <<i, pod'[i].gen>>
        <4>1. mem.pod[1] = i /\ mem.pod[2] = pod[i].gen
          BY <2>1, <3>1, <3>2
        <4> QED BY <3>1, <4>1, Ending
      <3>3. CASE last' = <<i, pod'[i].gen>>
        BY <2>1, <3>1, <3>3 DEF Removed
      <3> QED BY <3>2, <3>3
    <2>3. CASE Record
      <3>1. pc = "record" /\ last' = mem.pod /\ pc' = "pods"
        BY <2>3 DEF Record, NextPod, GoTo
      <3> QED BY <2>1, <3>1 DEF Removed
    <2>4. CASE ~DeletePod /\ ~Record
      <3>1. last' = last \/ \E j \in Replicas : Admit(j) /\ last' = None
        BY <2>4 DEF Moves, Begin, Event, Deliver, ListPods, DeletePod, Record, Finish, Toggle, vars,
             MergeSA, CreateSA, AddSecret, Watch, Recreate, Skip, Count, PodStep, Admit, PullFails,
             Pulled, Ends, Starts, Becomes, PullsAgain, Sync, tally
      <3>2. pc' = "record" => UNCHANGED <<pc, mem>>
        BY <2>4 DEF Moves, Begin, Event, Deliver, ListPods, Finish, Toggle, vars,
             MergeSA, CreateSA, AddSecret, Watch, Recreate, Skip, Count, PodStep, Admit, PullFails,
             Pulled, Ends, Starts, Becomes, PullsAgain, Sync, NextPod, EndPass, Errs, GoTo
      <3>3. last' = None => last' # <<i, pod'[i].gen>>
        <4>1. NextGen(i) \in Gens /\ pod[i].gen \in Gens
          BY DEF NextGen, TypeOK, Pods, Gens
        <4>2. last \in Copies \cup {None} /\ None # <<i, pod[i].gen>>
          BY NoneAssumption, <4>1 DEF TypeOK, Copies
        <4> QED BY <2>1, <4>2
      <3> QED BY <2>1, <3>1, <3>2, <3>3 DEF Removed
    <2> QED BY <2>2, <2>3, <2>4
  <1> QED BY <1>1, <1>2

\* What a ServiceAccount lacks only the workload itself gives it, and only a new
\* one lacks more.
LEMMA LackingStays ==
    ASSUME TypeInv, Purposeful, Moves, Foreign \cap Delivered = {}, OwnSecrets,
           UNCHANGED scene, Local, Sourced, NEW s \in SAs
    PROVE  /\ Lacking(s) => Lacking(s)' \/ (pc = "merge" /\ mem.w = Owner /\ MergeSA(s))
           /\ Lacking(s)' => Lacking(s) \/ CreateSA(s)
  <1> TypeOK BY DEF TypeInv
  <1>1. /\ sa \in Accounts /\ sa' \in Accounts /\ Owner' = Owner
        /\ Needs[Owner] \subseteq Delivered /\ Own \subseteq Needs[Owner]
        /\ Needs[Owner] # {} => Own # {}
        /\ pc = "merge" /\ mem.w # Owner => Needs[mem.w] \cap Own = {}
    <2>1. pc = "merge" => mem.w \in Workloads /\ TargetsHere(mem.w)
      BY Held DEF Purposeful
    <2>2. sa' \in Accounts
      BY StepTypes DEF TypeInv, TypeOK, Moves, Next, PassStep
    <2> QED BY <2>1, <2>2, SameScene, Scened DEF TypeOK, Rivals
  <1>2. sa[s] # None /\ sa[s] \cap Own # {} => Needs[Owner] \subseteq sa[s]
    BY DEF Sourced, Existing
  <1>3. ASSUME Lacking(s), ~(mem.w = Owner /\ MergeSA(s)) PROVE Lacking(s)' \/ sa'[s] = None
    <2>1. s \in Managed /\ sa[s] # None /\ ~(Needs[Owner] \subseteq sa[s]) /\ sa[s] \cap Own = {}
      BY <1>2, <1>3 DEF Lacking
    <2>2. ASSUME NEW t \in SAs, pc = "merge", MergeSA(t), sa' = [sa EXCEPT ![t] = sa[t] \cup Needs[mem.w]]
          PROVE  ~(Needs[Owner] \subseteq sa'[s])
      <3>1. CASE t = s
        <4>1. mem.w # Owner /\ sa'[s] = sa[s] \cup Needs[mem.w]
          BY <1>1, <1>3, <2>2, <3>1 DEF Accounts
        <4>2. sa'[s] \cap Own = {}
          BY <1>1, <2>1, <2>2, <4>1
        <4> QED BY <1>1, <2>1, <4>2
      <3>2. CASE t # s
        BY <1>1, <2>1, <2>2, <3>2 DEF Accounts
      <3> QED BY <3>1, <3>2
    <2>3. ASSUME NEW t \in SAs, sa[t] = None, sa' = [sa EXCEPT ![t] = {}]
          PROVE  ~(Needs[Owner] \subseteq sa'[s])
      BY <1>1, <2>1, <2>3 DEF Accounts
    <2>4. ASSUME NEW t \in SAs, NEW x \in Foreign, sa' = [sa EXCEPT ![t] = sa[t] \cup {x}]
          PROVE  ~(Needs[Owner] \subseteq sa'[s])
      BY <1>1, <2>1, <2>4 DEF Accounts
    <2>5. ~(Needs[Owner] \subseteq sa'[s])
      BY <2>1, <2>2, <2>3, <2>4, AccountsMove
    <2> QED BY <1>1, <2>1, <2>5 DEF Lacking
  <1>4. Lacking(s) => sa'[s] # None
    BY AccountsGrow DEF Lacking
  <1>5. MergeSA(s) => pc = "merge"
    BY DEF MergeSA
  <1>6. ASSUME Lacking(s)' PROVE Lacking(s) \/ CreateSA(s)
    <2>1. s \in Managed /\ sa'[s] # None /\ ~(Needs[Owner] \subseteq sa'[s])
      BY <1>1, <1>6 DEF Lacking
    <2>2. sa[s] # None => ~(Needs[Owner] \subseteq sa[s])
      BY <2>1, AccountsGrow
    <2>3. sa[s] = None => CreateSA(s)
      BY <1>1, <2>1, AccountsMove DEF Accounts
    <2> QED BY <2>1, <2>2, <2>3 DEF Lacking
  <1> QED BY <1>3, <1>4, <1>5, <1>6

\* What may become of a pod and of its copy.
LEMMA Fates ==
    ASSUME TypeInv, Purposeful, Moves, NEW i \in Replicas
    PROVE  /\ \/ pod'[i] = pod[i] \/ pod'[i].state = "ending"
              \/ Starts(i) \/ PullFails(i) \/ Pulled(i) \/ Ends(i) \/ PullsAgain(i) \/ Admit(i)
           /\ seen'[i] = seen[i] \/ seen'[i] = pod'[i]
           /\ count' = count \/ (count < MaxBounces /\ pod' = pod)
  <1> TypeOK BY DEF TypeInv
  <1>1. CASE DeletePod
    <2>1. mem.pod[1] \in Replicas /\ pod' = Deleted(mem.pod[1], mem.pod[2])
      BY <1>1 DEF DeletePod, TypeInv, Aimed, Copies
    <2>2. PICK j \in Replicas : j = mem.pod[1]
      BY <2>1
    <2>3. pod'[i] = pod[i] \/ pod'[i].state = "ending"
      BY <2>1, <2>2, Ending
    <2> QED BY <1>1, <2>3 DEF DeletePod
  <1>2. ASSUME NEW j \in Replicas, Recreate(j)
        PROVE  (pod'[i] = pod[i] \/ pod'[i].state = "ending") /\ seen' = seen /\ count' = count
    BY <1>2, Ending DEF Recreate, tally
  <1>3. ASSUME NEW j \in Replicas, j # i, PullFails(j) \/ Pulled(j) \/ Ends(j) \/ Starts(j) \/ Admit(j)
        PROVE  pod'[i] = pod[i] /\ seen' = seen /\ count' = count
    BY <1>3 DEF PullFails, Pulled, Ends, Starts, Becomes, Admit, TypeOK, tally
  <1>4. ASSUME NEW j \in Replicas, j # i, PullsAgain(j) \/ Sync(j)
        PROVE  pod'[i] = pod[i] /\ seen'[i] = seen[i] /\ count' = count
    BY <1>4 DEF PullsAgain, Sync, TypeOK, tally
  <1>5. ASSUME PullFails(i) \/ Pulled(i) \/ Ends(i) \/ Starts(i) \/ Admit(i)
        PROVE  seen' = seen /\ count' = count
    BY <1>5 DEF PullFails, Pulled, Ends, Starts, Becomes, Admit, tally
  <1>6. PullsAgain(i) => (seen'[i] = seen[i] \/ seen'[i] = pod'[i]) /\ count' = count
    BY DEF PullsAgain, TypeOK, tally
  <1>7. Sync(i) => pod'[i] = pod[i] /\ seen'[i] = pod'[i] /\ count' = count
    BY DEF Sync, TypeOK, tally
  <1>8. ASSUME NEW j \in Replicas, Count(j) PROVE pod' = pod /\ seen' = seen /\ count < MaxBounces
    BY <1>8 DEF Count, Bounceable, pods
  <1>9. \/ UNCHANGED <<pods, count>> \/ DeletePod
        \/ \E j \in Replicas : Recreate(j) \/ Count(j) \/ PodStep(j) \/ Starts(j) \/ PullsAgain(j) \/ Sync(j)
    BY DEF Moves, Begin, Event, Deliver, ListPods, Record, Finish, Toggle, vars, MergeSA, CreateSA,
           AddSecret, Watch, Skip, tally
  <1> QED BY <1>1, <1>2, <1>3, <1>4, <1>5, <1>6, <1>7, <1>8, <1>9 DEF PodStep, pods

\* A pod admitted once nothing is owed has the secrets.
LEMMA AdmittedServed ==
    ASSUME TypeOK, NEW i \in Replicas, Admit(i), UNCHANGED scene, ~Owing, chart.sa \in SAs
    PROVE  Cared(i)'
  <1>1. Plain' = Plain /\ Owner' = Owner
    BY SameScene
  <1>2. CASE Plain
    <2>1. sa[chart.sa] # None /\ pod'[i].secrets = OnSA
      BY <1>2, Admission DEF Plain
    <2>2. Needs[Owner] \subseteq OnSA
      BY <1>2, <2>1 DEF Owing, Lacking, Plain, OnSA
    <2> QED BY <1>1, <2>1, <2>2 DEF Cared
  <1> QED BY <1>1, <1>2 DEF Cared

LEMMA CaredStays ==
    ASSUME TypeInv, Purposeful, Moves, UNCHANGED scene, ~Owing, chart.sa \in SAs,
           NEW i \in Replicas, Cared(i), ~PullsAgain(i)
    PROVE  Cared(i)'
  <1> TypeOK BY DEF TypeInv
  <1>1. Plain' = Plain /\ Owner' = Owner /\ chart' = chart
    BY SameScene
  <1>2. count' = count \/ (count < MaxBounces /\ pod' = pod)
    BY Fates
  <1>3. CASE pod'[i] = pod[i]
    <2>1. count \in Nat
      BY DEF TypeOK
    <2> QED BY <1>1, <1>2, <1>3, <2>1, MaxBouncesAssumption DEF Cared, Bounces
  <1>4. CASE pod'[i].state = "ending"
    BY <1>4 DEF Cared, Waiting
  <1>5. CASE Admit(i)
    BY <1>5, AdmittedServed
  <1>6. CASE Starts(i) \/ PullFails(i)
    <2>1. \E state : pod' = [pod EXCEPT ![i].state = state] /\ pod[i].state \in {"pending", "started"}
      BY <1>6 DEF Starts, PullFails, Becomes
    <2>2. pod'[i].secrets = pod[i].secrets /\ pod[i].state \in {"pending", "started"}
      BY <2>1, AnotherState
    <2> QED BY <1>1, <2>2 DEF Cared, Bounces, Waiting
  <1>7. CASE Pulled(i) \/ Ends(i)
    <2>1. \E state \in {"running", "gone"} : pod' = [pod EXCEPT ![i].state = state]
      BY <1>7 DEF Pulled, Ends, Becomes
    <2>2. pod'[i].state \in {"running", "gone"}
      BY <2>1, AnotherState
    <2> QED BY <2>2 DEF Cared, Waiting
  <1> QED BY <1>3, <1>4, <1>5, <1>6, <1>7, Fates

LEMMA InformedStays ==
    ASSUME TypeInv, Purposeful, Moves, UNCHANGED scene, ~Owing, chart.sa \in SAs,
           NEW i \in Replicas, Informed(i)
    PROVE  Cared(i)' \/ Informed(i)'
  <1> TypeOK BY DEF TypeInv
  <1>1. CASE seen'[i] = pod'[i]
    BY <1>1 DEF Cared, Informed, Waiting
  <1>2. CASE seen'[i] = seen[i]
    <2>1. CASE pod'[i] = pod[i]
      BY <1>2, <2>1 DEF Informed
    <2>2. CASE pod'[i].state = "ending"
      BY <2>2 DEF Cared, Waiting
    <2>3. CASE Admit(i)
      BY <2>3, AdmittedServed
    <2>4. CASE Starts(i) \/ PullFails(i) \/ Pulled(i) \/ Ends(i) \/ PullsAgain(i)
      <3>1. PICK state : /\ pod' = [pod EXCEPT ![i].state = state]
                         /\ state \in {"running", "gone", "failing"} \/ (state = "started" /\ pod[i].state = "pending")
        BY <2>4 DEF Starts, PullFails, Pulled, Ends, Becomes, PullsAgain
      <3>2. pod'[i].gen = pod[i].gen /\ pod'[i].secrets = pod[i].secrets /\ pod'[i].state = state
        BY <3>1, AnotherState
      <3> QED BY <1>2, <3>1, <3>2 DEF Informed, Cared, Waiting
    <2> QED BY <2>1, <2>2, <2>3, <2>4, Fates
  <1> QED BY <1>1, <1>2, Fates

\* The informer brings what it is told that a pull fails again.
LEMMA PulledAgain ==
    ASSUME TypeOK, Local, UNCHANGED scene, Owner \in Workloads, NEW i \in Replicas, PullsAgain(i)
    PROVE  Informed(i)' /\ event'[Owner]
  <1>1. pod' = [pod EXCEPT ![i].state = "failing"] /\ seen' = [seen EXCEPT ![i] = pod'[i]]
        /\ event' = [event EXCEPT ![Owner] = TRUE]
    BY DEF PullsAgain, Owner
  <1>2. pod'[i].state = "failing" /\ seen'[i] = pod'[i] /\ event'[Owner]
    BY <1>1, AnotherState DEF TypeOK
  <1> QED BY <1>2 DEF Informed, Waiting

LEMMA KnownStays ==
    ASSUME TypeInv, Purposeful, Moves, UNCHANGED scene, Local, ~Owing, chart.sa \in SAs,
           Owner \in Workloads, Known
    PROVE  Known'
  BY CaredStays, InformedStays, PulledAgain DEF Known, TypeInv

\* What the steps below have in common.
Steady ==
    /\ TypeInv /\ Purposeful /\ Smooth /\ Sourced /\ Removed /\ Counted
    /\ Foreign \cap Delivered = {} /\ OwnSecrets

LEMMA SteadyFacts ==
    ASSUME Steady, Moves, UNCHANGED scene
    PROVE  /\ TypeOK /\ TypeInv' /\ Local /\ TargetsHere(Owner)
           /\ chart.sa \in SAs /\ Owner \in Workloads /\ Owner' = Owner
           /\ Known /\ ~Owing => Known'
           /\ \A s \in SAs : /\ Lacking(s) => Lacking(s)' \/ (pc = "merge" /\ mem.w = Owner /\ MergeSA(s))
                             /\ Lacking(s)' => Lacking(s) \/ CreateSA(s)
           /\ (pc # "merge" \/ mem.w # Owner) /\ Owing => Owing'
           /\ \A i \in Replicas :
                ~Owing => /\ Cared(i) /\ ~PullsAgain(i) => Cared(i)'
                          /\ Informed(i) => Cared(i)' \/ Informed(i)'
  <1>1. TypeOK /\ Local /\ TargetsHere(Owner) /\ Local /\ Owner' = Owner
    BY SameScene DEF Steady, Smooth, TypeInv
  <1>2. chart.sa \in SAs /\ Owner \in Workloads
    BY <1>1, Scened DEF Steady
  <1>3. TypeInv'
    BY StepTypes DEF Steady, Moves, Next, PassStep
  <1>4. \A s \in SAs : /\ Lacking(s) => Lacking(s)' \/ (pc = "merge" /\ mem.w = Owner /\ MergeSA(s))
                       /\ Lacking(s)' => Lacking(s) \/ CreateSA(s)
    BY <1>1, LackingStays DEF Steady
  <1>5. (pc # "merge" \/ mem.w # Owner) /\ Owing => Owing'
    BY <1>4 DEF Owing
  <1>6. Known /\ ~Owing => Known'
    BY <1>1, <1>2, KnownStays DEF Steady
  <1>7. \A i \in Replicas :
          ~Owing => /\ Cared(i) /\ ~PullsAgain(i) => Cared(i)'
                    /\ Informed(i) => Cared(i)' \/ Informed(i)'
    BY <1>1, <1>2, CaredStays, InformedStays DEF Steady
  <1> QED BY <1>1, <1>2, <1>3, <1>4, <1>5, <1>6, <1>7

\* Steps outside the pass.
LEMMA MeanwhileStands ==
    ASSUME Steady, Stand, UNCHANGED scene,
           \/ \E w \in Workloads : Event(w)
           \/ Toggle \/ UNCHANGED vars
           \/ \E s \in SAs : CreateSA(s) \/ \E x \in Foreign : AddSecret(s, x)
           \/ \E i \in Replicas : PodStep(i) \/ Starts(i) \/ PullsAgain(i) \/ Sync(i)
    PROVE  Stand'
  <1>1. Moves
    BY DEF Moves
  <1> TypeOK BY <1>1, SteadyFacts
  <1>2. /\ UNCHANGED <<pc, mem, due>>
        /\ event[Owner] => event'[Owner]
        /\ resolved' => resolved \/ event'[Owner]
        /\ \A s \in SAs : CreateSA(s) => event'[Owner]
        /\ \A i \in Replicas : PullsAgain(i) => event'[Owner]
        /\ \A s \in SAs : MergeSA(s) => ~(pc = "merge") \/ UNCHANGED sa
    <2>1. Owner \in Workloads
      BY <1>1, SteadyFacts
    <2>2. UNCHANGED <<pc, mem, due>>
      BY DEF Event, Toggle, vars, CreateSA, AddSecret, Edit, PodStep, Admit, PullFails, Pulled, Ends,
             Starts, Becomes, PullsAgain, Sync, queues
    <2>3. \/ event' = event /\ resolved' = resolved
          \/ \E w \in Workloads : event' = [event EXCEPT ![w] = TRUE] /\ resolved' = resolved
          \/ event' = [w \in Workloads |-> TRUE]
      <3>1. \A s \in SAs : CreateSA(s) => event' = [event EXCEPT ![Owner] = TRUE] /\ resolved' = resolved
        BY DEF CreateSA, Owner
      <3>2. \A i \in Replicas : PullsAgain(i) => event' = [event EXCEPT ![Owner] = TRUE] /\ resolved' = resolved
        BY DEF PullsAgain, Owner
      <3>3. (\E w \in Workloads : Event(w)) =>
              \E w \in Workloads : event' = [event EXCEPT ![w] = TRUE] /\ resolved' = resolved
        BY DEF Event
      <3>4. \/ Toggle \/ UNCHANGED vars \/ \E s \in SAs, x \in Foreign : AddSecret(s, x)
            \/ \E i \in Replicas : PodStep(i) \/ Starts(i) \/ Sync(i)
            => (event' = event /\ resolved' = resolved) \/ event' = [w \in Workloads |-> TRUE]
        BY DEF Toggle, vars, AddSecret, Edit, PodStep, Admit, PullFails, Pulled, Ends,
               Starts, Becomes, Sync, queues
      <3> QED BY <2>1, <3>1, <3>2, <3>3, <3>4
    <2>4. (event[Owner] => event'[Owner]) /\ (resolved' => resolved \/ event'[Owner])
      BY <2>1, <2>3 DEF TypeOK
    <2>5. \A s \in SAs : CreateSA(s) => event'[Owner]
      BY <2>1 DEF CreateSA, Owner, TypeOK
    <2>6. \A i \in Replicas : PullsAgain(i) => event'[Owner]
      BY <2>1 DEF PullsAgain, Owner, TypeOK
    <2>7. ASSUME NEW s \in SAs, MergeSA(s) PROVE mem' # mem \/ UNCHANGED sa
      <3>1. CASE Errs /\ UNCHANGED sa
        BY <3>1
      <3>2. CASE ~(Errs /\ UNCHANGED sa)
        <4>1. mem'.todo = mem.todo \ {s} /\ s \in mem.todo
          BY <2>7, <3>2, Held DEF MergeSA, GoTo, Passes
        <4> QED BY <4>1
      <3> QED BY <3>1, <3>2
    <2> QED BY <2>2, <2>4, <2>5, <2>6, <2>7
  <1>3. Owner' = Owner /\ OwnPass' = OwnPass
    BY <1>1, <1>2, SteadyFacts DEF OwnPass
  <1>4. \A s \in SAs : /\ Lacking(s) => Lacking(s)'
                       /\ Lacking(s)' => Lacking(s) \/ event'[Owner]
    <2>1. UNCHANGED sa => \A s \in SAs : Lacking(s)' = Lacking(s)
      BY <1>3 DEF Lacking
    <2> QED BY <1>1, <1>2, <2>1, SteadyFacts
  <1>5. (Owing => Owing') /\ (Owing' => Owing \/ event'[Owner])
    BY <1>4 DEF Owing
  <1>6. Known => Owing' \/ Known'
    BY <1>1, <1>5, SteadyFacts
  <1>7. ASSUME NEW i \in Replicas, ~Owing
        PROVE  /\ Cared(i) => Cared(i)' \/ (Informed(i)' /\ event'[Owner])
               /\ Informed(i) => Cared(i)' \/ Informed(i)'
    BY <1>1, <1>7, SteadyFacts, PulledAgain
  <1>8. CASE ~OwnPass
    <2>1. Resting
      BY <1>8 DEF Stand
    <2>2. due'[Owner] \/ Owing' \/ Known'
      BY <1>2, <1>5, <1>6, <2>1 DEF Resting
    <2>3. ~event'[Owner] /\ ~due'[Owner] /\ resolved' => ~Owing' /\ \A i \in Replicas : Cared(i)'
      BY <1>2, <1>5, <1>7, <2>1 DEF Resting
    <2> QED BY <1>3, <1>8, <2>2, <2>3 DEF Stand, Resting
  <1>9. CASE OwnPass
    <2>1. InPass
      BY <1>9 DEF Stand
    <2>2. CASE pc = "scope"
      BY <1>2, <1>3, <1>5, <1>6, <1>9, <2>1, <2>2 DEF InPass, Stand
    <2>3. CASE pc = "merge"
      <3>1. \A s \in SAs \cap mem.todo :
              sa'[s] # None /\ (Lacking(s)' <=> ~(Needs[Owner] \subseteq mem.sas[s]))
        <4> TAKE s \in SAs \cap mem.todo
        <4>1. sa[s] # None /\ (Lacking(s) <=> ~(Needs[Owner] \subseteq mem.sas[s]))
          BY <2>1, <2>3 DEF InPass
        <4>2. sa'[s] # None
          BY <1>1, <4>1, AccountsGrow DEF Steady
        <4>3. ~CreateSA(s)
          BY <4>1 DEF CreateSA
        <4>4. Lacking(s)' => Lacking(s)
          BY <1>1, <4>3, SteadyFacts
        <4> QED BY <1>4, <4>1, <4>2, <4>4
      <3> QED BY <1>2, <1>3, <1>4, <1>5, <1>6, <1>9, <2>1, <2>3, <3>1 DEF InPass, Stand
    <2>4. CASE pc \in {"pods", "delete", "record"}
      <3>1. event'[Owner] \/ ~Owing'
        BY <1>2, <1>5, <2>1, <2>4 DEF InPass
      <3>2. ASSUME NEW i \in Replicas, ~Owing, ToCome(i), Informed(i)
            PROVE  Cared(i)' \/ (Informed(i)' /\ ToCome(i)')
        <4>1. CASE event[Owner]
          BY <1>2, <1>3, <1>7, <3>2, <4>1 DEF ToCome
        <4>2. CASE pod'[i].gen = pod[i].gen
          BY <1>2, <1>3, <1>7, <3>2, <4>2 DEF ToCome
        <4>3. CASE pod'[i].gen # pod[i].gen
          <5>1. Admit(i)
            BY <1>1, <4>3, PodsMove DEF Steady
          <5> QED BY <1>1, <3>2, <5>1, AdmittedServed, SteadyFacts
        <4> QED BY <4>1, <4>2, <4>3
      <3>3. \/ due'[Owner] \/ mem'.unsettled \/ Owing'
            \/ \A i \in Replicas : Cared(i)' \/ (Informed(i)' /\ ToCome(i)')
        BY <1>2, <1>3, <1>5, <1>7, <2>1, <2>4, <3>2 DEF InPass, ToCome
      <3> QED BY <1>2, <1>3, <1>9, <2>4, <3>1, <3>3 DEF InPass, Stand
    <2>5. CASE pc \notin {"scope", "merge", "pods", "delete", "record"}
      BY <1>2, <1>3, <1>9, <2>5 DEF InPass, Stand
    <2> QED BY <2>2, <2>3, <2>4, <2>5
  <1> QED BY <1>8, <1>9

\* The start of a pass.
LEMMA BeginStands ==
    ASSUME Steady, Stand, UNCHANGED scene, NEW w \in Workloads, Begin(w)
    PROVE  Stand'
  <1>1. Moves
    BY DEF Moves
  <1> TypeOK BY <1>1, SteadyFacts
  <1>2. /\ Local /\ Owner \in Workloads /\ Owner' = Owner
        /\ Resting /\ UNCHANGED <<sa, pod, seen, count, resolved>>
        /\ pc' \in {"scope", "cleanup"} /\ mem'.w = w
    BY <1>1, SteadyFacts DEF Begin, Stand, OwnPass, pods, tally
  <1>3. /\ Owing' = Owing /\ Known' = Known /\ \A i \in Replicas : Cared(i)' = Cared(i)
    BY <1>2, SameScene DEF Owing, Lacking, Known, Cared, Informed, Bounces
  <1>4. CASE w # Owner
    <2>1. event'[Owner] = event[Owner] /\ due'[Owner] = due[Owner]
      BY <1>2, <1>4 DEF Begin, TypeOK
    <2> QED BY <1>2, <1>3, <1>4, <2>1 DEF Resting, Stand, OwnPass
  <1>5. CASE w = Owner
    <2>1. pc' = "scope"
      BY <1>5 DEF Begin, Steady, Smooth
    <2>2. due' = due \/ seen = pod
      BY <1>2 DEF Begin
    <2>3. seen = pod => Known
      BY DEF Known, Cared, Informed
    <2>4. due'[Owner] \/ Owing' \/ Known'
      BY <1>2, <1>3, <2>2, <2>3 DEF Resting
    <2> QED BY <1>2, <1>5, <2>1, <2>4 DEF Stand, OwnPass, InPass
  <1> QED BY <1>4, <1>5

\* A step of the pass is nobody else's.
LEMMA PassAlone ==
    ASSUME TypeInv, pc # "idle",
           \/ Deliver \/ ListPods \/ DeletePod \/ Record \/ Finish
           \/ \E s \in SAs : MergeSA(s)
           \/ \E i \in Replicas : Watch(i) \/ Recreate(i) \/ Skip(i) \/ Count(i)
    PROVE  (\A s \in SAs : ~CreateSA(s)) /\ \A i \in Replicas : ~PullsAgain(i)
  <1> TypeOK BY DEF TypeInv
  <1>1. \A s \in SAs : ~CreateSA(s)
    <2>1. \A s \in SAs : CreateSA(s) => UNCHANGED <<pc, mem>> /\ sa[s] = None /\ sa'[s] = {}
      BY DEF CreateSA, TypeOK, Accounts
    <2>2. UNCHANGED sa \/ pc' # pc \/ mem' # mem
      <3>1. ASSUME NEW s \in SAs, MergeSA(s) PROVE UNCHANGED sa \/ mem' # mem
        <4>1. CASE ~(Errs /\ UNCHANGED sa)
          <5>1. mem'.todo = mem.todo \ {s} /\ s \in mem.todo
            BY Held, <3>1, <4>1 DEF MergeSA, GoTo, Passes
          <5> QED BY <5>1
        <4> QED BY <4>1
      <3> QED BY <3>1 DEF Deliver, ListPods, DeletePod, Record, Finish, Watch, Recreate, Skip, Count
    <2> QED BY <2>1, <2>2, SetsAssumption
  <1>2. \A i \in Replicas : ~PullsAgain(i)
    <2>1. \A i \in Replicas : PullsAgain(i) => edits' # edits
      BY DEF PullsAgain, TypeOK
    <2>2. edits' = edits
      BY DEF Deliver, ListPods, DeletePod, Record, Finish, MergeSA, Watch, Recreate, Skip, Count, bounds
    <2> QED BY <2>1, <2>2
  <1> QED BY <1>1, <1>2

\* The pass of another workload.
LEMMA OthersStand ==
    ASSUME Steady, Stand, UNCHANGED scene, pc # "idle", mem.w # Owner,
           \/ Deliver \/ ListPods \/ DeletePod \/ Record \/ Finish
           \/ \E s \in SAs : MergeSA(s)
           \/ \E i \in Replicas : Watch(i) \/ Recreate(i) \/ Skip(i) \/ Count(i)
    PROVE  Stand'
  <1>1. Moves
    BY DEF Moves
  <1> TypeOK BY <1>1, SteadyFacts
  <1>2. /\ Owner \in Workloads /\ Owner' = Owner /\ Resting
        /\ mem \in Passes /\ mem.w \in Workloads
    BY <1>1, SteadyFacts, Held DEF Stand, OwnPass
  <1>3. /\ resolved' = resolved
        /\ pc' = "idle" \/ mem'.w = mem.w
    <2>1. CASE Deliver \/ ListPods \/ DeletePod \/ Record \/ Finish
      BY <1>2, <2>1 DEF Deliver, ListPods, DeletePod, Record, Finish, NextPod, EndPass, GoTo, Passes
    <2>2. ASSUME NEW s \in SAs, MergeSA(s) PROVE resolved' = resolved /\ (pc' = "idle" \/ mem'.w = mem.w)
      BY <1>2, <2>2 DEF MergeSA, Errs, GoTo, Passes
    <2>3. ASSUME NEW i \in Replicas, Watch(i) \/ Recreate(i) \/ Skip(i) \/ Count(i)
          PROVE  resolved' = resolved /\ (pc' = "idle" \/ mem'.w = mem.w)
      BY <1>2, <2>3 DEF Watch, Recreate, Skip, Count, NextPod, GoTo, Passes
    <2> QED BY <2>1, <2>2, <2>3
  <1>4. /\ event'[Owner] = event[Owner] /\ due'[Owner] = due[Owner]
    <2>1. UNCHANGED queues \/ EndPass \/ Errs
      BY DEF Deliver, ListPods, DeletePod, Record, Finish, MergeSA, Watch, Recreate, Skip, Count,
             NextPod, GoTo
    <2> QED BY <1>2, <2>1 DEF EndPass, Errs, queues, TypeOK
  <1>5. \A s \in SAs : ~CreateSA(s)
    BY PassAlone DEF Steady
  <1>6. (Owing => Owing') /\ (Owing' => Owing)
    BY <1>1, <1>2, <1>5, SteadyFacts DEF Owing
  <1>7. \A i \in Replicas : ~PullsAgain(i)
    BY PassAlone DEF Steady
  <1>8. Known => Owing' \/ Known'
    BY <1>1, <1>6, SteadyFacts
  <1>9. \A i \in Replicas : ~Owing /\ Cared(i) => Cared(i)'
    BY <1>1, <1>7, SteadyFacts
  <1>10. Resting'
    BY <1>2, <1>3, <1>4, <1>6, <1>8, <1>9 DEF Resting
  <1>11. ~OwnPass'
    BY <1>2, <1>3 DEF OwnPass
  <1> QED BY <1>10, <1>11 DEF Stand

\* The workload's own pass, as far as the ServiceAccounts.
LEMMA DeliverStands ==
    ASSUME Steady, Stand, UNCHANGED scene, OwnPass, Deliver
    PROVE  Stand'
  <1>1. Moves
    BY DEF Moves
  <1> TypeOK BY <1>1, SteadyFacts
  <1>2. /\ Local /\ TargetsHere(Owner) /\ Owner \in Workloads /\ Owner' = Owner
        /\ mem \in Passes /\ mem.w = Owner /\ pc = "scope" /\ mem.unsettled \in BOOLEAN
        /\ UNCHANGED <<sa, pod, seen, count, resolved>>
        /\ due[Owner] \/ Owing \/ Known
    BY <1>1, SteadyFacts, Held DEF Deliver, Stand, OwnPass, InPass, pods, tally
  <1>3. /\ Owing' = Owing /\ Known' = Known /\ \A s \in SAs : Lacking(s)' = Lacking(s)
    BY <1>2, SameScene DEF Owing, Lacking, Known, Cared, Informed, Bounces
  <1>4. CASE ~resolved /\ EndPass
    <2>1. pc' = "idle" /\ (due[Owner] => due'[Owner])
      BY <1>2, <1>4 DEF EndPass, TypeOK
    <2> QED BY <1>2, <1>3, <1>4, <2>1 DEF Stand, OwnPass, Resting
  <1>5. CASE GoTo("merge", [mem EXCEPT !.sas = sa, !.todo = Managed \cap Existing(sa)])
    <2>1. /\ pc' = "merge" /\ mem'.w = Owner /\ mem'.sas = sa /\ mem'.todo = Managed \cap Existing(sa)
          /\ UNCHANGED due
      BY <1>2, <1>5 DEF GoTo, Passes, queues
    <2>2. \A s \in SAs : Lacking(s)' => s \in mem'.todo
      BY <1>3, <2>1 DEF Lacking, Existing
    <2>3. \A s \in SAs \cap mem'.todo :
            sa'[s] # None /\ (Lacking(s)' <=> ~(Needs[Owner] \subseteq mem'.sas[s]))
      BY <1>2, <1>3, <2>1 DEF Lacking, Existing
    <2>4. due'[Owner] \/ Owing' \/ Known'
      BY <1>2, <1>3, <2>1
    <2>5. OwnPass' /\ pc' = "merge"
      BY <1>2, <2>1 DEF OwnPass
    <2> QED BY <1>2, <2>2, <2>3, <2>4, <2>5 DEF Stand, InPass
  <1> QED BY <1>2, <1>4, <1>5 DEF Deliver

LEMMA MergeStands ==
    ASSUME Steady, Stand, UNCHANGED scene, OwnPass, NEW s \in SAs, MergeSA(s)
    PROVE  Stand'
  <1>1. Moves
    BY DEF Moves
  <1> TypeOK BY <1>1, SteadyFacts
  <1>2. /\ Owner \in Workloads /\ Owner' = Owner
        /\ mem \in Passes /\ mem.w = Owner /\ pc = "merge" /\ s \in mem.todo /\ mem.unsettled \in BOOLEAN
        /\ UNCHANGED <<pod, seen, count, resolved>> /\ InPass
    BY <1>1, SteadyFacts, Held DEF MergeSA, Stand, OwnPass, pods, tally
  <1>3. /\ s \in Managed /\ sa[s] # None /\ (Lacking(s) <=> ~(Needs[Owner] \subseteq mem.sas[s]))
        /\ due[Owner] \/ mem.unsettled \/ Owing \/ Known
        /\ \A t \in SAs : Lacking(t) => event[Owner] \/ t \in mem.todo
        /\ \A t \in SAs \cap mem.todo :
             sa[t] # None /\ (Lacking(t) <=> ~(Needs[Owner] \subseteq mem.sas[t]))
    BY <1>2 DEF InPass, Steady, Purposeful
  <1>4. UNCHANGED sa => Owing' = Owing /\ Known' = Known /\ \A t \in SAs : Lacking(t)' = Lacking(t)
    BY <1>2, SameScene DEF Owing, Lacking, Known, Cared, Informed, Bounces
  <1>5. CASE Lacking(s) /\ ~Current(s)
    <2>1. Errs /\ UNCHANGED sa
      BY <1>2, <1>3, <1>5 DEF MergeSA
    <2>2. pc' = "idle" /\ event'[Owner] /\ Owing
      BY <1>2, <1>5, <2>1 DEF Errs, Owing, TypeOK
    <2> QED BY <1>2, <1>4, <2>1, <2>2 DEF Stand, OwnPass, Resting
  <1>6. CASE ~(Lacking(s) /\ ~Current(s))
    <2>1. /\ sa' = IF Lacking(s) THEN [sa EXCEPT ![s] = mem.sas[s] \cup Needs[Owner]] ELSE sa
          /\ GoTo("merge", [mem EXCEPT !.todo = @ \ {s}, !.unsettled = @ \/ Lacking(s)])
      <3>1. (~(Needs[Owner] \subseteq mem.sas[s])) = Lacking(s)
        BY <1>3 DEF Lacking
      <3> QED BY <1>2, <1>3, <1>6, <3>1 DEF MergeSA
    <2>2. /\ pc' = "merge" /\ mem'.w = Owner /\ mem'.sas = mem.sas /\ mem'.todo = mem.todo \ {s}
          /\ mem'.unsettled = (mem.unsettled \/ Lacking(s)) /\ UNCHANGED <<event, due>>
      BY <1>2, <2>1 DEF GoTo, Passes, queues
    <2>3. CASE ~Lacking(s)
      <3>1. \A t \in SAs : Lacking(t) => event[Owner] \/ t \in mem'.todo
        BY <1>3, <2>2, <2>3
      <3> QED BY <1>2, <1>3, <1>4, <2>1, <2>2, <2>3, <3>1 DEF Stand, OwnPass, InPass
    <2>4. CASE Lacking(s)
      <3>1. sa' = [sa EXCEPT ![s] = mem.sas[s] \cup Needs[Owner]]
        BY <2>1, <2>4
      <3>2. \A t \in SAs \ {s} : Lacking(t)' = Lacking(t) /\ sa'[t] = sa[t]
        BY <1>2, <3>1 DEF Lacking, TypeOK, Accounts
      <3>3. ~Lacking(s)'
        BY <1>2, <3>1 DEF Lacking, TypeOK, Accounts
      <3>4. \A t \in SAs : Lacking(t)' => event'[Owner] \/ t \in mem'.todo
        BY <1>3, <2>2, <3>2, <3>3
      <3>5. \A t \in SAs \cap mem'.todo :
              sa'[t] # None /\ (Lacking(t)' <=> ~(Needs[Owner] \subseteq mem'.sas[t]))
        BY <1>3, <2>2, <3>2
      <3> QED BY <1>2, <2>2, <2>4, <3>4, <3>5 DEF Stand, OwnPass, InPass
    <2> QED BY <2>3, <2>4
  <1> QED BY <1>5, <1>6

LEMMA ListPodsStands ==
    ASSUME Steady, Stand, UNCHANGED scene, OwnPass, ListPods
    PROVE  Stand'
  <1>1. Moves
    BY DEF Moves
  <1> TypeOK BY <1>1, SteadyFacts
  <1>2. /\ Owner \in Workloads /\ Owner' = Owner
        /\ mem \in Passes /\ mem.w = Owner /\ pc = "merge" /\ mem.todo = {} /\ InPass
        /\ UNCHANGED <<sa, pod, seen, count, event, due>>
        /\ pc' = "pods" /\ mem'.w = Owner /\ mem'.todo = Replicas /\ mem'.unsettled = mem.unsettled
    BY <1>1, SteadyFacts, Held DEF ListPods, Stand, OwnPass, pods, tally, GoTo, Passes, queues
  <1>3. /\ Owing' = Owing
        /\ \A i \in Replicas : Cared(i)' = Cared(i) /\ Informed(i)' = Informed(i)
    BY <1>2, SameScene DEF Owing, Lacking, Cared, Informed, Bounces
  <1>4. event[Owner] \/ ~Owing
    BY <1>2 DEF InPass, Owing
  <1>5. due[Owner] \/ mem.unsettled \/ Owing \/ Known
    BY <1>2 DEF InPass
  <1>6. \A i \in Replicas : ToCome(i)'
    BY <1>2 DEF ToCome
  <1> QED BY <1>2, <1>3, <1>4, <1>5, <1>6 DEF Stand, OwnPass, InPass, Known

\* A pod that is passed over, of which the copy is right, is none that waits to be
\* deleted.
LEMMA SkippedIsCared ==
    ASSUME Steady, pc # "idle", mem.w = Owner, ~Owing, NEW i \in Replicas, Skip(i), Informed(i)
    PROVE  Cared(i)
  <1> SUFFICES ASSUME ~Cared(i) PROVE FALSE
    OBVIOUS
  <1>1. /\ Plain /\ ~(Needs[Owner] \subseteq pod[i].secrets) /\ pod[i].state \in Waiting
        /\ ~(Bounces(pod[i]) /\ count = MaxBounces)
    BY DEF Cared
  <1>2. TypeOK /\ chart.sa \in SAs
    BY Scened DEF Steady, TypeInv
  <1>3. sa[chart.sa] # None /\ pod[i].secrets \subseteq OnSA
    BY <1>1 DEF Steady, Sourced, Plain, Waiting
  <1>4. Needs[Owner] \subseteq OnSA
    BY <1>1, <1>2, <1>3 DEF Owing, Lacking, Plain, OnSA
  <1>5. seen[i].secrets = pod[i].secrets /\ seen[i].gen = pod[i].gen /\ seen[i].state \in Waiting
        /\ (seen[i].state = "failing" => pod[i].state \notin {"pending", "started"})
    BY DEF Informed
  <1>6. Misses(seen[i], mem.w)
    BY <1>1, <1>4, <1>5 DEF Misses
  <1>7. Helps(seen[i], mem.w)
    BY <1>1, <1>3, <1>5, <1>6 DEF Helps, Plain, Owner
  <1>8. Bounces(seen[i]) /\ ~Bounceable(i)
    BY <1>5, <1>7 DEF Skip, Recreatable, Waiting
  <1>9. Bounces(pod[i])
    BY <1>1, <1>5, <1>8 DEF Bounces, Waiting
  <1>10. count < MaxBounces
    BY <1>1, <1>2, <1>9, MaxBouncesAssumption DEF Steady, Counted, TypeOK
  <1>11. last = <<i, pod[i].gen>>
    BY <1>1, <1>5, <1>8, <1>10 DEF Bounceable, Plain, Owner
  <1> QED BY <1>1, <1>11 DEF Steady, Removed, Waiting

\* Its turn over the pods.
LEMMA PodsStand ==
    ASSUME Steady, Stand, UNCHANGED scene, OwnPass,
           \/ DeletePod \/ Record
           \/ \E i \in Replicas : Watch(i) \/ Recreate(i) \/ Skip(i) \/ Count(i)
    PROVE  Stand'
  <1>1. Moves
    BY DEF Moves
  <1> TypeOK BY <1>1, SteadyFacts
  <1>2. /\ Owner \in Workloads /\ Owner' = Owner /\ pc # "idle"
        /\ mem \in Passes /\ mem.w = Owner /\ InPass /\ mem.unsettled \in BOOLEAN
        /\ pc \in {"pods", "delete", "record"} /\ mem.todo \subseteq SAs \cup Replicas
    BY <1>1, SteadyFacts, Held DEF DeletePod, Record, Watch, Recreate, Skip, Count, Turn, Stand, OwnPass
  <1>3. UNCHANGED <<sa, event, due>>
    BY DEF DeletePod, Record, Watch, Recreate, Skip, Count, NextPod, GoTo, queues
  <1>4. Owing' = Owing
    BY <1>2, <1>3 DEF Owing, Lacking
  <1>5. \A i \in Replicas :
          ~Owing => /\ Cared(i) => Cared(i)'
                    /\ Informed(i) => Cared(i)' \/ Informed(i)'
    BY <1>1, <1>2, PassAlone, SteadyFacts DEF Steady
  <1>6. /\ event[Owner] \/ ~Owing
        /\ \/ due[Owner] \/ mem.unsettled \/ Owing
           \/ \A i \in Replicas : Cared(i) \/ (Informed(i) /\ ToCome(i))
    BY <1>2 DEF InPass
  <1>7. ASSUME pc' \in {"pods", "delete", "record"}, mem'.w = Owner, mem.unsettled => mem'.unsettled,
               \A i \in Replicas : ~Owing /\ ~mem'.unsettled /\ Informed(i) /\ ToCome(i) => Cared(i)' \/ ToCome(i)'
        PROVE  Stand'
    <2>1. \/ due'[Owner] \/ mem'.unsettled \/ Owing'
          \/ \A i \in Replicas : Cared(i)' \/ (Informed(i)' /\ ToCome(i)')
      BY <1>3, <1>4, <1>5, <1>6, <1>7
    <2>2. OwnPass' /\ (event'[Owner] \/ ~Owing')
      BY <1>2, <1>3, <1>4, <1>6, <1>7 DEF OwnPass
    <2> QED BY <1>2, <1>7, <2>1, <2>2 DEF Stand, InPass
  <1>8. ASSUME NEW j \in Replicas, NEW more \in BOOLEAN, pc = "pods", NextPod(j, more),
               ~Owing /\ ~more /\ Informed(j) => Cared(j)'
        PROVE  Stand'
    <2>1. /\ pc' = "pods" /\ mem'.w = Owner /\ mem'.todo = mem.todo \ {j}
          /\ mem'.unsettled = (mem.unsettled \/ more)
      BY <1>2, <1>8 DEF NextPod, GoTo, Passes
    <2>2. \A i \in Replicas : ~Owing /\ ~mem'.unsettled /\ Informed(i) /\ ToCome(i) => Cared(i)' \/ ToCome(i)'
      BY <1>2, <1>3, <1>8, <2>1 DEF ToCome
    <2> QED BY <1>7, <2>1, <2>2
  <1>9. ASSUME NEW j \in Replicas, Watch(j) PROVE Stand'
    BY <1>8, <1>9 DEF Watch, Turn
  <1>10. ASSUME NEW j \in Replicas, Recreate(j) PROVE Stand'
    <2>1. pc = "pods" /\ NextPod(j, Found(j, seen[j].gen)) /\ pod' = Deleted(j, seen[j].gen)
      BY <1>10 DEF Recreate, Turn
    <2>2. Found(j, seen[j].gen) \in BOOLEAN
      BY DeletedTypes
    <2>3. ~Found(j, seen[j].gen) /\ Informed(j) => Cared(j)'
      <3>1. ~Found(j, seen[j].gen) /\ Informed(j) => pod'[j].state = "gone"
        BY <2>1, Ending DEF Informed
      <3> QED BY <3>1 DEF Cared, Waiting
    <2> QED BY <1>8, <2>1, <2>2, <2>3
  <1>11. ASSUME NEW j \in Replicas, Skip(j) PROVE Stand'
    <2>1. pc = "pods" /\ NextPod(j, FALSE)
      BY <1>11 DEF Skip, Turn
    <2>2. ~Owing /\ Informed(j) => Cared(j)'
      BY <1>2, <1>5, <1>11, SkippedIsCared
    <2> QED BY <1>8, <2>1, <2>2
  <1>12. ASSUME NEW j \in Replicas, Count(j) PROVE Stand'
    <2>1. /\ pc = "pods" /\ pc' = "delete" /\ mem'.w = Owner /\ mem'.todo = mem.todo
          /\ mem'.unsettled = mem.unsettled /\ mem'.pod = <<j, seen[j].gen>> /\ pod' = pod
      BY <1>2, <1>12 DEF Count, Turn, GoTo, Passes, pods
    <2>2. \A i \in Replicas : Informed(i) /\ ToCome(i) => ToCome(i)'
      BY <1>2, <1>3, <2>1 DEF ToCome, Informed
    <2> QED BY <1>7, <2>1, <2>2
  <1>13. CASE DeletePod
    <2>1. PICK j \in Replicas, gen \in Gens : mem.pod = <<j, gen>>
      BY <1>13 DEF DeletePod, Steady, TypeInv, Aimed, Copies
    <2>2. /\ pc = "delete" /\ pc' = "record" /\ mem'.w = Owner /\ mem'.todo = mem.todo
          /\ mem'.unsettled = (mem.unsettled \/ Found(j, gen)) /\ mem'.pod = mem.pod
          /\ pod' = Deleted(j, gen)
      BY <1>2, <1>13, <2>1 DEF DeletePod, GoTo, Passes
    <2>3. ASSUME NEW i \in Replicas, ~mem'.unsettled, Informed(i), ToCome(i) PROVE Cared(i)' \/ ToCome(i)'
      <3>1. CASE event[Owner]
        BY <1>2, <1>3, <3>1 DEF ToCome
      <3>2. CASE i = j /\ ~event[Owner]
        <4>1. ~Found(j, gen)
          <5>1. (mem.unsettled \/ Found(j, gen)) = mem'.unsettled
            BY <2>2
          <5> QED BY <2>3, <5>1, Zenon
        <4>2. mem.pod[1] = j /\ mem.pod[2] = gen
          BY <2>1
        <4>3. pod[j].gen = gen
          BY <2>2, <2>3, <3>2, <4>2 DEF ToCome
        <4>4. pod'[j].state = "gone"
          BY <2>2, <4>1, <4>3, Ending
        <4> QED BY <3>2, <4>4 DEF Cared, Waiting
      <3>3. CASE i # j /\ ~event[Owner]
        BY <1>2, <2>1, <2>2, <2>3, <3>3 DEF ToCome
      <3> QED BY <3>1, <3>2, <3>3
    <2> QED BY <1>7, <2>2, <2>3
  <1>14. CASE Record
    <2>1. PICK j \in Replicas, gen \in Gens : mem.pod = <<j, gen>>
      BY <1>14 DEF Record, Steady, TypeInv, Aimed, Copies
    <2>2. /\ pc = "record" /\ pc' = "pods" /\ mem'.w = Owner /\ mem'.todo = mem.todo \ {j}
          /\ mem'.unsettled = mem.unsettled
      BY <1>2, <1>14, <2>1 DEF Record, NextPod, GoTo, Passes
    <2>3. \A i \in Replicas : ToCome(i) => ToCome(i)'
      BY <1>2, <1>3, <2>1, <2>2 DEF ToCome
    <2> QED BY <1>7, <2>2, <2>3
  <1> QED BY <1>9, <1>10, <1>11, <1>12, <1>13, <1>14

LEMMA FinishStands ==
    ASSUME Steady, Stand, UNCHANGED scene, OwnPass, Finish
    PROVE  Stand'
  <1>1. Moves
    BY DEF Moves
  <1> TypeOK BY <1>1, SteadyFacts
  <1>2. /\ Owner \in Workloads /\ Owner' = Owner /\ pc = "pods" /\ mem.todo = {}
        /\ mem \in Passes /\ mem.w = Owner /\ InPass /\ mem.unsettled \in BOOLEAN
        /\ UNCHANGED <<sa, pod, seen, count, event, resolved>> /\ pc' = "idle"
        /\ due'[Owner] = (due[Owner] \/ mem.unsettled)
    BY <1>1, SteadyFacts, Held DEF Finish, EndPass, Stand, OwnPass, pods, tally, TypeOK
  <1>3. /\ Owing' = Owing /\ Known' = Known
        /\ \A i \in Replicas : Cared(i)' = Cared(i)
    BY <1>2, SameScene DEF Owing, Lacking, Known, Cared, Informed, Bounces
  <1>4. /\ event[Owner] \/ ~Owing
        /\ \/ due[Owner] \/ mem.unsettled \/ Owing
           \/ \A i \in Replicas : Cared(i) \/ (Informed(i) /\ event[Owner])
    BY <1>2 DEF InPass, ToCome
  <1>5. due'[Owner] \/ Owing' \/ Known'
    BY <1>2, <1>3, <1>4 DEF Known
  <1>6. ~event'[Owner] /\ ~due'[Owner] => ~Owing' /\ \A i \in Replicas : Cared(i)'
    BY <1>2, <1>3, <1>4
  <1> QED BY <1>2, <1>5, <1>6 DEF Stand, OwnPass, Resting

LEMMA StepStands ==
    ASSUME Steady, Stand, UNCHANGED scene, Moves
    PROVE  Stand'
  <1>1. CASE \/ Deliver \/ ListPods \/ DeletePod \/ Record \/ Finish
             \/ \E s \in SAs : MergeSA(s)
             \/ \E i \in Replicas : Watch(i) \/ Recreate(i) \/ Skip(i) \/ Count(i)
    <2>1. pc # "idle"
      BY <1>1 DEF Deliver, ListPods, DeletePod, Record, Finish, MergeSA, Watch, Recreate, Skip, Count, Turn
    <2> QED BY <1>1, <2>1, OthersStand, DeliverStands, MergeStands, ListPodsStands, PodsStand,
               FinishStands DEF OwnPass
  <1> QED BY <1>1, BeginStands, MeanwhileStands DEF Moves

LEMMA StepServing ==
    ASSUME TypeInv, NoScripts, Purposeful, Counted, Serving, [Next]_vars,
           Foreign \cap Delivered = {}, OwnSecrets
    PROVE  Serving'
  <1> SUFFICES ASSUME Smooth' PROVE Sourced' /\ Removed' /\ Stand'
    BY DEF Serving
  <1>1. Smooth /\ Moves /\ UNCHANGED scene
    BY SmoothMoves
  <1>2. Sourced /\ Removed /\ Stand /\ Local
    BY <1>1 DEF Serving, Smooth
  <1>3. Steady
    BY <1>1, <1>2 DEF Steady
  <1> QED BY <1>1, <1>2, <1>3, StepSourced, StepRemoved, StepStands

LEMMA SpecCounted == Spec => []Counted
  <1>1. Init => Counted
    BY MaxBouncesAssumption DEF Init, Counted
  <1>2. TypeInv /\ Counted /\ [Next]_vars => Counted'
    BY StepCounted DEF TypeInv
  <1> QED BY <1>1, <1>2, SpecTypes, PTL DEF Spec

LEMMA SpecPurposeful == Spec => []Purposeful
  <1>1. Init => Purposeful
    BY DEF Init, Purposeful
  <1> QED BY <1>1, StepPurposeful, SpecTypes, PTL DEF Spec

\* The operator is at rest with a workload only when the ServiceAccount of its pods
\* has what it needs and no pod waits to be deleted, as long as no call failed and no
\* other workload was deleted in the namespace and no webhook gives pods a secret
\* that the ServiceAccount may have: a pass that gave a ServiceAccount
\* something, or found pods to watch, asks to come back (podMissesDeliveredSecret,
\* recreateForDeliveredSecret, the RequeueAfter of unsettled passes).  It needs a
\* secret that no other workload delivers, and administrators that use other ones.
THEOREM RestMeansServed ==
    ASSUME Foreign \cap Delivered = {}, OwnSecrets
    PROVE  Spec => []RestIsServed
  <1>1. ASSUME Init PROVE Serving
    <2>1. TypeOK /\ scene \in Scenes
      BY <1>1, InitTypes DEF Init
    <2>2. chart.sa \in SAs /\ Owner \in Workloads
      BY <2>1, Scened
    <2>3. pc = "idle" /\ mem = None /\ event[Owner] /\ last = None
      BY <1>1, <2>2 DEF Init
    <2>4. \A i \in Replicas : pod[i].state = "gone"
      BY <1>1 DEF Init
    <2>5. Known
      BY <2>4 DEF Known, Cared, Waiting
    <2>6. Sourced
      BY <1>1, <2>4 DEF Init, Sourced, Existing
    <2>7. Removed
      BY <2>4 DEF Removed
    <2>8. Stand
      BY <2>3, <2>5 DEF Stand, OwnPass, Resting
    <2> QED BY <2>6, <2>7, <2>8 DEF Serving
  <1>2. TypeInv /\ NoScripts /\ Purposeful /\ Counted /\ Serving /\ [Next]_vars => Serving'
    BY StepServing
  <1>3. ASSUME TypeInv, Serving PROVE RestIsServed
    <2> SUFFICES ASSUME Smooth, HookApart, pc = "idle", ~event[Owner], ~due[Owner], resolved
                 PROVE  SAServed /\ \A i \in Replicas : ~Stuck(i)
      BY DEF RestIsServed, Smooth
    <2>1. /\ Sourced /\ ~Owing /\ \A i \in Replicas : Cared(i)
      BY <1>3 DEF Serving, Stand, OwnPass, Resting
    <2>2. TypeOK /\ chart.sa \in SAs /\ chart.hook \cap (Delivered \cup Foreign) = {}
          /\ Needs[Owner] \subseteq Delivered
      BY <1>3, Scened DEF TypeInv, HookApart
    <2>3. SAServed
      BY <2>1, <2>2 DEF SAServed, Owing, Lacking, OnSA
    <2>4. ASSUME NEW i \in Replicas, Stuck(i) PROVE FALSE
      <3>1. /\ pod[i].state \in {"pending", "failing"} /\ Misses(pod[i], Owner) /\ chart.kind # "other"
            /\ chart.own = {} /\ pod[i].secrets \subseteq OnSA
            /\ ~(Bounces(pod[i]) /\ count = MaxBounces)
        BY <2>4 DEF Stuck, Helps, Smooth
      <3>2. sa[chart.sa] # None /\ (chart.hook # {} => chart.hook \subseteq pod[i].secrets)
        BY <2>1, <3>1 DEF Sourced
      <3>3. OnSA \subseteq Foreign \cup (IF chart.sa \in Managed THEN Delivered ELSE {})
        BY <2>1, <2>2, <3>2 DEF Sourced, Existing, OnSA
      <3>4. chart.hook = {}
        BY <2>2, <3>1, <3>2, <3>3
      <3>5. chart.sa \in Managed
        BY <2>2, <3>1, <3>3 DEF Misses
      <3>6. ~(Needs[Owner] \subseteq pod[i].secrets)
        BY <3>1 DEF Misses
      <3> QED BY <2>1, <3>1, <3>4, <3>5, <3>6 DEF Cared, Plain, Waiting
    <2> QED BY <2>3, <2>4
  <1> QED
    BY <1>1, <1>2, <1>3, SpecTypes, SpecNoScripts, SpecCounted, SpecPurposeful, PTL DEF Spec
=============================================================================

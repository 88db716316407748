-------------------------- MODULE MCWorkloadBundles --------------------------
(* A Blueprint of two components, or one of them alone, in each strategy.    *)
EXTENDS WorkloadBundles, TLC

CONSTANTS a, b

Local == {"fleet-local"}
Both  == {"fleet-local", "fleet-default"}
Away  == {"fleet-default"}

Charts == [c \in {a, b} |-> "chart"]
Mixed  == (a :> "chart") @@ (b :> "git")

At(on, spaces) == [on |-> on, spaces |-> spaces, rev |-> 0]

Scene(strategy, kinds, starts, e, f) ==
    [strategy : {strategy}, kind : kinds, start : starts, token : {TRUE},
     edits : {e}, faults : {f}]

\* One edit and one fault, or two edits.  In git one edit only: see the README
\* on what a second one that takes back the first can do.
MCScenes ==
    Scene("FleetBundle", {Mixed}, {At({a, b}, Both)}, 1, 1)
      \cup Scene("FleetBundle", {Mixed}, {At({b}, Local)}, 2, 1)
      \cup Scene("FleetBundle", {Charts}, {At({a}, Both)}, 2, 0)
      \cup Scene("GitOps", {Mixed}, {At({a, b}, Local), At({a}, Both)}, 1, 1)
      \cup Scene("App", {Charts}, {At({a}, Both), At({a}, Away)}, 2, 1)
      \cup [strategy : {"Helm"}, kind : {Charts}, start : {At({a}, Local)},
            token : BOOLEAN, edits : {1}, faults : {2}]

\* A git chart's component, which is then disabled.
GitScenes == Scene("FleetBundle", {Mixed}, {At({a, b}, Local)}, 1, 0)
=============================================================================

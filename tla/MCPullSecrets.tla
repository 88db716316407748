---------------------------- MODULE MCPullSecrets ----------------------------
(* Two workloads in one namespace, sharing one of their secrets, and one of  *)
(* their pod controllers, in each of its kinds.                              *)
EXTENDS PullSecrets, TLC

CONSTANTS w1, w2, default, created, combined, ngc, app, reg, web, p1

MCNeeds  == (w1 :> {combined, ngc}) @@ (w2 :> {combined, app})
MCBundle == (w1 :> "b1") @@ (w2 :> "b2")

\* An ordinary controller, and what may be different.
Plain      == [owner |-> w1, sa |-> default, label |-> FALSE, kind |-> "replica",
               own |-> {}, hook |-> {}, pulls |-> {ngc}]
Labelled   == [Plain EXCEPT !.label = TRUE]
Unpullable == [Labelled EXCEPT !.pulls = {reg}]
Late       == [Plain EXCEPT !.sa = created]
Hooked     == [Plain EXCEPT !.hook = {web}]
Confusing  == [Plain EXCEPT !.hook = {combined}]
Others     == {[Plain EXCEPT !.kind = "stateful"], [Plain EXCEPT !.own = {reg}],
               [Plain EXCEPT !.pulls = {reg}]}

Here  == [here |-> "local", target |-> (w1 :> {"local"}) @@ (w2 :> {"remote"})]
Both  == [Here EXCEPT !.target[w2] = {"local"}]
There == [here |-> "remote", target |-> (w1 :> {"remote"}) @@ (w2 :> {"local", "remote"})]

Scene(charts, layouts, e, f) ==
    [chart : charts, layout : layouts, edits : {e}, faults : {f}]

\* One edit or one fault each, and a few cases with two of them.
MCScenes ==
    Scene({Plain, Unpullable, Late, Hooked} \cup Others, {Here}, 1, 0)
      \cup Scene({Hooked}, {Here}, 2, 0) \cup Scene({Unpullable}, {Here}, 0, 1)
      \cup Scene({Plain}, {Here}, 1, 1)
      \cup Scene({Unpullable}, {There}, 1, 0) \cup Scene({Plain}, {There}, 0, 1)
      \cup Scene({Plain}, {Both}, 0, 0) \cup Scene({Hooked}, {There}, 0, 0)
      \cup Scene({Confusing}, {Here}, 1, 0)
      \cup Scene({[Unpullable EXCEPT !.kind = "other"]}, {Here}, 0, 0)
=============================================================================

----------------------- MODULE MCAIWorkloadOperations -----------------------
(* Instances of AIWorkloadOperations for TLC. *)
EXTENDS AIWorkloadOperations, TLC

CONSTANTS v1, v2, a, b

MCVersions == {v1, v2}
OneComponent == [v \in MCVersions |-> {a}]
\* The second version has another component.
ReplacesComponent == (v1 :> {a}) @@ (v2 :> {b})
=============================================================================

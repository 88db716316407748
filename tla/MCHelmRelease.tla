---------------------------- MODULE MCHelmRelease ----------------------------
(* Instances of HelmRelease for TLC. *)
EXTENDS HelmRelease, TLC

CONSTANTS t1, t2, base, next, empty, x

\* Each tag names its chart's version; t2 renders something else.
HonestTags == (t1 :> [version |-> t1, template |-> base])
              @@ (t2 :> [version |-> t2, template |-> next])
=============================================================================

---------------------------- MODULE MCSettingsRepos ----------------------------
(* One registry and NVIDIA, one custom repository, Fleet's repository and one  *)
(* catalog.  Specs are written ref of the registry, ref of NVIDIA, mirror,     *)
(* mode of the custom repository, of Fleet's and of the catalog.               *)
EXTENDS SettingsRepos, TLC

CONSTANTS ac, nv, team, fleet, catalog, token, k1, k2

MCSpecOf(a, n, m, c, f, g) ==
    [refs |-> (ac :> a @@ nv :> n), mirrored |-> m, custom |-> (team :> c),
     git |-> (fleet :> f @@ catalog :> g)]

Full   == MCSpecOf("explicit", "explicit", FALSE, "basic", "basic", "basic")
Empty  == MCSpecOf("none", "none", FALSE, "absent", "absent", "absent")
AirGap == MCSpecOf("none", "none", TRUE, "ssh", "anonymous", "basic")
Open   == MCSpecOf("explicit", "explicit", TRUE, "anonymous", "absent", "anonymous")

MCStored   == {Full, Empty}
MCRequests == {Empty, AirGap, Open}

MCInit == Init /\ source = [k \in Keyed |-> k1]
MCSpec == MCInit /\ [][Next]_vars /\ Fairness
=============================================================================

------------------------- MODULE MCExtensionInstall -------------------------
(* Instances of ExtensionInstall for TLC. *)
EXTENDS ExtensionInstall, TLC

CONSTANTS n1, n2, s1, s2, v1, v2

HelmSpec(name, server, version) ==
    [kind |-> "Helm", name |-> name, server |-> server, version |-> version]
GitSpec(name, version) ==
    [kind |-> "Git", name |-> name, server |-> None, version |-> version]

Plain == HelmSpec(n1, s1, v1)

\* What the resource may be edited to: another version, name, chart or kind of
\* source, or a name that collides with the server's.
Upgraded == {Plain, HelmSpec(n1, s1, v2)}
Renaming == {Plain, HelmSpec(n2, s1, v1)}
Moving   == {Plain, HelmSpec(n1, s2, v1)}
Switched == {Plain, GitSpec(n1, v1), HelmSpec(s1, s1, v1)}
All      == Upgraded \cup Renaming \cup Moving \cup Switched
One      == {Plain}

\* The resource is created with the Helm source.
MCInit == Init /\ spec = Plain
MCSpec == MCInit /\ [][Next]_vars /\ Fairness
=============================================================================

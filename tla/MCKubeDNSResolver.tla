------------------------- MODULE MCKubeDNSResolver -------------------------
(* Small instances of KubeDNSResolver for TLC: three nodes in API list   *)
(* order, the first without locality labels, the other two in different  *)
(* zones; one federation domain.                                         *)
EXTENDS KubeDNSResolver, TLC

CONSTANTS s1, c1, c2, p1, p2, h1, x1, n1, n2, n3, l1, l2, d1, r1, r2

MCSvcsOne == {s1}
MCClusterIPs == {c1, c2}
MCEndpointIPs == {p1, p2}
MCHostnames == {h1}
MCExternalNames == {x1}
MCNodes == {n1, n2, n3}
MCLocs == {l1, l2}
MCNodeLoc == (n1 :> None) @@ (n2 :> l1) @@ (n3 :> l2)
MCNodeRank == (n1 :> 0) @@ (n2 :> 1) @@ (n3 :> 2)
MCDomains == {d1}
MCResolversOne == {r1}
MCResolversTwo == {r1, r2}

(* The query goroutines are interchangeable: every property quantifies   *)
(* over all of them or counts them.                                      *)
MCResolverSymmetry == Permutations(MCResolversTwo)

=============================================================================

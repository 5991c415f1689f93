----------------------------- MODULE MCKubeDNS -----------------------------
(* Small instances of KubeDNS for TLC. *)
EXTENDS KubeDNS

CONSTANTS s1, s2, c1, c2, p1, p2, h1, x1

MCSvcsOne == {s1}
MCSvcsTwo == {s1, s2}
MCClusterIPs == {c1, c2}
MCEndpointIPs == {p1, p2}
MCHostnames == {h1}
MCExternalNames == {x1}

=============================================================================

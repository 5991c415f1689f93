--------------------------- MODULE MCKubeDNSNames ---------------------------
(* The cluster domain "local", one federation, and labels that exercise  *)
(* each classification condition: an empty label (trailing dots), a     *)
(* label valid for RFC 1123 but not RFC 1035 ("9ns"), a wildcard, the    *)
(* "svc" subdomain and the domain label.  Names of up to five labels     *)
(* include every federated query and every shorter or longer miss.       *)
EXTENDS KubeDNSNames

MCDomainPath == <<"local">>
MCLabels == {"", "mysvc", "9ns", "myfed", "svc", "local", "*"}
MCLabels1035 == {"mysvc", "myfed", "svc", "local"}
MCLabels1123 == MCLabels1035 \cup {"9ns"}
MCFeds == [f \in {"myfed"} |-> "example.com"]
MCOctets == {"10", "7"}
=============================================================================

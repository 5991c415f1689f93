---------------------------- MODULE ReverseIndex ----------------------------
(***************************************************************************)
(* What the reverse index promises for cluster IPs (spec section 4.2 and   *)
(* the ordering guarantee of section 5): the PTR record of a cluster IP    *)
(* and its entry in the cluster-IP -> service map are only ever changed    *)
(* together, in one locked region that either installs a service on a set *)
(* of its cluster IPs or removes a set of cluster IPs.                     *)
(***************************************************************************)
CONSTANTS Svcs, ClusterIPs, None

VARIABLES
    ptr,    \* cluster IP -> PTR target or None
    svcOf   \* cluster IP -> service or None

vars == <<ptr, svcOf>>

(* the PTR target <svc>.<ns>.svc.<domain> of a service *)
Target(s) == [svc |-> s, host |-> None]

Init ==
    /\ ptr = [ip \in ClusterIPs |-> None]
    /\ svcOf = [ip \in ClusterIPs |-> None]

(* PutReverse and PutService for every IP of S, in one region *)
Put(S, s) ==
    /\ ptr' = [ip \in ClusterIPs |-> IF ip \in S THEN Target(s) ELSE ptr[ip]]
    /\ svcOf' = [ip \in ClusterIPs |-> IF ip \in S THEN s ELSE svcOf[ip]]

(* DeleteReverse and DeleteService for every IP of S, in one region *)
Delete(S) ==
    /\ ptr' = [ip \in ClusterIPs |-> IF ip \in S THEN None ELSE ptr[ip]]
    /\ svcOf' = [ip \in ClusterIPs |-> IF ip \in S THEN None ELSE svcOf[ip]]

Next ==
    \E S \in SUBSET ClusterIPs :
        \/ \E s \in Svcs : Put(S, s)
        \/ Delete(S)

Spec == Init /\ [][Next]_vars

=============================================================================

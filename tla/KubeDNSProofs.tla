--------------------------- MODULE KubeDNSProofs ---------------------------
(***************************************************************************)
(* Proofs about the record engine, for every value of the constants that   *)
(* satisfies ConstantsAssumption: type correctness, and that the reverse   *)
(* map and clusterIPServiceMap agree on cluster IPs in every state.        *)
(***************************************************************************)
EXTENDS KubeDNS, TLAPS

USE ConstantsAssumption

(* What an endpoints object is: its addresses are pod IPs, each with a  *)
(* hostname or None.                                                    *)
LEMMA EndpointsObjectFacts ==
    ASSUME NEW e \in EndpointsObjects
    PROVE  /\ DOMAIN e \subseteq EndpointIPs
           /\ \A ip \in DOMAIN e : e[ip] \in Hostnames \cup {None}
           /\ Named(e) \subseteq EndpointIPs
           /\ \A ip \in Named(e) : e[ip] \in Hostnames
<1>1. PICK D \in SUBSET EndpointIPs : e \in [D -> Hostnames \cup {None}]
    BY DEF EndpointsObjects
<1>2. DOMAIN e = D /\ \A ip \in D : e[ip] \in Hostnames \cup {None}
    BY <1>1
<1>3. QED
    BY <1>2 DEF Named

(* The subtree generateRecordsForHeadlessService installs is a leaf map. *)
LEMMA HeadlessLeavesType ==
    ASSUME NEW e \in EndpointsObjects
    PROVE  HeadlessLeaves(e) \in LeafMaps
<1> DEFINE K == {EndpointName(e, ip) : ip \in DOMAIN e}
<1>1. K \subseteq LeafKeys
    BY EndpointsObjectFacts DEF EndpointName, LeafKeys
<1>2. \A k \in K : (CHOOSE ip \in DOMAIN e : EndpointName(e, ip) = k) \in IPs
    <2> SUFFICES ASSUME NEW k \in K
                 PROVE  (CHOOSE ip \in DOMAIN e : EndpointName(e, ip) = k) \in IPs
        OBVIOUS
    <2>1. \E ip \in DOMAIN e : EndpointName(e, ip) = k
        OBVIOUS
    <2>2. (CHOOSE ip \in DOMAIN e : EndpointName(e, ip) = k) \in DOMAIN e
        BY <2>1
    <2>3. QED
        BY <2>2, EndpointsObjectFacts DEF IPs
<1>3. HeadlessLeaves(e) \in [K -> IPs]
    BY <1>2 DEF HeadlessLeaves
<1>4. QED
    BY <1>1, <1>3 DEF LeafMaps

(* The subtree newPortalService installs is a leaf map. *)
LEMMA PortalLeavesType ==
    ASSUME NEW svc \in ServiceObjects
    PROVE  PortalLeaves(svc) \in LeafMaps
<1>1. svc.ips \subseteq ClusterIPs
    BY DEF ServiceObjects
<1>2. PortalLeaves(svc) \in [svc.ips -> IPs]
    BY <1>1 DEF PortalLeaves, IPs
<1>3. QED
    BY <1>1, <1>2 DEF LeafMaps, LeafKeys


-----------------------------------------------------------------------------
(* The initial state is well typed. *)
LEMMA InitTypeOK == Init => TypeOK
    BY DEF Init, TypeOK, IPs

(* Every step keeps the variables well typed: the subtrees installed are *)
(* leaf maps, PTR targets name a service and a hostname (or None), and    *)
(* the locals of each informer hold objects while its handler runs.       *)
LEMMA NextTypeOK == TypeOK /\ [Next]_vars => TypeOK'
<1> SUFFICES ASSUME TypeOK, [Next]_vars PROVE TypeOK'
    OBVIOUS
<1> USE DEF TypeOK, storeVars, cacheVars, svcVars, epVars
<1>1. ASSUME NEW s \in Svcs, NEW svc \in ServiceObjects, SvcAdd(s, svc) PROVE TypeOK'
    BY <1>1 DEF SvcAdd
<1>2. ASSUME NEW s \in Svcs, NEW svc \in ServiceObjects, SvcUpdate(s, svc) PROVE TypeOK'
    BY <1>2 DEF SvcUpdate, StartUpdateService
<1>3. ASSUME NEW s \in Svcs, SvcDelete(s) PROVE TypeOK'
    BY <1>3 DEF SvcDelete
<1>4. ASSUME NEW s \in Svcs, SvcDeleteTombstone(s) PROVE TypeOK'
    BY <1>4 DEF SvcDeleteTombstone
<1>5. ASSUME NEW s \in Svcs, SvcResync(s) PROVE TypeOK'
    BY <1>5 DEF SvcResync, StartUpdateService
<1>6. CASE SvcRemove
    <2>1. sOld \in ServiceObjects /\ sKey \in Svcs
        BY <1>6 DEF SvcRemove
    <2>2. sOld.ips \subseteq ClusterIPs
        BY <2>1 DEF ServiceObjects
    <2>3. rev' \in [IPs -> Targets \cup {None}] /\ cip' \in [ClusterIPs -> Svcs \cup {None}]
        BY <1>6, <2>2 DEF SvcRemove, DropReverse
    <2>4. child' \in [Svcs -> LeafMaps \cup {None}] /\ entry' \in [Svcs -> ExternalNames \cup {None}]
        BY <1>6, <2>1 DEF SvcRemove, DeletePath
    <2>5. QED
        BY <1>6, <2>3, <2>4 DEF SvcRemove, SvcDone
<1>7. CASE SvcNewExternalName
    <2>1. sNew \in ServiceObjects /\ IsExternalName(sNew)
        BY <1>7 DEF SvcNewExternalName
    <2>2. sNew.ext \in ExternalNames
        BY <2>1 DEF ServiceObjects, IsExternalName
    <2>3. QED
        BY <1>7, <2>2 DEF SvcNewExternalName, SvcDone
<1>8. CASE SvcNewPortal
    <2>1. sNew \in ServiceObjects /\ sKey \in Svcs
        BY <1>8 DEF SvcNewPortal
    <2>2. sNew.ips \subseteq ClusterIPs
        BY <2>1 DEF ServiceObjects
    <2>3. PortalLeaves(sNew) \in LeafMaps
        BY <2>1, PortalLeavesType
    <2>4. SvcTarget(sKey) \in Targets
        BY <2>1 DEF SvcTarget, Targets
    <2>5. QED
        BY <1>8, <2>1, <2>2, <2>3, <2>4 DEF SvcNewPortal, SvcDone, IPs
<1>9. CASE SvcNewHeadless
    BY <1>9 DEF SvcNewHeadless, SvcDone
<1>10. CASE SvcHeadlessWrite
    <2>1. sEp \in EndpointsObjects /\ sKey \in Svcs
        BY <1>10 DEF SvcHeadlessWrite
    <2>2. HeadlessLeaves(sEp) \in LeafMaps
        BY <2>1, HeadlessLeavesType
    <2>3. \A ip \in Named(sEp) : [svc |-> sKey, host |-> sEp[ip]] \in Targets
        BY <2>1, EndpointsObjectFacts DEF Targets
    <2>4. QED
        BY <1>10, <2>2, <2>3 DEF SvcHeadlessWrite, GenerateHeadless, SvcDone
<1>11. ASSUME NEW s \in Svcs, NEW e \in EndpointsObjects, EpAdd(s, e) PROVE TypeOK'
    BY <1>11 DEF EpAdd
<1>12. ASSUME NEW s \in Svcs, NEW e \in EndpointsObjects, EpUpdate(s, e) PROVE TypeOK'
    BY <1>12 DEF EpUpdate
<1>13. ASSUME NEW s \in Svcs, EpDelete(s) PROVE TypeOK'
    BY <1>13 DEF EpDelete
<1>14. ASSUME NEW s \in Svcs, EpDeleteTombstone(s) PROVE TypeOK'
    BY <1>14 DEF EpDeleteTombstone
<1>15. ASSUME NEW s \in Svcs, EpResync(s) PROVE TypeOK'
    BY <1>15 DEF EpResync
<1>16. CASE EpUpdRead
    <2>1. eOld \in EndpointsObjects
        BY <1>16 DEF EpUpdRead
    <2>2. Named(eOld) \ Named(eNew) \subseteq EndpointIPs
        BY <2>1, EndpointsObjectFacts
    <2>3. QED
        BY <1>16, <2>2 DEF EpUpdRead
<1>17. CASE EpUpdDelete
    BY <1>17 DEF EpUpdDelete, DropReverse
<1>18. CASE EpAddRead
    BY <1>18 DEF EpAddRead, EpDone
<1>19. CASE EpAddWrite
    <2>1. eNew \in EndpointsObjects /\ eKey \in Svcs
        BY <1>19 DEF EpAddWrite
    <2>2. HeadlessLeaves(eNew) \in LeafMaps
        BY <2>1, HeadlessLeavesType
    <2>3. \A ip \in Named(eNew) : [svc |-> eKey, host |-> eNew[ip]] \in Targets
        BY <2>1, EndpointsObjectFacts DEF Targets
    <2>4. QED
        BY <1>19, <2>2, <2>3 DEF EpAddWrite, GenerateHeadless, EpDone
<1>20. CASE EpDelRead
    <2>1. ePc = "DelRead" /\ eOld \in EndpointsObjects
        BY <1>20 DEF EpDelRead
    <2>2. Named(eOld) \subseteq EndpointIPs
        BY <2>1, EndpointsObjectFacts
    <2>3. QED
        BY <1>20, <2>2 DEF EpDelRead, EpDone
<1>21. CASE EpDelWrite
    BY <1>21 DEF EpDelWrite, DropReverse, EpDone
<1>22. CASE UNCHANGED vars
    BY <1>22 DEF vars, storeVars, cacheVars, svcVars, epVars
<1>23. QED
    BY <1>1, <1>2, <1>3, <1>4, <1>5, <1>6, <1>7, <1>8, <1>9, <1>10,
       <1>11, <1>12, <1>13, <1>14, <1>15, <1>16, <1>17, <1>18, <1>19,
       <1>20, <1>21, <1>22
       DEF Next, SvcEvent, SvcHandler, EpEvent, EpHandler

(* Type correctness of the record engine. *)
THEOREM TypeCorrect == Spec => []TypeOK
<1>1. Init => TypeOK
    BY InitTypeOK
<1>2. TypeOK /\ [Next]_vars => TypeOK'
    BY NextTypeOK
<1>3. QED
    BY <1>1, <1>2, PTL DEF Spec

-----------------------------------------------------------------------------
(* The inductive invariant behind RevCipConsistent: with the types, the  *)
(* endpoints handlers only touch reverse entries of pod IPs, which are    *)
(* never cluster IPs.                                                     *)
IInv == TypeOK /\ RevCipConsistent

(* PTR records generated for headless endpoints never touch a cluster IP. *)
LEMMA HeadlessKeepsClusterIPs ==
    ASSUME NEW e \in EndpointsObjects, NEW s, NEW ip \in ClusterIPs,
           NEW r, r = [i \in IPs |-> IF i \in Named(e) THEN [svc |-> s, host |-> e[i]] ELSE rev[i]]
    PROVE  r[ip] = rev[ip]
<1>1. ip \notin Named(e)
    BY EndpointsObjectFacts
<1>2. QED
    BY <1>1 DEF IPs

LEMMA InitIInv == Init => IInv
<1>1. Init => RevCipConsistent
    BY DEF Init, RevCipConsistent, IPs
<1>2. QED
    BY <1>1, InitTypeOK DEF IInv

(* Every step keeps the reverse map and clusterIPServiceMap in agreement. *)
LEMMA NextRevCip == IInv /\ [Next]_vars => RevCipConsistent'
<1> SUFFICES ASSUME IInv, [Next]_vars PROVE RevCipConsistent'
    OBVIOUS
<1> USE DEF IInv, storeVars, cacheVars, svcVars, epVars
<1>1. CASE UNCHANGED <<rev, cip>>
    BY <1>1 DEF RevCipConsistent
<1>2. CASE SvcRemove
    BY <1>2 DEF SvcRemove, DropReverse, RevCipConsistent, IPs
<1>3. CASE SvcNewPortal
    <2>1. sKey \in Svcs
        BY <1>3 DEF SvcNewPortal, TypeOK
    <2> SUFFICES ASSUME NEW ip \in ClusterIPs
                 PROVE  /\ (cip'[ip] = None) <=> (rev'[ip] = None)
                        /\ cip'[ip] # None => rev'[ip] = SvcTarget(cip'[ip])
        BY DEF RevCipConsistent
    <2>2. CASE ip \in sNew.ips
        <3>1. cip'[ip] = sKey /\ rev'[ip] = SvcTarget(sKey)
            BY <1>3, <2>2 DEF SvcNewPortal, IPs
        <3>2. QED
            BY <3>1, <2>1 DEF SvcTarget, Targets
    <2>3. CASE ip \notin sNew.ips
        <3>1. cip'[ip] = cip[ip] /\ rev'[ip] = rev[ip]
            BY <1>3, <2>3 DEF SvcNewPortal, IPs
        <3>2. QED
            BY <3>1 DEF RevCipConsistent
    <2>4. QED
        BY <2>2, <2>3
<1>4. CASE SvcHeadlessWrite
    <2>1. sEp \in EndpointsObjects
        BY <1>4 DEF SvcHeadlessWrite, TypeOK
    <2>2. \A ip \in ClusterIPs : rev'[ip] = rev[ip]
        BY <1>4, <2>1, HeadlessKeepsClusterIPs DEF SvcHeadlessWrite, GenerateHeadless
    <2>3. QED
        BY <1>4, <2>2 DEF SvcHeadlessWrite, GenerateHeadless, RevCipConsistent
<1>5. CASE EpAddWrite
    <2>1. eNew \in EndpointsObjects
        BY <1>5 DEF EpAddWrite, TypeOK
    <2>2. \A ip \in ClusterIPs : rev'[ip] = rev[ip]
        BY <1>5, <2>1, HeadlessKeepsClusterIPs DEF EpAddWrite, GenerateHeadless
    <2>3. QED
        BY <1>5, <2>2 DEF EpAddWrite, GenerateHeadless, RevCipConsistent
<1>6. CASE EpUpdDelete \/ EpDelWrite
    <2>1. eDrop \subseteq EndpointIPs
        BY DEF TypeOK
    <2>2. \A ip \in ClusterIPs : rev'[ip] = rev[ip] /\ cip' = cip
        BY <1>6, <2>1 DEF EpUpdDelete, EpDelWrite, DropReverse, IPs
    <2>3. QED
        BY <2>2 DEF RevCipConsistent
<1>7. QED
    <2>1. CASE SvcEvent \/ (\E s \in Svcs : SvcResync(s)) \/ EpEvent \/ (\E s \in Svcs : EpResync(s))
        BY <2>1, <1>1 DEF SvcEvent, EpEvent, SvcAdd, SvcUpdate, SvcDelete, SvcDeleteTombstone,
              SvcResync, EpAdd, EpUpdate, EpDelete, EpDeleteTombstone, EpResync
    <2>2. CASE SvcNewExternalName \/ SvcNewHeadless \/ EpUpdRead \/ EpAddRead \/ EpDelRead
        BY <2>2, <1>1 DEF SvcNewExternalName, SvcNewHeadless, EpUpdRead, EpAddRead, EpDelRead
    <2>3. CASE UNCHANGED vars
        BY <2>3, <1>1 DEF vars
    <2>4. QED
        BY <2>1, <2>2, <2>3, <1>2, <1>3, <1>4, <1>5, <1>6
           DEF Next, SvcHandler, EpHandler

(* I1/I4 for cluster IPs: in every reachable state, newPortalService and   *)
(* removeService have kept reverseRecordMap and clusterIPServiceMap in     *)
(* agreement on every cluster IP, whatever the endpoints handlers did.     *)
THEOREM RevCipConsistentInv == Spec => []RevCipConsistent
<1>1. Init => IInv
    BY InitIInv
<1>2. IInv /\ [Next]_vars => IInv'
    BY NextTypeOK, NextRevCip DEF IInv
<1>3. IInv => RevCipConsistent
    BY DEF IInv
<1>4. QED
    BY <1>1, <1>2, <1>3, PTL DEF Spec

-----------------------------------------------------------------------------
(* The cluster-IP view of the reverse index that the refinement maps to. *)
ptrBar == [ip \in ClusterIPs |-> rev[ip]]

(* A step that changes rev only off the cluster IPs and leaves cip alone *)
(* is a stutter of the reverse index.                                      *)
LEMMA StutterRI ==
    ASSUME TypeOK, TypeOK',
           \A ip \in ClusterIPs : rev'[ip] = rev[ip],
           cip' = cip
    PROVE  UNCHANGED RI!vars
<1>1. ptrBar' = ptrBar
    BY DEF ptrBar
<1>2. QED
    BY <1>1 DEF RI!vars, ptrBar

LEMMA InitRI == Init => RI!Init
    BY DEF Init, RI!Init, IPs

(* Every step of the record engine is a step of the reverse index or    *)
(* leaves it unchanged.                                                  *)
LEMMA NextRI == TypeOK /\ TypeOK' /\ [Next]_vars => [RI!Next]_RI!vars
<1> SUFFICES ASSUME TypeOK, TypeOK', [Next]_vars PROVE [RI!Next]_RI!vars
    OBVIOUS
<1> USE DEF storeVars, cacheVars, svcVars, epVars
<1>1. CASE UNCHANGED <<rev, cip>>
    BY <1>1, StutterRI
<1>2. CASE SvcRemove
    <2>1. sOld \in ServiceObjects
        BY <1>2 DEF SvcRemove, TypeOK
    <2>2. sOld.ips \in SUBSET ClusterIPs
        BY <2>1 DEF ServiceObjects
    <2>3. RI!Delete(sOld.ips)
        BY <1>2 DEF SvcRemove, DropReverse, RI!Delete, IPs
    <2>4. RI!Next
        BY <2>2, <2>3 DEF RI!Next, RI!Delete
    <2>5. QED
        BY <2>4
<1>3. CASE SvcNewPortal
    <2>1. sNew \in ServiceObjects /\ sKey \in Svcs
        BY <1>3 DEF SvcNewPortal, TypeOK
    <2>2. sNew.ips \in SUBSET ClusterIPs
        BY <2>1 DEF ServiceObjects
    <2>3. RI!Put(sNew.ips, sKey)
        BY <1>3 DEF SvcNewPortal, RI!Put, RI!Target, SvcTarget, IPs
    <2>4. RI!Next
        BY <2>1, <2>2, <2>3 DEF RI!Next, RI!Put, RI!Target
    <2>5. QED
        BY <2>4
<1>4. CASE SvcHeadlessWrite
    <2>1. sEp \in EndpointsObjects
        BY <1>4 DEF SvcHeadlessWrite, TypeOK
    <2>2. \A ip \in ClusterIPs : rev'[ip] = rev[ip]
        BY <1>4, <2>1, HeadlessKeepsClusterIPs DEF SvcHeadlessWrite, GenerateHeadless
    <2>3. QED
        BY <1>4, <2>2, StutterRI DEF SvcHeadlessWrite, GenerateHeadless
<1>5. CASE EpAddWrite
    <2>1. eNew \in EndpointsObjects
        BY <1>5 DEF EpAddWrite, TypeOK
    <2>2. \A ip \in ClusterIPs : rev'[ip] = rev[ip]
        BY <1>5, <2>1, HeadlessKeepsClusterIPs DEF EpAddWrite, GenerateHeadless
    <2>3. QED
        BY <1>5, <2>2, StutterRI DEF EpAddWrite, GenerateHeadless
<1>6. CASE EpUpdDelete \/ EpDelWrite
    <2>1. eDrop \subseteq EndpointIPs
        BY DEF TypeOK
    <2>2. \A ip \in ClusterIPs : rev'[ip] = rev[ip]
        BY <1>6, <2>1 DEF EpUpdDelete, EpDelWrite, DropReverse, IPs
    <2>3. cip' = cip
        BY <1>6 DEF EpUpdDelete, EpDelWrite
    <2>4. QED
        BY <2>2, <2>3, StutterRI
<1>7. QED
    <2>1. CASE SvcEvent \/ (\E s \in Svcs : SvcResync(s)) \/ EpEvent \/ (\E s \in Svcs : EpResync(s))
        BY <2>1, <1>1 DEF SvcEvent, EpEvent, SvcAdd, SvcUpdate, SvcDelete, SvcDeleteTombstone,
              SvcResync, EpAdd, EpUpdate, EpDelete, EpDeleteTombstone, EpResync
    <2>2. CASE SvcNewExternalName \/ SvcNewHeadless \/ EpUpdRead \/ EpAddRead \/ EpDelRead
        BY <2>2, <1>1 DEF SvcNewExternalName, SvcNewHeadless, EpUpdRead, EpAddRead, EpDelRead
    <2>3. CASE UNCHANGED vars
        BY <2>3, <1>1 DEF vars
    <2>4. QED
        BY <2>1, <2>2, <2>3, <1>2, <1>3, <1>4, <1>5, <1>6
           DEF Next, SvcHandler, EpHandler

(* The record engine implements the reverse index of spec section 4.2:  *)
(* removeService and newPortalService are its Delete and Put, and every *)
(* other handler step leaves the cluster IPs' PTR records and service    *)
(* map entries alone.                                                    *)
THEOREM ReverseIndexRefinement == Spec => ReverseIndexRefined
<1>1. Init => RI!Init
    BY InitRI
<1>2. TypeOK /\ TypeOK' /\ [Next]_vars => [RI!Next]_RI!vars
    BY NextRI
<1>3. Spec => []TypeOK
    BY TypeCorrect
<1>4. QED
    BY <1>1, <1>2, <1>3, PTL DEF Spec, ReverseIndexRefined, RI!Spec

=============================================================================

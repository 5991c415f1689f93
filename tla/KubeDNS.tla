------------------------------ MODULE KubeDNS ------------------------------
(***************************************************************************)
(* The record engine of kube-dns (src/pkg/dns/dns.go): the two informer    *)
(* goroutines (services and endpoints) that translate the services and     *)
(* endpoints stores into the tree cache, the reverse map (IP -> PTR        *)
(* target) and the cluster-IP -> service map.                              *)
(*                                                                         *)
(* Each informer updates its store and then runs its handler on the same   *)
(* goroutine, so events of one kind are serial; the two kinds run          *)
(* concurrently.  A handler is split into one action per region between    *)
(* reads of the other kind's store and acquisitions of cacheLock: every    *)
(* cacheLock region is one atomic step, and a read of the other informer's *)
(* store is a step of its own, because that store may change before the    *)
(* handler takes the lock.                                                 *)
(*                                                                         *)
(* Data is abstracted to what the properties tell apart: a service is its  *)
(* type, its set of cluster IPs and its external name; an endpoints object *)
(* is a function from its addresses' IPs to their hostname (or None).  The *)
(* cache keeps, per service, the child node of the namespace node that     *)
(* SetSubCache installs (a leaf map key -> host) and the CNAME leaf that   *)
(* an ExternalName service stores at the namespace node.  SRV records are  *)
(* built in the same loops and installed by the same SetSubCache as the A  *)
(* records, so they are left out.  The leaf key of a hash-keyed record is  *)
(* modelled by the IP it hashes (FNV-1a collisions are assumed away, as    *)
(* the spec does).                                                         *)
(***************************************************************************)
EXTENDS Naturals, FiniteSets

CONSTANTS
    Svcs,           \* service keys namespace/name (services and their endpoints)
    ClusterIPs,     \* service cluster IPs
    EndpointIPs,    \* pod IPs that appear as endpoint addresses
    Hostnames,      \* endpoint address hostnames
    ExternalNames,  \* targets of ExternalName services
    None,           \* absent object, absent cache entry, absent hostname
    MaxEvents,      \* bound on the API changes delivered by the informers
    Tombstones      \* a relist may deliver a delete as DeletedFinalStateUnknown

ASSUME ConstantsAssumption ==
    /\ ClusterIPs \cap EndpointIPs = {}
    /\ None \notin ClusterIPs \cup EndpointIPs \cup Hostnames \cup ExternalNames \cup Svcs
    /\ Hostnames \cap EndpointIPs = {}
    /\ None \notin [svc: Svcs, host: Hostnames \cup {None}]
    /\ MaxEvents \in Nat
    /\ Tombstones \in BOOLEAN

VARIABLES
    svcStore,   \* servicesStore: key -> service object or None
    epStore,    \* endpointsStore: key -> endpoints object or None
    child,      \* cache: the service's child node of the namespace node (leaf map) or None
    entry,      \* cache: the CNAME leaf keyed by the service name at the namespace node, or None
    rev,        \* reverseRecordMap: IP -> PTR target or None
    cip,        \* clusterIPServiceMap: cluster IP -> service key or None
    sPc, sKey, sOld, sNew, sEp,         \* the services informer goroutine
    ePc, eKey, eOld, eNew, eDrop,       \* the endpoints informer goroutine
    events      \* number of API changes delivered so far

storeVars == <<svcStore, epStore>>
cacheVars == <<child, entry, rev, cip>>
svcVars == <<sPc, sKey, sOld, sNew, sEp>>
epVars == <<ePc, eKey, eOld, eNew, eDrop>>
vars == <<storeVars, cacheVars, svcVars, epVars, events>>

IPs == ClusterIPs \cup EndpointIPs

(* v1.Service: ExternalName services have no cluster IP; a ClusterIP     *)
(* service without one (ClusterIP "None") is headless.                   *)
ServiceObjects ==
    [type: {"ClusterIP"}, ips: SUBSET ClusterIPs, ext: {None}]
      \cup [type: {"ExternalName"}, ips: {{}}, ext: ExternalNames]

(* v1.Endpoints: the addresses of all subsets, IP -> hostname or None.   *)
EndpointsObjects ==
    UNION {[D -> Hostnames \cup {None}] : D \in SUBSET EndpointIPs}

(* PTR targets: <svc>.<ns>.svc.<domain> or <hostname>.<svc>.<ns>.svc...  *)
Targets == [svc: Svcs, host: Hostnames \cup {None}]

LeafKeys == ClusterIPs \cup EndpointIPs \cup Hostnames

(* the leaf maps of a cache node: leaf key -> the host of the record *)
LeafMaps == UNION {[K -> IPs] : K \in SUBSET LeafKeys}

(* util.IsServiceIPSet *)
IsServiceIPSet(svc) == svc.ips # {}

IsExternalName(svc) == svc.type = "ExternalName"

(* getHostname: the addresses of e that carry a hostname *)
Named(e) == {ip \in DOMAIN e : e[ip] # None}

(* the leaf key of an endpoint address: its hostname, else the hash of *)
(* its A record                                                         *)
EndpointName(e, ip) == IF e[ip] # None THEN e[ip] ELSE ip

(* The subtree newPortalService builds: an A record per cluster IP,    *)
(* keyed by the hash of the record.                                     *)
PortalLeaves(svc) == [ip \in svc.ips |-> ip]

(* The subtree generateRecordsForHeadlessService builds.  Two addresses *)
(* with one hostname share a leaf key and the later one in the object   *)
(* overwrites the other; which one is later is fixed by the object.     *)
HeadlessLeaves(e) ==
    [k \in {EndpointName(e, ip) : ip \in DOMAIN e} |->
        CHOOSE ip \in DOMAIN e : EndpointName(e, ip) = k]

SvcTarget(s) == [svc |-> s, host |-> None]

(* treecache.DeletePath(domain, svc, ns, name): removes the child node  *)
(* of that name if there is one, and otherwise the leaf of that name.   *)
DeletePath(s) ==
    IF child[s] # None
    THEN /\ child' = [child EXCEPT ![s] = None]
         /\ UNCHANGED entry
    ELSE /\ entry' = [entry EXCEPT ![s] = None]
         /\ UNCHANGED child

(* Mutation: the "only for Named Headless service" guard dropped, so a  *)
(* hostname-less address gets a PTR to its hash-keyed name.             *)
GenerateHeadlessPtrForAll(s, e) ==
    /\ rev' = [ip \in IPs |->
                IF ip \in DOMAIN e THEN [svc |-> s, host |-> EndpointName(e, ip)]
                ELSE rev[ip]]
    /\ child' = [child EXCEPT ![s] = HeadlessLeaves(e)]
    /\ UNCHANGED <<entry, cip>>

(* generateRecordsForHeadlessService(e, svc), the cacheLock region:     *)
(* PTR records for the named addresses, then SetSubCache.               *)
GenerateHeadless(s, e) ==
    /\ rev' = [ip \in IPs |->
                IF ip \in Named(e) THEN [svc |-> s, host |-> e[ip]] ELSE rev[ip]]
    /\ child' = [child EXCEPT ![s] = HeadlessLeaves(e)]
    /\ UNCHANGED <<entry, cip>>

(* delete(kd.reverseRecordMap, ip) for every ip of drop *)
DropReverse(drop) ==
    rev' = [ip \in IPs |-> IF ip \in drop THEN None ELSE rev[ip]]

-----------------------------------------------------------------------------
Init ==
    /\ svcStore = [s \in Svcs |-> None]
    /\ epStore = [s \in Svcs |-> None]
    /\ child = [s \in Svcs |-> None]
    /\ entry = [s \in Svcs |-> None]
    /\ rev = [ip \in IPs |-> None]
    /\ cip = [ip \in ClusterIPs |-> None]
    /\ sPc = "Idle" /\ sKey = None /\ sOld = None /\ sNew = None /\ sEp = None
    /\ ePc = "Idle" /\ eKey = None /\ eOld = None /\ eNew = None /\ eDrop = {}
    /\ events = 0

SvcDone == /\ sPc' = "Idle" /\ sKey' = None /\ sOld' = None
           /\ sNew' = None /\ sEp' = None

EpDone == /\ ePc' = "Idle" /\ eKey' = None /\ eOld' = None
          /\ eNew' = None /\ eDrop' = {}


-----------------------------------------------------------------------------
(***************************************************************************)
(* The services informer (setServicesStore): it applies a change to        *)
(* servicesStore and then calls newService / updateService / removeService *)
(* for it; the next change waits until the handler returns.                *)
(***************************************************************************)

(* Mutation: an update that changes nothing is skipped (the "Avoid      *)
(* unwanted updates" TODO of handleEndpointUpdate done for services).    *)
StartUpdateServiceSkipUnchanged(s, old, new) ==
    IF old = new
    THEN /\ sPc' = "Idle" /\ UNCHANGED <<sKey, sOld, sNew, sEp>>
    ELSE /\ sPc' = IF IsExternalName(new) # IsExternalName(old) THEN "Remove" ELSE "New"
         /\ sKey' = s /\ sOld' = old /\ sNew' = new /\ UNCHANGED sEp

(* updateService(old, new): removeService(old) first only when the type *)
(* flips to or from ExternalName, then newService(new).                  *)
StartUpdateService(s, old, new) ==
    /\ sPc' = IF IsExternalName(new) # IsExternalName(old) THEN "Remove" ELSE "New"
    /\ sKey' = s /\ sOld' = old /\ sNew' = new /\ UNCHANGED sEp

SvcAdd(s, svc) ==
    /\ sPc = "Idle" /\ events < MaxEvents
    /\ svcStore[s] = None
    /\ svcStore' = [svcStore EXCEPT ![s] = svc]
    /\ sPc' = "New" /\ sKey' = s /\ sNew' = svc /\ UNCHANGED <<sOld, sEp>>
    /\ events' = events + 1
    /\ UNCHANGED <<epStore, cacheVars, epVars>>

SvcUpdate(s, svc) ==
    /\ sPc = "Idle" /\ events < MaxEvents
    /\ svcStore[s] \notin {None, svc}
    /\ svcStore' = [svcStore EXCEPT ![s] = svc]
    /\ StartUpdateService(s, svcStore[s], svc)
    /\ events' = events + 1
    /\ UNCHANGED <<epStore, cacheVars, epVars>>

(* the periodic resync (resyncPeriod) re-delivers every stored object  *)
(* as an update from itself to itself                                   *)
SvcResync(s) ==
    /\ sPc = "Idle"
    /\ svcStore[s] # None
    /\ StartUpdateService(s, svcStore[s], svcStore[s])
    /\ UNCHANGED <<storeVars, cacheVars, epVars, events>>

SvcDelete(s) ==
    /\ sPc = "Idle" /\ events < MaxEvents
    /\ svcStore[s] # None
    /\ svcStore' = [svcStore EXCEPT ![s] = None]
    /\ sPc' = "Remove" /\ sKey' = s /\ sOld' = svcStore[s] /\ sNew' = None
    /\ UNCHANGED sEp
    /\ events' = events + 1
    /\ UNCHANGED <<epStore, cacheVars, epVars>>

(* a delete seen only by a relist arrives as DeletedFinalStateUnknown;  *)
(* assertIsService fails on it and removeService returns               *)
SvcDeleteTombstone(s) ==
    /\ Tombstones
    /\ sPc = "Idle" /\ events < MaxEvents
    /\ svcStore[s] # None
    /\ svcStore' = [svcStore EXCEPT ![s] = None]
    /\ events' = events + 1
    /\ UNCHANGED <<epStore, cacheVars, svcVars, epVars>>

(* Mutation: removeService forgets delete(kd.reverseRecordMap, ip). *)
SvcRemoveKeepReverse ==
    /\ sPc = "Remove"
    /\ DeletePath(sKey)
    /\ UNCHANGED rev
    /\ cip' = [ip \in ClusterIPs |-> IF ip \in sOld.ips THEN None ELSE cip[ip]]
    /\ IF sNew = None
       THEN SvcDone
       ELSE /\ sPc' = "New"
            /\ UNCHANGED <<sKey, sOld, sNew, sEp>>
    /\ UNCHANGED <<storeVars, epVars, events>>

(* removeService(old), one cacheLock region.  For a service without a  *)
(* cluster IP the loop over GetClusterIPs is skipped: old.ips is {}.    *)
SvcRemove ==
    /\ sPc = "Remove"
    /\ DeletePath(sKey)
    /\ DropReverse(sOld.ips)
    /\ cip' = [ip \in ClusterIPs |-> IF ip \in sOld.ips THEN None ELSE cip[ip]]
    /\ IF sNew = None
       THEN SvcDone
       ELSE /\ sPc' = "New"
            /\ UNCHANGED <<sKey, sOld, sNew, sEp>>
    /\ UNCHANGED <<storeVars, epVars, events>>

(* newService -> newExternalNameService: one SetEntry under cacheLock *)
SvcNewExternalName ==
    /\ sPc = "New"
    /\ IsExternalName(sNew)
    /\ entry' = [entry EXCEPT ![sKey] = sNew.ext]
    /\ SvcDone
    /\ UNCHANGED <<storeVars, child, rev, cip, epVars, events>>

(* Mutation: clusterIPServiceMap is only updated for the first cluster  *)
(* IP (service.Spec.ClusterIP), not for every IP of GetClusterIPs.       *)
SvcNewPortalCipFirstOnly ==
    /\ sPc = "New"
    /\ ~IsExternalName(sNew) /\ IsServiceIPSet(sNew)
    /\ child' = [child EXCEPT ![sKey] = PortalLeaves(sNew)]
    /\ rev' = [ip \in IPs |-> IF ip \in sNew.ips THEN SvcTarget(sKey) ELSE rev[ip]]
    /\ cip' = [ip \in ClusterIPs |->
                IF ip = (CHOOSE i \in sNew.ips : TRUE) THEN sKey ELSE cip[ip]]
    /\ SvcDone
    /\ UNCHANGED <<storeVars, entry, epVars, events>>

(* newService -> newPortalService: the subtree is built outside the    *)
(* lock, then SetSubCache and the two maps in one cacheLock region.     *)
(* Entries for IPs the service no longer has are left as they are.      *)
SvcNewPortal ==
    /\ sPc = "New"
    /\ ~IsExternalName(sNew) /\ IsServiceIPSet(sNew)
    /\ child' = [child EXCEPT ![sKey] = PortalLeaves(sNew)]
    /\ rev' = [ip \in IPs |-> IF ip \in sNew.ips THEN SvcTarget(sKey) ELSE rev[ip]]
    /\ cip' = [ip \in ClusterIPs |-> IF ip \in sNew.ips THEN sKey ELSE cip[ip]]
    /\ SvcDone
    /\ UNCHANGED <<storeVars, entry, epVars, events>>

(* newService -> newHeadlessService: read endpointsStore; without      *)
(* endpoints nothing is written ("records will be created once          *)
(* endpoints show up").                                                 *)
SvcNewHeadless ==
    /\ sPc = "New"
    /\ ~IsExternalName(sNew) /\ ~IsServiceIPSet(sNew)
    /\ IF epStore[sKey] = None
       THEN SvcDone
       ELSE /\ sEp' = epStore[sKey]
            /\ sPc' = "HeadlessWrite"
            /\ UNCHANGED <<sKey, sOld, sNew>>
    /\ UNCHANGED <<storeVars, cacheVars, epVars, events>>

(* generateRecordsForHeadlessService with the endpoints read above *)
SvcHeadlessWrite ==
    /\ sPc = "HeadlessWrite"
    /\ GenerateHeadless(sKey, sEp)
    /\ SvcDone
    /\ UNCHANGED <<storeVars, epVars, events>>

-----------------------------------------------------------------------------
(***************************************************************************)
(* The endpoints informer (setEndpointsStore): handleEndpointAdd,          *)
(* handleEndpointUpdate, handleEndpointDelete.                             *)
(***************************************************************************)

EpAdd(s, e) ==
    /\ ePc = "Idle" /\ events < MaxEvents
    /\ epStore[s] = None
    /\ epStore' = [epStore EXCEPT ![s] = e]
    /\ ePc' = "AddRead" /\ eKey' = s /\ eNew' = e /\ UNCHANGED <<eOld, eDrop>>
    /\ events' = events + 1
    /\ UNCHANGED <<svcStore, cacheVars, svcVars>>

EpUpdate(s, e) ==
    /\ ePc = "Idle" /\ events < MaxEvents
    /\ epStore[s] \notin {None, e}
    /\ epStore' = [epStore EXCEPT ![s] = e]
    /\ ePc' = "UpdRead" /\ eKey' = s /\ eOld' = epStore[s] /\ eNew' = e
    /\ UNCHANGED eDrop
    /\ events' = events + 1
    /\ UNCHANGED <<svcStore, cacheVars, svcVars>>

EpResync(s) ==
    /\ ePc = "Idle"
    /\ epStore[s] # None
    /\ ePc' = "UpdRead" /\ eKey' = s /\ eOld' = epStore[s] /\ eNew' = epStore[s]
    /\ UNCHANGED eDrop
    /\ UNCHANGED <<storeVars, cacheVars, svcVars, events>>

EpDelete(s) ==
    /\ ePc = "Idle" /\ events < MaxEvents
    /\ epStore[s] # None
    /\ epStore' = [epStore EXCEPT ![s] = None]
    /\ ePc' = "DelRead" /\ eKey' = s /\ eOld' = epStore[s]
    /\ UNCHANGED <<eNew, eDrop>>
    /\ events' = events + 1
    /\ UNCHANGED <<svcStore, cacheVars, svcVars>>

EpDeleteTombstone(s) ==
    /\ Tombstones
    /\ ePc = "Idle" /\ events < MaxEvents
    /\ epStore[s] # None
    /\ epStore' = [epStore EXCEPT ![s] = None]
    /\ events' = events + 1
    /\ UNCHANGED <<svcStore, cacheVars, svcVars, epVars>>

(* handleEndpointUpdate: getServiceFromEndpoints(old); for a service    *)
(* without a cluster IP, oldAddressMap = the named old addresses that   *)
(* are not named in the new object.                                     *)
EpUpdRead ==
    /\ ePc = "UpdRead"
    /\ IF svcStore[eKey] # None /\ ~IsServiceIPSet(svcStore[eKey])
       THEN /\ eDrop' = Named(eOld) \ Named(eNew)
            /\ ePc' = "UpdDelete"
       ELSE /\ ePc' = "AddRead"
            /\ UNCHANGED eDrop
    /\ UNCHANGED <<eKey, eOld, eNew>>
    /\ UNCHANGED <<storeVars, cacheVars, svcVars, events>>

(* the cacheLock region that deletes oldAddressMap from reverseRecordMap, *)
(* then handleEndpointAdd(new)                                            *)
EpUpdDelete ==
    /\ ePc = "UpdDelete"
    /\ DropReverse(eDrop)
    /\ ePc' = "AddRead" /\ eDrop' = {}
    /\ UNCHANGED <<eKey, eOld, eNew>>
    /\ UNCHANGED <<storeVars, child, entry, cip, svcVars, events>>

(* addDNSUsingEndpoints: getServiceFromEndpoints; records are generated *)
(* only for a headless service that is not ExternalName                  *)
EpAddRead ==
    /\ ePc = "AddRead"
    /\ LET svc == svcStore[eKey] IN
       IF svc = None \/ IsServiceIPSet(svc) \/ IsExternalName(svc)
       THEN EpDone
       ELSE /\ ePc' = "AddWrite"
            /\ UNCHANGED <<eKey, eOld, eNew, eDrop>>
    /\ UNCHANGED <<storeVars, cacheVars, svcVars, events>>

(* generateRecordsForHeadlessService(new, svc) *)
EpAddWrite ==
    /\ ePc = "AddWrite"
    /\ GenerateHeadless(eKey, eNew)
    /\ EpDone
    /\ UNCHANGED <<storeVars, svcVars, events>>

(* handleEndpointDelete: getServiceFromEndpoints, then for a service    *)
(* without a cluster IP drop the PTR records of the named addresses     *)
EpDelRead ==
    /\ ePc = "DelRead"
    /\ IF svcStore[eKey] # None /\ ~IsServiceIPSet(svcStore[eKey])
       THEN /\ eDrop' = Named(eOld)
            /\ ePc' = "DelWrite"
            /\ UNCHANGED <<eKey, eOld, eNew>>
       ELSE EpDone
    /\ UNCHANGED <<storeVars, cacheVars, svcVars, events>>

EpDelWrite ==
    /\ ePc = "DelWrite"
    /\ DropReverse(eDrop)
    /\ EpDone
    /\ UNCHANGED <<storeVars, child, entry, cip, svcVars, events>>

-----------------------------------------------------------------------------
SvcEvent ==
    \E s \in Svcs :
        \/ \E svc \in ServiceObjects : SvcAdd(s, svc) \/ SvcUpdate(s, svc)
        \/ SvcDelete(s)
        \/ SvcDeleteTombstone(s)

SvcHandler ==
    \/ SvcRemove
    \/ SvcNewExternalName
    \/ SvcNewPortal
    \/ SvcNewHeadless
    \/ SvcHeadlessWrite

EpEvent ==
    \E s \in Svcs :
        \/ \E e \in EndpointsObjects : EpAdd(s, e) \/ EpUpdate(s, e)
        \/ EpDelete(s)
        \/ EpDeleteTombstone(s)

EpHandler ==
    \/ EpUpdRead
    \/ EpUpdDelete
    \/ EpAddRead
    \/ EpAddWrite
    \/ EpDelRead
    \/ EpDelWrite

Next ==
    \/ SvcEvent
    \/ SvcHandler
    \/ \E s \in Svcs : SvcResync(s)
    \/ EpEvent
    \/ EpHandler
    \/ \E s \in Svcs : EpResync(s)

(* The informer goroutines never stop inside a handler, and the resync   *)
(* timer of each informer fires for every stored object.                 *)
Fairness ==
    /\ WF_vars(SvcHandler)
    /\ WF_vars(EpHandler)
    /\ \A s \in Svcs : WF_vars(SvcResync(s)) /\ WF_vars(EpResync(s))

Spec == Init /\ [][Next]_vars

FairSpec == Spec /\ Fairness


-----------------------------------------------------------------------------
(***************************************************************************)
(* Properties.                                                             *)
(***************************************************************************)

(* Every variable holds a value of its intended kind. *)
TypeOK ==
    /\ svcStore \in [Svcs -> ServiceObjects \cup {None}]
    /\ epStore \in [Svcs -> EndpointsObjects \cup {None}]
    /\ child \in [Svcs -> LeafMaps \cup {None}]
    /\ entry \in [Svcs -> ExternalNames \cup {None}]
    /\ rev \in [IPs -> Targets \cup {None}]
    /\ cip \in [ClusterIPs -> Svcs \cup {None}]
    /\ sPc \in {"Idle", "Remove", "New", "HeadlessWrite"}
    /\ sKey \in Svcs \cup {None}
    /\ sOld \in ServiceObjects \cup {None}
    /\ sNew \in ServiceObjects \cup {None}
    /\ sEp \in EndpointsObjects \cup {None}
    /\ sPc # "Idle" => sKey \in Svcs
    /\ sPc = "Remove" => sOld \in ServiceObjects
    /\ sPc \in {"New", "HeadlessWrite"} => sNew \in ServiceObjects
    /\ sPc = "HeadlessWrite" => sEp \in EndpointsObjects
    /\ ePc \in {"Idle", "UpdRead", "UpdDelete", "AddRead", "AddWrite", "DelRead", "DelWrite"}
    /\ eKey \in Svcs \cup {None}
    /\ eOld \in EndpointsObjects \cup {None}
    /\ eNew \in EndpointsObjects \cup {None}
    /\ eDrop \in SUBSET EndpointIPs
    /\ ePc # "Idle" => eKey \in Svcs
    /\ ePc \in {"UpdRead", "DelRead"} => eOld \in EndpointsObjects
    /\ ePc \in {"UpdRead", "UpdDelete", "AddRead", "AddWrite"} => eNew \in EndpointsObjects
    /\ events \in 0..MaxEvents

(* I1/I4 for cluster IPs: the reverse map and clusterIPServiceMap, which *)
(* newPortalService and removeService edit in one cacheLock region, agree *)
(* in every state: a cluster IP has a PTR record exactly when it is       *)
(* mapped to a service, and the PTR names that service.  The endpoints    *)
(* handlers delete reverse entries too, of endpoint IPs only.             *)
RevCipConsistent ==
    \A ip \in ClusterIPs :
        /\ (cip[ip] = None) <=> (rev[ip] = None)
        /\ cip[ip] # None => rev[ip] = SvcTarget(cip[ip])


(* The reverse index seen through the cluster IPs: the PTR records of    *)
(* cluster IPs and clusterIPServiceMap.                                   *)
RI == INSTANCE ReverseIndex WITH ptr <- [ip \in ClusterIPs |-> rev[ip]], svcOf <- cip

(* The record engine implements the reverse index of spec section 4.2:   *)
(* every step of the informers either leaves the PTR records and the map  *)
(* entries of all cluster IPs alone, or installs one service on a set of  *)
(* cluster IPs in both, or removes a set of cluster IPs from both.        *)
ReverseIndexRefined == RI!Spec

(* Both informer goroutines are between events. *)
Quiescent == sPc = "Idle" /\ ePc = "Idle"

(* The records the stores call for while service s exists: the CNAME of  *)
(* an ExternalName service, the A records and PTR records of a cluster   *)
(* IP service, and the A records and hostname PTR records of a headless  *)
(* service that has endpoints.                                           *)
RecordsServed(s) ==
    LET svc == svcStore[s]
        e == epStore[s]
    IN  svc # None =>
          CASE IsExternalName(svc) -> entry[s] = svc.ext
            [] IsServiceIPSet(svc) ->
                 /\ child[s] = PortalLeaves(svc)
                 /\ \A ip \in svc.ips : rev[ip] = SvcTarget(s) /\ cip[ip] = s
            [] e # None ->
                 /\ child[s] = HeadlessLeaves(e)
                 /\ \A ip \in Named(e) : rev[ip] = [svc |-> s, host |-> e[ip]]
            [] OTHER -> TRUE

(* P4, completeness half: once the API stops changing, the engine ends up *)
(* serving every record the stores call for, even after a handler         *)
(* installed a subtree from a stale read of the other informer's store;   *)
(* the periodic resync (updateService(obj, obj), handleEndpointUpdate(obj, *)
(* obj)) is what repairs it.                                               *)
Completeness == <>[](\A s \in Svcs : RecordsServed(s))

(* Spec lifecycle: a service's subtree and CNAME are destroyed on service *)
(* delete; so once the handlers are idle, a service that is not in the    *)
(* services store has no records in the cache.                            *)
NoRecordsForDeletedService ==
    Quiescent =>
        \A s \in Svcs : svcStore[s] = None => child[s] = None /\ entry[s] = None

(* Spec lifecycle and I2: reverse entries are destroyed on service       *)
(* delete; once the handlers are idle no PTR record of a pod IP names a   *)
(* service that is not in the services store.                             *)
NoPodPtrForDeletedService ==
    Quiescent =>
        \A ip \in EndpointIPs : rev[ip] # None => svcStore[rev[ip].svc] # None

(* I1 and section 4.4 ("delete reverse entries for any cluster IPs no     *)
(* longer present"): once the handlers are idle, clusterIPServiceMap maps *)
(* only IPs that the mapped service still has.                            *)
ClusterIPMapCurrent ==
    Quiescent =>
        \A ip \in ClusterIPs :
            cip[ip] # None =>
                /\ svcStore[cip[ip]] # None
                /\ ip \in svcStore[cip[ip]].ips

(* P4 (determinism) for headless services: the same final stores give the *)
(* same cache.  A headless service whose endpoints were never added has no *)
(* subtree, so once the handlers are idle a headless service without an   *)
(* endpoints object must have none either, whatever endpoints it once had *)
(* (handleEndpointDelete only drops PTR records).                          *)
HeadlessRecordsFollowEndpoints ==
    Quiescent =>
        \A s \in Svcs :
            /\ svcStore[s] # None
            /\ ~IsExternalName(svcStore[s]) /\ ~IsServiceIPSet(svcStore[s])
            /\ epStore[s] = None
            => child[s] = None

=============================================================================

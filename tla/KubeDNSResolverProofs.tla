------------------------ MODULE KubeDNSResolverProofs ------------------------
(***************************************************************************)
(* Proofs about the resolver composed with the record engine, for every  *)
(* value of the constants: the resolver state stays well typed for any    *)
(* number of query goroutines (the node getClusterZoneAndRegion adds to  *)
(* nodesStore is the first labelled one, which exists by the well-        *)
(* foundedness of the API's list order); without a SkyDNS config no      *)
(* query dereferences a nil kd.config; and, for any number of query      *)
(* goroutines, every federation redirect names a zone of the node cache,  *)
(* which holds at most one node per goroutine and, once filled, is never  *)
(* replaced and never sends a query back to list the API's nodes.         *)
(***************************************************************************)
EXTENDS KubeDNSResolver, KubeDNSProofs, KubeDNSLemmas, FiniteSetTheorems, TLAPS

USE ResolverAssumption, ConstantsAssumption

(* The loop of getClusterZoneAndRegion over the API's list finds a first *)
(* node with both labels whenever the list has one: the list positions    *)
(* are naturals, and a non-empty set of naturals has a least element.     *)
LEMMA FirstLabeledIsLabelled ==
    ASSUME NEW ns \in SUBSET Nodes, \E n \in ns : NodeLoc[n] # None
    PROVE  FirstLabeled(ns) \in ns /\ NodeLoc[FirstLabeled(ns)] \in Locs
<1> DEFINE L == {n \in ns : NodeLoc[n] # None}
           T == {NodeRank[n] : n \in L}
<1>1. T \subseteq Nat /\ T # {}
    OBVIOUS
<1>2. PICK x \in T : \A y \in T : x <= y
    BY <1>1, NatLeast
<1>3. PICK n \in L : NodeRank[n] = x
    OBVIOUS
<1>4. /\ n \in ns
      /\ NodeLoc[n] # None
      /\ \A m \in ns : NodeLoc[m] # None => NodeRank[n] <= NodeRank[m]
    BY <1>2, <1>3
<1>5. FirstLabeled(ns) \in ns /\ NodeLoc[FirstLabeled(ns)] # None
    BY <1>4 DEF FirstLabeled
<1>6. QED
    BY <1>5

(* getRecordsForPath returns records whose hosts are IPs of the cache's  *)
(* leaves or the CNAME of an ExternalName service.                        *)
LEMMA LookupHostsType ==
    ASSUME TypeOK, NEW s \in Svcs
    PROVE  LookupHosts(s) \subseteq IPs \cup ExternalNames
<1>1. entry[s] # None => entry[s] \in ExternalNames
    BY DEF TypeOK
<1>2. child[s] # None => \A k \in DOMAIN child[s] : child[s][k] \in IPs
    <2>1. child[s] # None => \E K \in SUBSET LeafKeys : child[s] \in [K -> IPs]
        BY DEF TypeOK, LeafMaps
    <2>2. QED
        BY <2>1
<1>3. QED
    BY <1>1, <1>2 DEF LookupHosts

(* The inductive invariant of resolver type correctness: the engine is   *)
(* well typed, and the nodes in nodesStore, hence the zone a resolver     *)
(* about to answer a redirect holds, carry both labels.                   *)
RInv ==
    /\ TypeOK
    /\ RTypeOK
    /\ \A n \in nodeStore : NodeLoc[n] \in Locs
    /\ \A r \in Resolvers : qPc[r] = "Domain" => qZone[r] \in Locs

LEMMA RInvInit ==
    RInit => RInv
<1> SUFFICES ASSUME RInit PROVE RInv
    OBVIOUS
<1>1. TypeOK
    BY InitTypeOK DEF RInit
<1>2. RTypeOK
    BY DEF RInit, RTypeOK, Answers
<1>3. QED
    BY <1>1, <1>2 DEF RInit, RInv

(* A step of the config sync, the node list or a resolver leaves the     *)
(* record engine, hence its type, alone.                                  *)
LEMMA EngineUnchangedTypeOK ==
    ASSUME TypeOK, UNCHANGED vars
    PROVE  TypeOK'
BY DEF TypeOK, vars, storeVars, cacheVars, svcVars, epVars

LEMMA RInvNext ==
    ASSUME RInv, [RNext]_allVars
    PROVE  RInv'
<1> USE DEF resolverVars, allVars
<1>1. CASE EngineStep
    <2>1. TypeOK'
        BY <1>1, NextTypeOK DEF RInv, EngineStep
    <2>2. QED
        BY <1>1, <2>1 DEF EngineStep, RInv, RTypeOK
<1>2. CASE StartConfigSync
    <2>1. TypeOK'
        BY <1>2, EngineUnchangedTypeOK DEF RInv, StartConfigSync
    <2>2. config' \in Configs \cup {None}
        <3>1. CASE config' = DefaultConfig
            BY <3>1 DEF DefaultConfig, Configs
        <3>2. CASE \E c \in Configs : UpdateConfig(c)
            BY <3>2 DEF UpdateConfig, RInv, RTypeOK
        <3>3. QED
            BY <1>2, <3>1, <3>2 DEF StartConfigSync
    <2>3. QED
        BY <1>2, <2>1, <2>2 DEF StartConfigSync, RInv, RTypeOK
<1>3. ASSUME NEW c \in Configs, PushConfig(c)
      PROVE  RInv'
    <2>1. TypeOK'
        BY <1>3, EngineUnchangedTypeOK DEF RInv, PushConfig
    <2>2. config' \in Configs \cup {None} /\ pushes' \in 0..MaxConfigs
        BY <1>3 DEF PushConfig, UpdateConfig, RInv, RTypeOK
    <2>3. QED
        BY <1>3, <2>1, <2>2 DEF PushConfig, RInv, RTypeOK
<1>4. ASSUME NEW n \in Nodes, NodeChange(n)
      PROVE  RInv'
    <2>1. TypeOK'
        BY <1>4, EngineUnchangedTypeOK DEF RInv, NodeChange
    <2>2. QED
        BY <1>4, <2>1 DEF NodeChange, RInv, RTypeOK
<1>5. ASSUME NEW r \in Resolvers, Resolver(r)
      PROVE  RInv'
    <2>1. TypeOK'
        BY <1>5, EngineUnchangedTypeOK
        DEF RInv, Resolver, QStart, QClassify, QLookup, QCheck, QClassify2,
            QZone, QZoneList, QDomain
    <2>2. CASE QStart(r)
        BY <2>1, <2>2 DEF QStart, RInv, RTypeOK, Answers
    <2>3. CASE QClassify(r)
        BY <2>1, <2>3 DEF QClassify, RInv, RTypeOK, Answers
    <2>4. CASE QLookup(r)
        <3>1. LookupHosts(QSvc) \in SUBSET (IPs \cup ExternalNames)
            BY LookupHostsType DEF RInv
        <3>2. AnyValid(LookupHosts(QSvc)) \in BOOLEAN
            BY DEF AnyValid
        <3>3. QED
            BY <2>1, <2>4, <3>1, <3>2 DEF QLookup, RInv, RTypeOK
    <2>5. CASE QCheck(r)
        BY <2>1, <2>5 DEF QCheck, RInv, RTypeOK, Answers
    <2>6. CASE QClassify2(r)
        BY <2>1, <2>6 DEF QClassify2, RInv, RTypeOK, Answers
    <2>7. CASE QZone(r)
        BY <2>1, <2>7 DEF QZone, RInv, RTypeOK
    <2>8. CASE QZoneList(r)
        <3>1. CASE \E n \in apiNodes : NodeLoc[n] # None
            <4>1. FirstLabeled(apiNodes) \in apiNodes
                  /\ NodeLoc[FirstLabeled(apiNodes)] \in Locs
                BY <3>1, FirstLabeledIsLabelled DEF RInv, RTypeOK
            <4>2. QED
                BY <2>1, <2>8, <4>1 DEF QZoneList, RInv, RTypeOK, Answers
        <3>2. CASE ~\E n \in apiNodes : NodeLoc[n] # None
            BY <2>1, <2>8, <3>2 DEF QZoneList, RInv, RTypeOK, Answers
        <3>3. QED
            BY <3>1, <3>2
    <2>9. CASE QDomain(r)
        BY <2>1, <2>9 DEF QDomain, RInv, RTypeOK, Answers
    <2>10. QED
        BY <1>5, <2>2, <2>3, <2>4, <2>5, <2>6, <2>7, <2>8, <2>9 DEF Resolver
<1>6. CASE UNCHANGED allVars
    <2>1. TypeOK'
        BY <1>6, EngineUnchangedTypeOK DEF RInv
    <2>2. QED
        BY <1>6, <2>1 DEF RInv, RTypeOK
<1>7. QED
    BY <1>1, <1>2, <1>3, <1>4, <1>5, <1>6 DEF RNext

(* RTypeOK: whatever the interleaving of the record engine, the config   *)
(* sync, node changes and any number of query goroutines, the resolver's  *)
(* state stays within its types: in particular the zone a redirect names  *)
(* is a zone label pair, never the unlabelled zone of a node               *)
(* getClusterZoneAndRegion skipped.                                        *)
THEOREM ResolverTypeCorrect ==
    RSpec => []RTypeOK
<1>1. RInit => RInv
    BY RInvInit
<1>2. RInv /\ [RNext]_allVars => RInv'
    BY RInvNext
<1>3. RInv => RTypeOK
    BY DEF RInv
<1>4. QED
    BY <1>1, <1>2, <1>3, PTL DEF RSpec

QPcs == {"Idle", "Classify", "Lookup", "Check", "Classify2",
         "Zone", "ZoneList", "Domain", "Panic"}

(* the zones of the nodes in nodesStore *)
Zones == {NodeLoc[n] : n \in nodeStore}

(* the query goroutines between nodesStore.List() and AddIfNotPresent,  *)
(* listing the API's nodes because they found the store empty            *)
Listing == {r \in Resolvers : qPc[r] = "ZoneList"}

(* The inductive invariant of RedirectZonesCached: nodesStore is finite,  *)
(* a resolver about to name a zone got it from nodesStore, and once the   *)
(* store holds a node its nodes and the listings still in flight together *)
(* number at most the query goroutines: each of them adds at most one     *)
(* node, and none starts a listing once the store is filled.              *)
CInv ==
    /\ qPc \in [Resolvers -> QPcs]
    /\ DOMAIN qZone = Resolvers
    /\ IsFiniteSet(nodeStore)
    /\ zonesUsed \subseteq Zones
    /\ \A r \in Resolvers : qPc[r] = "Domain" => qZone[r] \in Zones
    /\ nodeStore # {} =>
         Cardinality(nodeStore) + Cardinality(Listing) <= Cardinality(Resolvers)

(* the listings in flight are a finite subset of the query goroutines *)
LEMMA ListingFinite ==
    IsFiniteSet(Listing) /\ Cardinality(Listing) <= Cardinality(Resolvers)
      /\ Cardinality(Listing) \in Nat /\ Cardinality(Resolvers) \in Nat
BY FS_Subset, FS_CardinalityType DEF Listing

LEMMA CInvInit ==
    RInit => CInv
BY FS_EmptySet DEF RInit, CInv, QPcs, Zones

(* A step of a query that neither enters nor leaves the listing leaves  *)
(* the set of listings alone.                                            *)
LEMMA ListingFrame ==
    ASSUME NEW r \in Resolvers, NEW v, qPc \in [Resolvers -> QPcs],
           qPc[r] # "ZoneList", v # "ZoneList",
           qPc' = [qPc EXCEPT ![r] = v]
    PROVE  Listing' = Listing
BY DEF Listing

(* Every step keeps CInv, for any number of query goroutines. *)
LEMMA CInvNext ==
    ASSUME CInv, [RNext]_allVars
    PROVE  CInv'
<1> USE DEF resolverVars, allVars
<1>1. CASE EngineStep
    BY <1>1 DEF EngineStep, CInv, Zones, Listing
<1>2. CASE StartConfigSync
    BY <1>2 DEF StartConfigSync, CInv, Zones, Listing
<1>3. CASE \E c \in Configs : PushConfig(c)
    BY <1>3 DEF PushConfig, CInv, Zones, Listing
<1>4. CASE \E n \in Nodes : NodeChange(n)
    BY <1>4 DEF NodeChange, CInv, Zones, Listing
<1>5. ASSUME NEW r \in Resolvers, Resolver(r)
      PROVE  CInv'
    <2>1. CASE QStart(r)
        BY <2>1, ListingFrame DEF QStart, CInv, Zones, QPcs
    <2>2. CASE QClassify(r)
        BY <2>2, ListingFrame DEF QClassify, CInv, Zones, QPcs
    <2>3. CASE QLookup(r)
        BY <2>3, ListingFrame DEF QLookup, CInv, Zones, QPcs
    <2>4. CASE QCheck(r)
        BY <2>4, ListingFrame DEF QCheck, CInv, Zones, QPcs
    <2>5. CASE QClassify2(r)
        BY <2>5, ListingFrame DEF QClassify2, CInv, Zones, QPcs
    <2>6. CASE QZone(r)
        <3>1. CASE nodeStore # {}
            BY <2>6, <3>1, ListingFrame DEF QZone, CInv, Zones, QPcs
        <3>2. CASE nodeStore = {}
            BY <2>6, <3>2 DEF QZone, CInv, Zones, QPcs
        <3>3. QED
            BY <3>1, <3>2
    <2>7. CASE QZoneList(r)
        <3>1. /\ r \in Listing
              /\ Listing' = Listing \ {r}
              /\ qPc'[r] \in {"Domain", "Idle"}
              /\ qPc' \in [Resolvers -> QPcs]
            BY <2>7 DEF QZoneList, CInv, Listing, QPcs
        <3>2. Cardinality(Listing') = Cardinality(Listing) - 1
            BY <3>1, ListingFinite, FS_RemoveElement
        <3> DEFINE fn == FirstLabeled(apiNodes)
                   S2 == nodeStore \cup {fn}
        <3>3. CASE /\ nodeStore' = S2
                   /\ qZone' = [qZone EXCEPT ![r] = NodeLoc[fn]]
                   /\ qPc' = [qPc EXCEPT ![r] = "Domain"]
                   /\ zonesUsed' = zonesUsed
            <4>1. IsFiniteSet(nodeStore) /\ Cardinality(nodeStore) \in Nat
                BY FS_CardinalityType DEF CInv
            <4>2. /\ IsFiniteSet(S2)
                  /\ Cardinality(S2) = IF fn \in nodeStore THEN Cardinality(nodeStore)
                                       ELSE Cardinality(nodeStore) + 1
                BY <4>1, FS_AddElement, Zenon
            <4>3. Cardinality(S2) \in Nat /\ Cardinality(S2) <= Cardinality(nodeStore) + 1
                BY <4>1, <4>2, FS_CardinalityType
            <4>4. Cardinality(S2) + Cardinality(Listing') <= Cardinality(Resolvers)
                <5>1. CASE nodeStore = {}
                    <6>1. S2 = {fn}
                        BY <5>1
                    <6>2. Cardinality(S2) = 1
                        BY <6>1, FS_Singleton, Zenon
                    <6>3. QED
                        BY <6>2, <3>2, ListingFinite
                <5>2. CASE nodeStore # {}
                    <6>1. Cardinality(nodeStore) + Cardinality(Listing)
                            <= Cardinality(Resolvers)
                        BY <5>2 DEF CInv
                    <6>2. QED
                        BY <6>1, <3>2, <4>1, <4>3, ListingFinite
                <5>3. QED
                    BY <5>1, <5>2
            <4>5. Zones \subseteq Zones' /\ NodeLoc[fn] \in Zones'
                BY <3>3 DEF Zones
            <4>6. QED
                BY <3>1, <3>3, <4>2, <4>4, <4>5 DEF CInv
        <3>4. CASE /\ qPc' = [qPc EXCEPT ![r] = "Idle"]
                   /\ UNCHANGED <<nodeStore, qZone, zonesUsed>>
            <4>1. Cardinality(Listing') <= Cardinality(Listing)
                BY <3>2, ListingFinite
            <4>2. nodeStore' # {} =>
                    Cardinality(nodeStore') + Cardinality(Listing') <= Cardinality(Resolvers)
                BY <3>4, <4>1, <3>2, ListingFinite, FS_CardinalityType DEF CInv
            <4>3. \A s \in Resolvers : qPc'[s] = "Domain" => qZone'[s] \in Zones'
                BY <3>1, <3>4 DEF CInv, Zones
            <4>4. QED
                BY <3>1, <3>4, <4>2, <4>3 DEF CInv, Zones
        <3>5. \/ /\ nodeStore' = S2
                 /\ qZone' = [qZone EXCEPT ![r] = NodeLoc[fn]]
                 /\ qPc' = [qPc EXCEPT ![r] = "Domain"]
                 /\ zonesUsed' = zonesUsed
              \/ /\ qPc' = [qPc EXCEPT ![r] = "Idle"]
                 /\ UNCHANGED <<nodeStore, qZone, zonesUsed>>
            <4>1. zonesUsed' = zonesUsed
                BY <2>7 DEF QZoneList
            <4>2. QED
                BY <2>7, <4>1, Zenon DEF QZoneList
        <3>6. QED
            BY <3>3, <3>4, <3>5
    <2>8. CASE QDomain(r)
        <3>1. Listing' = Listing
            BY <2>8, ListingFrame DEF QDomain, CInv, QPcs
        <3>2. qZone[r] \in Zones
            BY <2>8 DEF QDomain, CInv
        <3>3. zonesUsed' \subseteq zonesUsed \cup {qZone[r]}
            BY <2>8 DEF QDomain
        <3>4. QED
            BY <2>8, <3>1, <3>2, <3>3 DEF QDomain, CInv, Zones, QPcs
    <2>9. QED
        BY <1>5, <2>1, <2>2, <2>3, <2>4, <2>5, <2>6, <2>7, <2>8 DEF Resolver
<1>6. CASE UNCHANGED allVars
    BY <1>6 DEF CInv, Zones, Listing
<1>7. QED
    BY <1>1, <1>2, <1>3, <1>4, <1>5, <1>6 DEF RNext

LEMMA CInvCached ==
    CInv => RedirectZonesCached
<1> SUFFICES ASSUME CInv
             PROVE  Cardinality(nodeStore) <= Cardinality(Resolvers)
    BY DEF CInv, Zones, RedirectZonesCached
<1>1. CASE nodeStore = {}
    BY <1>1, FS_EmptySet, ListingFinite
<1>2. CASE nodeStore # {}
    BY <1>2, ListingFinite, FS_CardinalityType DEF CInv
<1>3. QED
    BY <1>1, <1>2

(* RedirectZonesCached (spec 4.5c, as the code keeps it): for any number *)
(* of concurrent query goroutines, every zone a federation redirect names *)
(* is the zone of a node in nodesStore, and nodesStore holds at most one  *)
(* node per goroutine.  With one goroutine all redirects name one zone.   *)
THEOREM ZonesCachedHold ==
    RSpec => []RedirectZonesCached
<1>1. RInit => CInv
    BY CInvInit
<1>2. CInv /\ [RNext]_allVars => CInv'
    BY CInvNext
<1>3. CInv => RedirectZonesCached
    BY CInvCached
<1>4. QED
    BY <1>1, <1>2, <1>3, PTL DEF RSpec

(* The step NodeCacheKept allows: a filled nodesStore only grows, and no *)
(* query enters the listing.                                             *)
CacheKeptStep ==
    nodeStore # {} =>
        /\ nodeStore \subseteq nodeStore'
        /\ \A r \in Resolvers : qPc'[r] = "ZoneList" => qPc[r] = "ZoneList"

(* A query step that sets its own pc to anything but "ZoneList" moves no *)
(* query into the listing.                                               *)
LEMMA NoNewListing ==
    ASSUME NEW r \in Resolvers, NEW v, qPc \in [Resolvers -> QPcs],
           v # "ZoneList", qPc' = [qPc EXCEPT ![r] = v]
    PROVE  \A s \in Resolvers : qPc'[s] = "ZoneList" => qPc[s] = "ZoneList"
OBVIOUS

(* getClusterZoneAndRegion lists the API's nodes only after List() of    *)
(* nodesStore came back empty (dns.go:984), and only adds to the store.  *)
LEMMA CacheKeptNext ==
    ASSUME CInv, [RNext]_allVars
    PROVE  [CacheKeptStep]_allVars
<1> USE DEF resolverVars, allVars
<1> SUFFICES ASSUME nodeStore # {}, [RNext]_allVars
             PROVE  CacheKeptStep
    BY DEF CacheKeptStep
<1>1. CASE EngineStep
    BY <1>1 DEF EngineStep, CacheKeptStep
<1>2. CASE StartConfigSync
    BY <1>2 DEF StartConfigSync, CacheKeptStep
<1>3. CASE \E c \in Configs : PushConfig(c)
    BY <1>3 DEF PushConfig, CacheKeptStep
<1>4. CASE \E n \in Nodes : NodeChange(n)
    BY <1>4 DEF NodeChange, CacheKeptStep
<1>5. ASSUME NEW r \in Resolvers, Resolver(r)
      PROVE  CacheKeptStep
    <2>1. qPc \in [Resolvers -> QPcs]
        BY DEF CInv
    <2>2. PICK v : /\ v # "ZoneList"
                   /\ qPc' = [qPc EXCEPT ![r] = v]
                   /\ nodeStore \subseteq nodeStore'
        <3>1. CASE QStart(r)
            BY <3>1 DEF QStart
        <3>2. CASE QClassify(r)
            BY <3>2 DEF QClassify
        <3>3. CASE QLookup(r)
            BY <3>3 DEF QLookup
        <3>4. CASE QCheck(r)
            BY <3>4 DEF QCheck
        <3>5. CASE QClassify2(r)
            BY <3>5 DEF QClassify2
        <3>6. CASE QZone(r)
            BY <3>6 DEF QZone
        <3>7. CASE QZoneList(r)
            BY <3>7 DEF QZoneList
        <3>8. CASE QDomain(r)
            BY <3>8 DEF QDomain
        <3>9. QED
            BY <1>5, <3>1, <3>2, <3>3, <3>4, <3>5, <3>6, <3>7, <3>8 DEF Resolver
    <2>3. QED
        BY <2>1, <2>2, NoNewListing DEF CacheKeptStep
<1>6. CASE UNCHANGED allVars
    BY <1>6 DEF CacheKeptStep
<1>7. QED
    BY <1>1, <1>2, <1>3, <1>4, <1>5, <1>6 DEF RNext

(* NodeCacheKept (spec 4.5c: the listed node is stored so that later     *)
(* calls hit in-memory state) holds of every step for any number of      *)
(* concurrent query goroutines: once nodesStore holds a node it is never *)
(* emptied or replaced, and no query starts to list the API's nodes.      *)
THEOREM NodeCacheKeptHolds ==
    RSpec => NodeCacheKept
<1>1. RInit => CInv
    BY CInvInit
<1>2. CInv /\ [RNext]_allVars => CInv'
    BY CInvNext
<1>3. CInv /\ [RNext]_allVars => [CacheKeptStep]_allVars
    BY CacheKeptNext
<1>4. QED
    BY <1>1, <1>2, <1>3, PTL DEF RSpec, NodeCacheKept, CacheKeptStep

-----------------------------------------------------------------------------
(* The inductive invariant of NoNilConfigRead without a SkyDNS config:   *)
(* once startConfigMapSync has returned kd.config is a config, and a     *)
(* query goroutine runs only after it has returned (the DNS server is    *)
(* started after kd.Start).                                              *)
NInv ==
    /\ cfgPc = "Run" => config \in Configs
    /\ \A r \in Resolvers : qPc[r] # "Idle" => cfgPc = "Run"
    /\ NoNilConfigRead

LEMMA NInvInit ==
    RInit => NInv
BY DEF RInit, NInv, NoNilConfigRead

LEMMA NInvNext ==
    ASSUME ~SkyDNSSet, RInv, NInv, [RNext]_allVars
    PROVE  NInv'
<1> USE DEF resolverVars, allVars
<1>1. CASE EngineStep
    BY <1>1 DEF EngineStep, NInv, NoNilConfigRead
<1>2. CASE StartConfigSync
    <2>1. config' \in Configs
        <3>1. DefaultConfig \in Configs
            BY DEF DefaultConfig, Configs
        <3>2. QED
            BY <1>2, <3>1 DEF StartConfigSync, UpdateConfig
    <2>2. \A r \in Resolvers : qPc[r] = "Idle"
        BY <1>2 DEF StartConfigSync, NInv
    <2>3. QED
        BY <1>2, <2>1, <2>2 DEF StartConfigSync, NInv, NoNilConfigRead
<1>3. ASSUME NEW c \in Configs, PushConfig(c)
      PROVE  NInv'
    BY <1>3 DEF PushConfig, UpdateConfig, NInv, NoNilConfigRead
<1>4. ASSUME NEW n \in Nodes, NodeChange(n)
      PROVE  NInv'
    BY <1>4 DEF NodeChange, NInv, NoNilConfigRead
<1>5. ASSUME NEW r \in Resolvers, Resolver(r)
      PROVE  NInv'
    <2>1. /\ qPc \in [Resolvers -> QPcs]
          /\ UNCHANGED <<config, cfgPc>>
        BY <1>5 DEF Resolver, QStart, QClassify, QLookup, QCheck, QClassify2,
                     QZone, QZoneList, QDomain, RInv, RTypeOK, QPcs
    <2>2. CASE QStart(r)
        BY <2>1, <2>2 DEF QStart, NInv, NoNilConfigRead
    <2>3. CASE QClassify(r)
        <3>1. config \in Configs
            BY <2>3 DEF QClassify, NInv
        <3>2. config # None
            BY <3>1 DEF Configs
        <3>3. cfgPc = "Run" /\ cfgPc' = "Run" /\ config' \in Configs
            BY <2>1, <2>3, <3>1 DEF QClassify, NInv
        <3>4. qPc'[r] # "Panic"
            BY <2>1, <2>3, <3>2 DEF QClassify
        <3>5. \A s \in Resolvers \ {r} : qPc'[s] = qPc[s]
            BY <2>1, <2>3 DEF QClassify
        <3>6. QED
            BY <3>3, <3>4, <3>5 DEF NInv, NoNilConfigRead
    <2>4. CASE QLookup(r)
        BY <2>1, <2>4 DEF QLookup, NInv, NoNilConfigRead
    <2>5. CASE QCheck(r)
        BY <2>1, <2>5 DEF QCheck, NInv, NoNilConfigRead
    <2>6. CASE QClassify2(r)
        BY <2>1, <2>6 DEF QClassify2, NInv, NoNilConfigRead
    <2>7. CASE QZone(r)
        BY <2>1, <2>7 DEF QZone, NInv, NoNilConfigRead
    <2>8. CASE QZoneList(r)
        BY <2>1, <2>8 DEF QZoneList, NInv, NoNilConfigRead
    <2>9. CASE QDomain(r)
        BY <2>1, <2>9 DEF QDomain, NInv, NoNilConfigRead
    <2>10. QED
        BY <1>5, <2>2, <2>3, <2>4, <2>5, <2>6, <2>7, <2>8, <2>9 DEF Resolver
<1>6. CASE UNCHANGED allVars
    BY <1>6 DEF NInv, NoNilConfigRead
<1>7. QED
    BY <1>1, <1>2, <1>3, <1>4, <1>5, <1>6 DEF RNext

(* NoNilConfigRead without a SkyDNS config: updateConfig then always     *)
(* assigns kd.config, and startConfigMapSync installs the default config *)
(* when the first fetch fails, so isFederationQuery never dereferences a *)
(* nil kd.config, for any number of query goroutines.  The nil_config    *)
(* run shows that with a SkyDNS config set it can.                       *)
THEOREM NoNilConfigReadWithoutSkyDNS ==
    ASSUME ~SkyDNSSet
    PROVE  RSpec => []NoNilConfigRead
<1>1. RInit => RInv /\ NInv
    BY RInvInit, NInvInit
<1>2. RInv /\ NInv /\ [RNext]_allVars => RInv' /\ NInv'
    BY RInvNext, NInvNext
<1>3. NInv => NoNilConfigRead
    BY DEF NInv
<1>4. QED
    BY <1>1, <1>2, <1>3, PTL DEF RSpec

=============================================================================

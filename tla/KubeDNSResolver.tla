--------------------------- MODULE KubeDNSResolver ---------------------------
(***************************************************************************)
(* The resolver composed with the record engine and the config sync:      *)
(* resolver goroutines answer the federated query                         *)
(*     <QSvc>.<ns>.<fed>.svc.<domain>.   (not exact)                      *)
(* while the informers of KubeDNS change the cache and the maps, the      *)
(* config sync goroutine replaces kd.config, and the API's node list      *)
(* changes.  The grammar part of isFederationQuery holds for this name    *)
(* (KubeDNSNames checks it); what is left is its config lookup.           *)
(*                                                                         *)
(* Each read lock region is one step: isFederationQuery (configLock),     *)
(* getRecordsForPath (cacheLock), the validity loop of                    *)
(* recordsForFederation (cacheLock), the isFederationQuery of             *)
(* federationRecords, getClusterZoneAndRegion (nodesStore, then the API   *)
(* list), and the read of config.Federations.  A config is abstracted to  *)
(* the parent domain of <fed> (None when <fed> is not configured) and     *)
(* whether all its upstream nameservers pass ValidateNameserverIpAndPort; *)
(* the nameserver list itself is left out.                                *)
(***************************************************************************)
EXTENDS KubeDNS, FiniteSets

CONSTANTS
    Resolvers,      \* concurrent query goroutines of the DNS front end
    QSvc,           \* the service the federated query names
    Domains,        \* parent domains a federation can be configured with
    Nodes,          \* cluster nodes
    Locs,           \* zone/region label pairs
    NodeLoc,        \* node -> its zone/region labels, None if it lacks one
    NodeRank,       \* node -> its position in the API's node list
    SkyDNSSet,      \* kd.SkyDNSConfig was set before Start
    MaxConfigs,     \* bound on config pushes
    MaxNodeChanges  \* bound on nodes joining or leaving

ASSUME ResolverAssumption ==
    /\ QSvc \in Svcs
    /\ None \notin Domains \cup Locs
    /\ None \notin [fed: Domains \cup {None}, nsOK: BOOLEAN]
    /\ NodeLoc \in [Nodes -> Locs \cup {None}]
    /\ NodeRank \in [Nodes -> Nat]
    /\ \A m, n \in Nodes : NodeRank[m] = NodeRank[n] => m = n
    /\ SkyDNSSet \in BOOLEAN
    /\ MaxConfigs \in Nat /\ MaxNodeChanges \in Nat
    /\ IsFiniteSet(Resolvers)

VARIABLES
    config,     \* kd.config: None (nil) or a config
    cfgPc,      \* "Start" before startConfigMapSync, then "Run"
    pushes,     \* config pushes so far
    apiNodes,   \* the nodes the API lists
    nodeStore,  \* kd.nodesStore
    nodeChanges,
    qPc,        \* resolver -> where it is in Records
    qRecs,      \* resolver -> hosts of the records getRecordsForPath returned
    qZone,      \* resolver -> the zone/region getClusterZoneAndRegion returned
    qAns,       \* resolver -> the answer of its last query
    qLinValid,  \* history: some state of the query (the lookup's or the check's)
                \* both returned qRecs and found one of them valid
    zonesUsed   \* history: zones of every redirect answered so far

resolverVars == <<config, cfgPc, pushes, apiNodes, nodeStore, nodeChanges,
                  qPc, qRecs, qZone, qAns, qLinValid, zonesUsed>>
allVars == <<vars, resolverVars>>

Configs == [fed: Domains \cup {None}, nsOK: BOOLEAN]

(* config.NewDefaultConfig(): no federations *)
DefaultConfig == [fed |-> None, nsOK |-> TRUE]

Answers == {"None", "NotFederated", "Local", "Redirect", "NotFound", "Error"}

(* treecache.GetValuesForPathWithWildcards on the service's path: the    *)
(* leaf of that name at the namespace node and every leaf below the      *)
(* service's node; a record is represented by its host.                  *)
LookupHosts(s) ==
    (IF entry[s] # None THEN {entry[s]} ELSE {})
      \cup (IF child[s] # None THEN {child[s][k] : k \in DOMAIN child[s]} ELSE {})

(* isHeadlessServiceRecord / serviceWithClusterIPHasEndpoints: a record  *)
(* whose host is not in clusterIPServiceMap counts as headless, and is    *)
(* valid; otherwise the mapped service must have an endpoints object      *)
(* with at least one subset.                                             *)
HasEndpoints(s) == epStore[s] # None /\ DOMAIN epStore[s] # {}

RecordValid(h) ==
    \/ h \notin ClusterIPs
    \/ cip[h] = None
    \/ HasEndpoints(cip[h])

AnyValid(hosts) == \E h \in hosts : RecordValid(h)

(* Mutation: the label check of the loop dropped, the first node taken. *)
FirstLabeledAny(ns) ==
    CHOOSE n \in ns : \A m \in ns : NodeRank[n] <= NodeRank[m]

(* the first node of the API list that has both labels *)
FirstLabeled(ns) ==
    CHOOSE n \in ns : /\ NodeLoc[n] # None
                      /\ \A m \in ns : NodeLoc[m] # None => NodeRank[n] <= NodeRank[m]

-----------------------------------------------------------------------------
RInit ==
    /\ Init
    /\ config = None /\ cfgPc = "Start" /\ pushes = 0
    /\ apiNodes \in SUBSET Nodes /\ nodeStore = {} /\ nodeChanges = 0
    /\ qPc = [r \in Resolvers |-> "Idle"]
    /\ qRecs = [r \in Resolvers |-> {}]
    /\ qZone = [r \in Resolvers |-> None]
    /\ qAns = [r \in Resolvers |-> "None"]
    /\ qLinValid = [r \in Resolvers |-> FALSE]
    /\ zonesUsed = {}

(* Mutation: the nameservers are validated, and an invalid update      *)
(* dropped, whether or not a SkyDNS config is set.                      *)
UpdateConfigAlwaysValidate(c) ==
    IF ~c.nsOK THEN UNCHANGED config ELSE config' = c

(* updateConfig: with a SkyDNS config, an update with an invalid        *)
(* nameserver returns before kd.config is assigned.                     *)
UpdateConfig(c) ==
    IF SkyDNSSet /\ ~c.nsOK THEN UNCHANGED config ELSE config' = c

(* startConfigMapSync: configSync.Once() fails (defaults installed) or  *)
(* returns the initial config for updateConfig.                         *)
StartConfigSync ==
    /\ cfgPc = "Start"
    /\ \/ config' = DefaultConfig
       \/ \E c \in Configs : UpdateConfig(c)
    /\ cfgPc' = "Run"
    /\ UNCHANGED <<pushes, apiNodes, nodeStore, nodeChanges, qPc, qRecs, qZone,
                   qAns, qLinValid, zonesUsed, vars>>

(* syncConfigMap: the next config from the channel, then updateConfig *)
PushConfig(c) ==
    /\ cfgPc = "Run" /\ pushes < MaxConfigs
    /\ UpdateConfig(c)
    /\ pushes' = pushes + 1
    /\ UNCHANGED <<cfgPc, apiNodes, nodeStore, nodeChanges, qPc, qRecs, qZone,
                   qAns, qLinValid, zonesUsed, vars>>

(* the cluster's nodes change *)
NodeChange(n) ==
    /\ nodeChanges < MaxNodeChanges
    /\ apiNodes' = IF n \in apiNodes THEN apiNodes \ {n} ELSE apiNodes \cup {n}
    /\ nodeChanges' = nodeChanges + 1
    /\ UNCHANGED <<config, cfgPc, pushes, nodeStore, qPc, qRecs, qZone, qAns,
                   qLinValid, zonesUsed, vars>>

(* a resolver takes the next federated query; the DNS server serves     *)
(* after Start, so after startConfigMapSync                             *)
QStart(r) ==
    /\ qPc[r] = "Idle" /\ cfgPc = "Run"
    /\ qPc' = [qPc EXCEPT ![r] = "Classify"]
    /\ qAns' = [qAns EXCEPT ![r] = "None"]
    /\ UNCHANGED <<config, cfgPc, pushes, apiNodes, nodeStore, nodeChanges,
                   qRecs, qZone, qLinValid, zonesUsed, vars>>

(* Records -> isFederationQuery: kd.config.Federations[path[2]] under   *)
(* configLock; a nil kd.config is a nil dereference that ends the        *)
(* process.  A name that is not federated is an ordinary lookup.        *)
QClassify(r) ==
    /\ qPc[r] = "Classify"
    /\ qPc' = [qPc EXCEPT ![r] = IF config = None THEN "Panic"
                                 ELSE IF config.fed = None THEN "Idle"
                                 ELSE "Lookup"]
    /\ qAns' = IF config # None /\ config.fed = None
               THEN [qAns EXCEPT ![r] = "NotFederated"] ELSE qAns
    /\ UNCHANGED <<config, cfgPc, pushes, apiNodes, nodeStore, nodeChanges,
                   qRecs, qZone, qLinValid, zonesUsed, vars>>

(* getRecordsForPath(path, false) on the local path, under cacheLock;   *)
(* the history variable notes whether a record was valid right then.    *)
QLookup(r) ==
    /\ qPc[r] = "Lookup"
    /\ qRecs' = [qRecs EXCEPT ![r] = LookupHosts(QSvc)]
    /\ qLinValid' = [qLinValid EXCEPT ![r] = AnyValid(LookupHosts(QSvc))]
    /\ qPc' = [qPc EXCEPT ![r] = "Check"]
    /\ UNCHANGED <<config, cfgPc, pushes, apiNodes, nodeStore, nodeChanges,
                   qZone, qAns, zonesUsed, vars>>

(* recordsForFederation: the validity loop under a new cacheLock hold;  *)
(* a valid record answers the local CNAME, otherwise (the query is not  *)
(* exact) federationRecords.                                             *)
QCheck(r) ==
    /\ qPc[r] = "Check"
    /\ qLinValid' = [qLinValid EXCEPT ![r] =
                       @ \/ (LookupHosts(QSvc) = qRecs[r] /\ AnyValid(qRecs[r]))]
    /\ IF AnyValid(qRecs[r])
       THEN /\ qPc' = [qPc EXCEPT ![r] = "Idle"]
            /\ qAns' = [qAns EXCEPT ![r] = "Local"]
       ELSE /\ qPc' = [qPc EXCEPT ![r] = "Classify2"]
            /\ UNCHANGED qAns
    /\ UNCHANGED <<config, cfgPc, pushes, apiNodes, nodeStore, nodeChanges,
                   qRecs, qZone, zonesUsed, vars>>

(* federationRecords: isFederationQuery again, under a new configLock   *)
(* hold                                                                  *)
QClassify2(r) ==
    /\ qPc[r] = "Classify2"
    /\ qPc' = [qPc EXCEPT ![r] = IF config.fed = None THEN "Idle" ELSE "Zone"]
    /\ qAns' = IF config.fed = None THEN [qAns EXCEPT ![r] = "NotFound"] ELSE qAns
    /\ UNCHANGED <<config, cfgPc, pushes, apiNodes, nodeStore, nodeChanges,
                   qRecs, qZone, qLinValid, zonesUsed, vars>>

(* Mutation: the cache test is len(objs) > 1, so a single cached node is  *)
(* passed over and the API's nodes are listed again.                     *)
QZoneOffByOne(r) ==
    /\ qPc[r] = "Zone"
    /\ IF Cardinality(nodeStore) > 1
       THEN /\ \E n \in nodeStore : qZone' = [qZone EXCEPT ![r] = NodeLoc[n]]
            /\ qPc' = [qPc EXCEPT ![r] = "Domain"]
       ELSE /\ qPc' = [qPc EXCEPT ![r] = "ZoneList"]
            /\ UNCHANGED qZone
    /\ UNCHANGED <<config, cfgPc, pushes, apiNodes, nodeStore, nodeChanges,
                   qRecs, qAns, qLinValid, zonesUsed, vars>>

(* getClusterZoneAndRegion: nodesStore.List(); a cached node is objs[0], *)
(* whichever the store's map yields first; an empty store goes on to the *)
(* API list.                                                              *)
QZone(r) ==
    /\ qPc[r] = "Zone"
    /\ IF nodeStore # {}
       THEN /\ \E n \in nodeStore : qZone' = [qZone EXCEPT ![r] = NodeLoc[n]]
            /\ qPc' = [qPc EXCEPT ![r] = "Domain"]
       ELSE /\ qPc' = [qPc EXCEPT ![r] = "ZoneList"]
            /\ UNCHANGED qZone
    /\ UNCHANGED <<config, cfgPc, pushes, apiNodes, nodeStore, nodeChanges,
                   qRecs, qAns, qLinValid, zonesUsed, vars>>

(* Mutation: the node from the API list is not added to nodesStore. *)
QZoneListNoCache(r) ==
    /\ qPc[r] = "ZoneList"
    /\ \/ /\ \E n \in apiNodes : NodeLoc[n] # None
          /\ qZone' = [qZone EXCEPT ![r] = NodeLoc[FirstLabeled(apiNodes)]]
          /\ qPc' = [qPc EXCEPT ![r] = "Domain"]
          /\ UNCHANGED <<qAns, nodeStore>>
       \/ /\ qPc' = [qPc EXCEPT ![r] = "Idle"]
          /\ qAns' = [qAns EXCEPT ![r] = "Error"]
          /\ UNCHANGED <<nodeStore, qZone>>
    /\ UNCHANGED <<config, cfgPc, pushes, apiNodes, nodeChanges,
                   qRecs, qLinValid, zonesUsed, vars>>

(* getClusterZoneAndRegion, the cold cache: Nodes().List(), the first    *)
(* node with both labels is added to nodesStore; a failed call, an empty *)
(* list or no labelled node is an error.                                 *)
QZoneList(r) ==
    /\ qPc[r] = "ZoneList"
    /\ \/ /\ \E n \in apiNodes : NodeLoc[n] # None
          /\ LET n == FirstLabeled(apiNodes) IN
             /\ nodeStore' = nodeStore \cup {n}
             /\ qZone' = [qZone EXCEPT ![r] = NodeLoc[n]]
          /\ qPc' = [qPc EXCEPT ![r] = "Domain"]
          /\ UNCHANGED qAns
       \/ /\ qPc' = [qPc EXCEPT ![r] = "Idle"]
          /\ qAns' = [qAns EXCEPT ![r] = "Error"]
          /\ UNCHANGED <<nodeStore, qZone>>
    /\ UNCHANGED <<config, cfgPc, pushes, apiNodes, nodeChanges,
                   qRecs, qLinValid, zonesUsed, vars>>

(* federationRecords: domain := kd.config.Federations[path[2]] under a  *)
(* third configLock hold; a federation gone since is "", which fails    *)
(* IsDNS1123Subdomain.  Otherwise the redirect CNAME names the zone.    *)
QDomain(r) ==
    /\ qPc[r] = "Domain"
    /\ qPc' = [qPc EXCEPT ![r] = "Idle"]
    /\ IF config.fed = None
       THEN /\ qAns' = [qAns EXCEPT ![r] = "Error"]
            /\ UNCHANGED zonesUsed
       ELSE /\ qAns' = [qAns EXCEPT ![r] = "Redirect"]
            /\ zonesUsed' = zonesUsed \cup {qZone[r]}
    /\ UNCHANGED <<config, cfgPc, pushes, apiNodes, nodeStore, nodeChanges,
                   qRecs, qZone, qLinValid, vars>>

Resolver(r) ==
    \/ QStart(r) \/ QClassify(r) \/ QLookup(r) \/ QCheck(r)
    \/ QClassify2(r) \/ QZone(r) \/ QZoneList(r) \/ QDomain(r)

(* the record engine steps; the resolver's state is untouched *)
EngineStep == Next /\ UNCHANGED resolverVars

RNext ==
    \/ EngineStep
    \/ StartConfigSync
    \/ \E c \in Configs : PushConfig(c)
    \/ \E n \in Nodes : NodeChange(n)
    \/ \E r \in Resolvers : Resolver(r)

RSpec == RInit /\ [][RNext]_allVars

-----------------------------------------------------------------------------
RTypeOK ==
    /\ config \in Configs \cup {None}
    /\ cfgPc \in {"Start", "Run"}
    /\ pushes \in 0..MaxConfigs
    /\ apiNodes \subseteq Nodes /\ nodeStore \subseteq Nodes
    /\ nodeChanges \in 0..MaxNodeChanges
    /\ qPc \in [Resolvers -> {"Idle", "Classify", "Lookup", "Check", "Classify2",
                              "Zone", "ZoneList", "Domain", "Panic"}]
    /\ qRecs \in [Resolvers -> SUBSET (IPs \cup ExternalNames)]
    /\ qZone \in [Resolvers -> Locs \cup {None}]
    /\ qAns \in [Resolvers -> Answers]
    /\ qLinValid \in [Resolvers -> BOOLEAN]
    /\ zonesUsed \subseteq Locs

(* Spec 4.5c and its note on node reselection: the node the zone and     *)
(* region come from is chosen once and kept, so every federation         *)
(* redirect getClusterZoneAndRegion feeds names the same zone.  Broken   *)
(* when two queries list the API's nodes on a cold nodesStore while the  *)
(* node list changes: both nodes are added, and objs[0] of the store's   *)
(* List() is then either.                                                *)
RedirectZoneStable == Cardinality(zonesUsed) <= 1

(* Spec 4.5c and its note on node reselection, as far as the code keeps *)
(* it with concurrent queries.  getClusterZoneAndRegion answers from the *)
(* node cache: every zone a federation redirect names is the zone of a    *)
(* node in nodesStore.  A node is added only by a query that found the    *)
(* store empty, so the cache holds at most one node per query goroutine.  *)
RedirectZonesCached ==
    /\ zonesUsed \subseteq {NodeLoc[n] : n \in nodeStore}
    /\ Cardinality(nodeStore) <= Cardinality(Resolvers)

(* Spec 4.5c on the node cache: the node getClusterZoneAndRegion lists is *)
(* stored "so subsequent calls hit in-memory state".  Once nodesStore     *)
(* holds a node it is never emptied or replaced, and no query starts to   *)
(* list the API's nodes: only listings begun on a cold cache still add.   *)
NodeCacheKept ==
    [][nodeStore # {} =>
         /\ nodeStore \subseteq nodeStore'
         /\ \A r \in Resolvers : qPc'[r] = "ZoneList" => qPc[r] = "ZoneList"]_allVars

(* Spec 4.5a and the reader atomicity of section 5: recordsForFederation *)
(* answers the local CNAME only if there is one state of the query in    *)
(* which the local lookup returns the records it returned and one of     *)
(* them is valid (headless, or its service has endpoints).  The code     *)
(* checks validity under a second cacheLock hold: a service removed in   *)
(* between leaves its cluster IP out of clusterIPServiceMap, and the     *)
(* stale record then passes as headless.                                 *)
LocalAnswerLinearizable ==
    \A r \in Resolvers : qAns[r] = "Local" => qLinValid[r]

(* Spec 4.7 and the initialization gate of section 5: once               *)
(* startConfigMapSync has returned a config snapshot is installed, so    *)
(* isFederationQuery never dereferences a nil kd.config.  updateConfig   *)
(* returns before assigning kd.config when the initial config has an     *)
(* invalid upstream nameserver and a SkyDNS config is set.               *)
NoNilConfigRead == \A r \in Resolvers : qPc[r] # "Panic"

=============================================================================

# Verification of the kube-dns record engine

TLA+ models of `src/pkg/dns/dns.go` (with `src/pkg/dns/util/util.go`), the TLC runs
that check them on small instances, and TLAPS proofs of the main invariants for
every value of the constants.

## The system

kube-dns turns the Kubernetes API objects into DNS records. It has these parts.

| Part | Code | State | Operations |
|---|---|---|---|
| Services informer | `setServicesStore`, `newService`, `removeService`, `updateService`, `newPortalService`, `newHeadlessService`, `newExternalNameService` | `servicesStore` | add / update / delete / resync of a Service |
| Endpoints informer | `setEndpointsStore`, `handleEndpointAdd/Update/Delete`, `addDNSUsingEndpoints`, `generateRecordsForHeadlessService` | `endpointsStore` | add / update / delete / resync of an Endpoints object |
| Record state | guarded by `cacheLock` | `cache` (tree cache), `reverseRecordMap`, `clusterIPServiceMap` | written by both informers |
| Resolver | `Records`, `getRecordsForPath`, `ReverseRecord`, `isPodRecord`, ... | none (reads under `RLock`) | queries |
| Federation | `isFederationQuery`, `recordsForFederation`, `federationRecords` | config | query rewriting |
| Zone/region | `getClusterZoneAndRegion` | `nodesStore` | a lookup |
| Config | `updateConfig`, `startConfigMapSync`, `syncConfigMap` | `config` under `configLock` | config swaps |
| util | `ExtractIP`, `GetSkyMsg`, `HashServiceRecord`, `ValidateNameserverIpAndPort`, `IsServiceIPSet`, `GetClusterIPs` | none | pure functions |

**How the parts interact.**
- Each client-go informer applies a change to its store and then calls its handler on the same goroutine. So the events of one kind are handled one at a time, and the two kinds run concurrently.
- The handlers read the *other* informer's store without a lock, then write the cache and the maps under `cacheLock`. Examples: `newHeadlessService` reads `endpointsStore`, and `getServiceFromEndpoints` reads `servicesStore`.
- Every `resyncPeriod` each informer re-delivers every stored object as an update from itself to itself.
- A relist can deliver a delete as a `DeletedFinalStateUnknown` tombstone.

**What is hard about it.**
- A read of the other store can be stale by the time the write under the lock happens.
- Some handlers write in two separate lock regions: `updateService` on a type flip, and `handleEndpointUpdate`.
- Tombstones reach the handlers.
- The reverse map is flat and shared between services.
- Records left stale by a write are repaired only by the periodic resync.

## Modules

- **`KubeDNS.tla`**: the record engine, that is, both informers and the record state.
  - **Variables:**
    - `svcStore` and `epStore` are the two stores;
    - `child` is the service's child node of the namespace node, installed by `SetSubCache`; it is a map from leaf key to host;
    - `entry` is the CNAME leaf that `newExternalNameService` stores under the service name;
    - `rev` is `reverseRecordMap` and `cip` is `clusterIPServiceMap`;
    - each informer goroutine has a program counter and its locals (`sPc`, `sKey`, `sOld`, `sNew`, `sEp`; `ePc`, `eKey`, `eOld`, `eNew`, `eDrop`).
  - **Actions:**
    - each API change is an action (`SvcAdd`, `SvcUpdate`, `SvcDelete`, `SvcDeleteTombstone`, `SvcResync` and their `Ep*` counterparts);
    - each region of a handler between a read of the other store and a `cacheLock` region is an action of its own: `SvcRemove`, `SvcNewExternalName`, `SvcNewPortal`, `SvcNewHeadless` then `SvcHeadlessWrite`, `EpUpdRead` then `EpUpdDelete`, `EpAddRead` then `EpAddWrite`, `EpDelRead` then `EpDelWrite`.
  - **Abstracted data:**
    - a Service is its type, its set of cluster IPs and its external name;
    - an Endpoints object is a map from address IP to hostname or `None`;
    - SRV records are built in the same loops and installed by the same `SetSubCache` as the A records, so they are left out;
    - a hash-keyed leaf is keyed by the IP it hashes.
  - **Tree cache:** it is not under `src/`. `DeletePath` is modelled from the spec (it removes the child node if there is one, otherwise the leaf).
  - **The exact correspondence:** `PROJECT.json` ("map") gives the source lines of every definition.
- **`ReverseIndex.tla`**: the abstract contract of spec §4.2 and §5 for cluster IPs.
  - `ptr` (the PTR target of a cluster IP) and `svcOf` (its service) change only together.
  - A step either installs one service on a set of IPs (`Put`) or clears a set (`Delete`).
  - `KubeDNS` maps onto it by `ptr <- rev` restricted to cluster IPs and `svcOf <- cip`.
- **`KubeDNSNames.tla`**: the pure name handling of the resolver, with no state that changes.
  - A name is its sequence of labels. Label validity (IsDNS1035Label, IsDNS1123Label) is given by constant sets of labels that pass.
  - `TrimRightDots`, `Segments`, `Federated`, `LocalSegments` and `QueryPath` are the first lines of `Records`.
  - `IsFederationQuery` is `isFederationQuery`.
  - `LocalName` and `RedirectName` are the CNAMEs of `recordsForFederation` and `federationRecords`.
  - `ExtractIP` and `ReverseArray` are the util functions; the swap loop is a recursive function (a `LET` function, not a RECURSIVE operator, so that TLAPS can reason about it).
  - `EmptyLabel` is the empty label `""` that a trailing dot gives. The reference operators the properties use (`RevSeq`, `SeqsUpTo`) are written out over `Sequences` rather than taken from `SequencesExt`, which declares RECURSIVE operators and would shut TLAPS's SMT backend out of the proofs.
- **`KubeDNSResolver.tla`**: `KubeDNS` composed with the resolver, the config sync and the node cache.
  - **Variables:**
    - `config` (`nil` is `None`): a config is the parent domain of the queried federation (`None` when it is not configured) and whether its nameservers validate;
    - `apiNodes` and `nodeStore`: the API's node list and `nodesStore`;
    - per resolver goroutine: `qPc`, `qRecs`, `qZone`, `qAns`.
  - **History variables:**
    - `qLinValid`: whether, in the state of the lookup or of the check, the lookup returned the same records and one was valid;
    - `zonesUsed`: the zones of all redirects.
  - **Actions:**
    - `StartConfigSync` is `startConfigMapSync` and `PushConfig` is `syncConfigMap`, both through `UpdateConfig`.
    - `NodeChange` is a node joining or leaving.
    - A federated query is one step per lock region or store read:
      - `QClassify`: `isFederationQuery`'s configLock read;
      - `QLookup`: `getRecordsForPath`;
      - `QCheck`: `recordsForFederation`'s second cacheLock hold;
      - `QClassify2`: `federationRecords`'s `isFederationQuery`;
      - `QZone` then `QZoneList`: `getClusterZoneAndRegion`, first `nodesStore.List()`, then the API list and `Add`;
      - `QDomain`: the read of `config.Federations`.
    - The engine's steps are `EngineStep`.
  - **Spec-modelled:** the tree cache's `GetValuesForPathWithWildcards` is not under `src/`. `LookupHosts` models it from spec §4.1: the leaf of that name plus every leaf below the service's node.
- **`MCKubeDNS.tla`, `MCKubeDNSNames.tla`, `MCKubeDNSResolver.tla`**: model values and small sets for TLC.
- **`KubeDNSProofs.tla`**, **`KubeDNSResolverProofs.tla`**, **`KubeDNSNamesProofs.tla`**: the TLAPS proofs of each component.
- **`KubeDNSLemmas.tla`**: facts the proofs share. `NatLeast` says a non-empty set of naturals has a least element (from `WellFoundedInduction`'s `WFMin`); `HalfBounds` covers `len/2`; `ExceptSwap` is the two-slot swap.

## Runs

The `MCKubeDNS` runs use `MaxEvents = 4` API changes. Resyncs are unbounded, since they do not count towards `MaxEvents`. The sets are:
- 1 or 2 services;
- two cluster IPs and two pod IPs;
- one hostname, so two addresses can share a hostname;
- one external name.

Four changes are enough for each of these to happen:
- add, then an update that flips the type, then a delete;
- a change to the endpoints racing a change to the service.

`CHECK_DEADLOCK FALSE` is set because the informers may wait for events forever.

| Run | Checks | Result | What it shows |
|---|---|---|---|
| `safety` (2 services, tombstones on) | `TypeOK`, `RevCipConsistent` | pass, about 1.1M states | in every interleaving, a cluster IP has a PTR record exactly when `clusterIPServiceMap` maps it, and the PTR names that service |
| `live` (1 service, `FairSpec`) | `Completeness` | pass | once the API stops changing, resync repairs every stale write and the cache ends up serving every record the stores call for |
| `orphan_race` | `NoRecordsForDeletedService` | violation | `addDNSUsingEndpoints` reads the service; `removeService` deletes the subtree; `generateRecordsForHeadlessService` then installs it again for a service that no longer exists, and nothing removes it |
| `orphan_tombstone` | `NoRecordsForDeletedService` | violation | `assertIsService` drops a tombstone delete, so the records stay forever |
| `ptr_leak` | `NoPodPtrForDeletedService` | violation | when a headless service is deleted before its endpoints, `handleEndpointDelete` no longer finds it, and the pod PTR records stay |
| `stale_cip` | `ClusterIPMapCurrent` | violation | `newPortalService` never deletes map entries for cluster IPs the service lost; spec §4.4 says it does |
| `stale_headless` | `HeadlessRecordsFollowEndpoints` | violation | `handleEndpointDelete` leaves the A records of a headless service whose endpoints are gone; a ClusterIP service turned headless (via a relist) without endpoints keeps its portal records |

The `safety` run also checks `ReverseIndexRefined`, that is `RI!Spec` for `RI == INSTANCE ReverseIndex WITH ...`. Every step of the two informers is a `Put`, a `Delete` or a stutter of the contract.

**Names run** (`MCKubeDNSNames.cfg`, pass, about 20 s). Every query of up to five labels over `{"", mysvc, 9ns, myfed, svc, local, *}`, exact or not, is checked. The domain is `local`, with one federation, `myfed -> example.com`. The label sets make each check of `isFederationQuery` fail on its own (`9ns` is an RFC 1123 label but not an RFC 1035 label; `*` and `""` are neither). A longer domain path makes the run take more than ten minutes and adds no new case of the index arithmetic.
- `FederationGrammar`: `Records` treats a query as federated exactly when the grammar of spec §4.6 (written independently, with `SubSeq`/`RevSeq`) holds.
- `FederationNames`: the lookup path, the local CNAME and the redirect CNAME are the names of spec §4.5a/§4.5b.
- `ReverseRoundTrip`: `ExtractIP` of `d.c.b.a.in-addr.arpa.` is `a.b.c.d` for every four octets, and a name without the suffix is refused. This property thus exercises `ReverseArray` on four-element arrays only; `ReverseArrayIsRevSeq` below proves it for every length. The one-label `DomainPath` of this run does not exercise the order of the reversed domain path either; `FederationGrammarHolds` proves it for every domain path.

**Resolver runs** (`MCKubeDNSResolver*.cfg`). The instance is:
- one service;
- `MaxEvents = 2` for `federation_torn` (enough for add-then-delete or add-then-flip against a query), 1 for `resolver` (one engine event against two queries), 0 for `zone_flap` and `nil_config`, whose races do not involve the engine;
- one config push and one node change;
- three nodes: `n1` without labels, `n2` in zone `l1` and `n3` in zone `l2`, in that API order.

| Run | Checks | Result | What it shows |
|---|---|---|---|
| `resolver` (2 resolvers, symmetric, `SkyDNSSet = FALSE`) | `RTypeOK`, `RedirectZonesCached`, `NodeCacheKept`, `NoNilConfigRead` | pass, about 1.7M states in 100 s | with concurrent queries, including the cold-cache race of `zone_flap`: every redirect names the zone of a cached node; the cache holds at most one node per query goroutine; once filled, it is never replaced and no query goes back to list the API's nodes. This holds through config pushes, node changes and an engine event. Without a SkyDNS config no query meets a nil `kd.config`. The two resolvers are interchangeable under every property, so `MCResolverSymmetry` permutes them |
| `zone_flap` (2 resolvers) | `RedirectZoneStable` | violation | both queries find `nodesStore` empty and list the nodes; a node joins in between, the two queries add different nodes, and the redirects name two zones |
| `federation_torn` | `LocalAnswerLinearizable` | violation | a ClusterIP service without endpoints is read by `getRecordsForPath`; `removeService` runs (a type flip or a delete); the check under the second cacheLock hold no longer finds the IP in `clusterIPServiceMap`, takes it for headless and answers the local CNAME |
| `nil_config` (`SkyDNSSet = TRUE`) | `NoNilConfigRead` | violation | an initial config with an invalid nameserver makes `updateConfig` return before `kd.config` is set; the first federated-form query dereferences `nil` |

`nil_config` assumes that the server sets `kd.SkyDNSConfig` before `Start`, which is done outside `src/`. Queries are modelled as starting only after `startConfigMapSync`, that is after `Start`.

**Mutants.** Each property of a passing run is broken by a plausible bug in the code (see "mutants" in `PROJECT.json`):
- PTR records for addresses without a hostname break `TypeOK`;
- `removeService` forgetting `delete(reverseRecordMap, ip)` breaks `RevCipConsistent`;
- `newPortalService` setting `clusterIPServiceMap` for only one IP breaks `ReverseIndexRefined`;
- the domain loop of `isFederationQuery` indexing as Go's 0-based `path[len-i-1]` breaks `FederationGrammar`;
- `Records` keeping the federation label breaks `FederationNames`;
- `ReverseArray` stopping one swap early breaks `ReverseRoundTrip`;
- `getClusterZoneAndRegion` taking the first node without checking its labels breaks `RTypeOK`;
- the listed node not being added to `nodesStore` breaks `RedirectZonesCached`;
- `getClusterZoneAndRegion` testing `len(objs) > 1` instead of `> 0`, so a single cached node is passed over, breaks `NodeCacheKept`;
- `updateConfig` validating nameservers, and dropping an invalid update, without a SkyDNS config breaks `NoNilConfigRead`;
- an `updateService` that skips unchanged updates, which kills the resync repair, breaks `Completeness`.

**Fairness.** `FairSpec` assumes the following:
- weak fairness of each informer's handler steps: a goroutine inside a handler keeps running;
- weak fairness of the resync of each stored object: client-go's resync timer fires every `resyncPeriod` while the object is stored.

Nothing else is assumed fair, since API changes may stop.

## Proofs (`KubeDNSProofs.tla`, checked by `tlapm`)

- `TypeCorrect: Spec => []TypeOK`. It uses the lemmas `EndpointsObjectFacts`, `HeadlessLeavesType` and `PortalLeavesType`, which show that the subtrees the handlers build are leaf maps and that the PTR targets are well formed. `NextTypeOK` has one step per action.
- `RevCipConsistentInv: Spec => []RevCipConsistent`.
  - **The inductive invariant:** `IInv == TypeOK /\ RevCipConsistent`. `RevCipConsistent` alone is not inductive: the endpoints handlers write `rev` at the named addresses of an endpoints object or at `eDrop`, and only the type invariant says that these are pod IPs.
  - **The argument:**
    - `removeService` clears both maps for the same IPs in one lock region;
    - `newPortalService` sets both maps for the same IPs in one lock region;
    - every other step changes neither map on a cluster IP.
  - **The assumptions:** `ConstantsAssumption` says that cluster IPs, pod IPs and hostnames are disjoint, and that `None` is not an object, IP, name or PTR target.

- `ReverseIndexRefinement: Spec => ReverseIndexRefined`.
  - `InitRI`: the initial state maps to the contract's initial state.
  - `NextRI`: under `TypeOK` in both states, every step maps to a contract step or a stutter. It has one case per action:
    - `SvcRemove` maps to `Delete` of the service's IPs;
    - `SvcNewPortal` maps to `Put` of the new service on its IPs;
    - every other action leaves `rev` on cluster IPs and `cip` unchanged.
  - The temporal step combines these with `TypeCorrect`.

## Proofs (`KubeDNSResolverProofs.tla`)

- `ZonesCachedHold: RSpec => []RedirectZonesCached`, for any finite number of concurrent query goroutines. `ResolverAssumption` gives the finiteness of `Resolvers`, the goroutines serving queries at once.
  - **The inductive invariant `CInv`:**
    - `nodeStore` is finite;
    - `zonesUsed` is inside the zones of `nodeStore`;
    - a resolver at `"Domain"` holds a zone of `nodeStore`;
    - once `nodeStore` is not empty, `Cardinality(nodeStore) + Cardinality(Listing) <= Cardinality(Resolvers)`, where `Listing` is the set of resolvers at `"ZoneList"`. These are the queries that found the store empty and are listing the API's nodes.
  - **Why the counting conjunct is needed:** a bound on `nodeStore` alone is not inductive, because queries already listing can still add nodes. The conjunct counts them. `QZone` sends a query to the listing only while the store is empty (dns.go:984). A `QZoneList` step adds at most one node (`FS_AddElement`) and takes its query out of `Listing` (`FS_RemoveElement`). The first node to arrive turns the empty-store case into the counting case, since `Listing` is a subset of `Resolvers` (`FS_Subset`).
  - With one query goroutine, `RedirectZonesCached` bounds the redirects to the zone of a single cached node, which is `RedirectZoneStable`. That consequence is not stated as a theorem of its own. With two goroutines, `zone_flap` shows the bound of two zones being reached.

- `NodeCacheKeptHolds: RSpec => NodeCacheKept`, the action property `[][nodeStore # {} => nodeStore \subseteq nodeStore' /\ no query enters "ZoneList"]_allVars`, for any number of query goroutines.
  - **The argument:** lemma `CacheKeptNext` shows that every `RNext` step from a `CInv` state is a `CacheKeptStep`:
    - every query step sets its own pc through an `EXCEPT`, to a value that is not `"ZoneList"` unless the store is empty (lemma `NoNewListing`);
    - no step removes a node.
  - PTL combines `[]CInv` with that step lemma.
- `ResolverTypeCorrect: RSpec => []RTypeOK`, for any number of query goroutines.
  - **The inductive invariant `RInv`:** the engine's `TypeOK`, `RTypeOK`, every node in `nodeStore` has both labels, and a resolver at `"Domain"` holds a labelled zone. `RTypeOK` alone is not inductive: `QZone` copies the zone of a cached node into `qZone`, and only the label conjunct says that zone is not `None`.
  - **The argument:** the node `QZoneList` caches is `FirstLabeled(apiNodes)`. Lemma `FirstLabeledIsLabelled` shows that it exists and has labels whenever some listed node does: the API list positions `NodeRank` are naturals, and `NatLeast` gives the least position of a labelled node.
- `NoNilConfigReadWithoutSkyDNS`: with `~SkyDNSSet`, `RSpec => []NoNilConfigRead`, for any number of query goroutines.
  - **The inductive invariant `NInv`:** once `cfgPc = "Run"`, `config` is a config; a resolver is not `"Idle"` only after `startConfigMapSync`; no resolver is at `"Panic"`.
  - **The argument:** without a SkyDNS config, `updateConfig` always assigns `kd.config`, and `startConfigMapSync` installs the defaults when the first fetch fails. The `resolver` run checks the property on its instance; the `nil_config` run shows that it fails with `SkyDNSSet = TRUE`.
  - **Its assumption:** `ResolverAssumption` says that `None` (nil) is not a config record.

## Proofs (`KubeDNSNamesProofs.tla`)

These are proved for every cluster domain `DomainPath \in Seq(STRING)` (`NamesAssumption`), every set of labels and every federation map.
- `FederationGrammarHolds: Spec => []FederationGrammar`. `DomainTailAgrees` shows that the domain loop of `isFederationQuery`, comparing `DomainPath[i+1]` with `path[len - i]`, is the equality of the query's tail with the reversed domain path.
- `ReverseRoundTripHolds: Spec => []ReverseRoundTrip`.
  - `ReverseArrayIsRevSeq` proves that `util.ReverseArray` reverses arrays of every length. TLAPS reads the loop, a recursive function, as the function `CHOOSE`n to satisfy its defining equation. `Stages` gives that equation a solution in closed form. `LoopUnique` shows that any two solutions agree, by least counterexample through `NatLeast`; this stands in for the induction theorems, whose operator parameter the provers cannot instantiate.
  - `ExtractSuffixed` and `ExtractReversed` then give `ExtractIP` of `d.c.b.a.in-addr.arpa.` as `a.b.c.d`.
- `FederationNamesHold`: under `FedDomainsValid`, `Spec => []FederationNames`.
  - **The hypothesis:** every federation's parent domain is non-empty. The model's `RedirectName` leaves out the `IsDNS1123Subdomain` check of `federationRecords` (dns.go:957). The code answers no CNAME for a domain that fails that check, and `""` always fails it. The theorem is therefore about every CNAME the code returns.
  - **The argument:** `TrimmedLabels` shows that the labels `strings.TrimRight` leaves end in a non-empty label, so `FQDN` appends exactly one empty label. `FederatedShape` gives the shape of a federated query. `FederatedLocal` shows that `append(segments[:2], segments[3:]...)` is the local name. The CNAMEs then follow through `ConcatPointwise`, `ReverseArrayIsRevSeq` and `RevSeqFacts`.
  - **The inductive invariant:** `QueriesAreNames`, that a query is a sequence of labels.

**Only model-checked.** These stay with TLC:
- `Completeness`, since liveness under fairness, and the `ENABLED` it rests on, are beyond TLAPS;
- `RedirectZoneStable` with more than one resolver, which is false (`zone_flap`); what the code keeps instead is `RedirectZonesCached`, which is proved;
- the properties of the violation runs, which are false of the code.

## Not modelled

- **Resolver branches that only read:** `ReverseRecord`, `isPodRecord`/`getPodIP`, and the exact and non-federated paths of `Records`. Each is a single `RLock` read. `ExtractIP`, the one conversion in them, is checked in `KubeDNSNames`.
- **Nameserver handling:** `SkyDNSConfig.Nameservers`, `loadDefaultNameserver` (it reads resolv.conf) and the parsing in `ValidateNameserverIpAndPort`. A nameserver list is abstracted to valid or not.
- **`GetSkyMsg` / `HashServiceRecord`:** FNV hashing of a JSON encoding. Leaves are keyed by the IP the hash stands for.
- **Startup I/O:** `waitForResourceSyncedOrDie`, `GetCacheAsJSON` and logging.
- **Later work:**
  - which answer a query racing a config push should get: when a push drops the federation between the second `isFederationQuery` and the domain read, `QDomain` answers the error the code gives, although the comment at dns.go:950 says the entry is known to exist; with two parent domains a query could mix the config it classified with and the one it reads the domain from;
  - `LocalAnswerLinearizable` would hold if the validity check shared the lookup's lock hold; a fixed model of that is not part of this project.

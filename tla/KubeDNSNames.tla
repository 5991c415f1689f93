---------------------------- MODULE KubeDNSNames ----------------------------
(***************************************************************************)
(* The pure name handling of the resolver: how Records turns a query name *)
(* into the path it looks up, how isFederationQuery classifies it, the    *)
(* CNAME names recordsForFederation and federationRecords build, and      *)
(* util.ExtractIP / util.ReverseArray.                                    *)
(*                                                                         *)
(* A name is the sequence of its dot-separated labels: strings.Split(x,   *)
(* ".") and strings.Join(l, ".") are inverse on labels without a dot, and *)
(* a trailing dot is a trailing empty label.  Label validity              *)
(* (validation.IsDNS1035Label / IsDNS1123Label, outside this repository) *)
(* is given by the sets of labels that pass.                              *)
(***************************************************************************)
EXTENDS Naturals, Sequences

CONSTANTS
    DomainPath,     \* kd.domainPath: the cluster domain, labels reversed
    Labels,         \* the labels queries are made of
    Labels1035,     \* labels that pass IsDNS1035Label
    Labels1123,     \* labels that pass IsDNS1123Label
    Feds,           \* config.Federations: federation label -> parent domain
    Zone, Region,   \* what getClusterZoneAndRegion returns
    Octets,         \* IPv4 octet labels for reverse names
    MaxLen          \* longest query name, in labels

(* kd.domainPath is a list of labels *)
ASSUME NamesAssumption == DomainPath \in Seq(STRING)

VARIABLES
    q,      \* the queried name
    exact   \* the exact flag of Records

vars == <<q, exact>>

(* The reference operators the properties are stated with, written out   *)
(* here (not taken from SequencesExt) so that the module can be reasoned *)
(* about with TLAPS: the sequence in reverse order, and the sequences of *)
(* at most n elements of S.                                              *)
RevSeq(s) == [i \in 1..Len(s) |-> s[Len(s) - i + 1]]

SeqsUpTo(S, n) == UNION {[1..k -> S] : k \in 0..n}

(* the empty label: what strings.Split gives for "" and after a trailing *)
(* dot                                                                  *)
EmptyLabel == ""

(* Mutation: the swap loop stops one pair early, i < (len(arr)-1)/2. *)
ReverseArrayShort(arr) ==
    LET n == Len(arr)
        swap(a, i) == [a EXCEPT ![i + 1] = a[n - i], ![n - i] = a[i + 1]]
        loop[i \in 0..((n - 1) \div 2)] ==
            IF i = 0 THEN arr ELSE swap(loop[i - 1], i - 1)
    IN  loop[(n - 1) \div 2]

(* util.ReverseArray: swap arr[i] and arr[len-i-1] for i < len/2 *)
ReverseArray(arr) ==
    LET n == Len(arr)
        swap(a, i) == [a EXCEPT ![i + 1] = a[n - i], ![n - i] = a[i + 1]]
        loop[i \in 0..(n \div 2)] ==
            IF i = 0 THEN arr ELSE swap(loop[i - 1], i - 1)
    IN  loop[n \div 2]

(* strings.TrimRight(name, "."): drop every trailing dot, that is every  *)
(* trailing empty label; splitting "" gives one empty label.             *)
TrimRightDots(l) ==
    IF \A i \in 1..Len(l) : l[i] = EmptyLabel
    THEN <<EmptyLabel>>
    ELSE SubSeq(l, 1, CHOOSE k \in 1..Len(l) :
                          l[k] # EmptyLabel /\ \A j \in (k + 1)..Len(l) : l[j] = EmptyLabel)

(* Mutation: the domain loop keeps Go's 0-based index path[len-i-1].    *)
IsFederationQueryOffByOne(path) ==
    /\ Len(path) = 4 + Len(DomainPath)
    /\ path[1] \in Labels1035
    /\ path[2] \in Labels1123
    /\ path[3] \in Labels1123
    /\ path[4] = "svc"
    /\ \A i \in 0..(Len(DomainPath) - 1) : DomainPath[i + 1] = path[Len(path) - i - 1]
    /\ path[3] \in DOMAIN Feds

(* isFederationQuery(path): the checks in the order the code makes them; *)
(* path is in name order (service first), domainPath is reversed.        *)
IsFederationQuery(path) ==
    /\ Len(path) = 4 + Len(DomainPath)
    /\ path[1] \in Labels1035
    /\ path[2] \in Labels1123
    /\ path[3] \in Labels1123
    /\ path[4] = "svc"
    /\ \A i \in 0..(Len(DomainPath) - 1) : DomainPath[i + 1] = path[Len(path) - i]
    /\ path[3] \in DOMAIN Feds

(* Records: the labels of the trimmed name, and whether it is federated *)
Segments(name) == TrimRightDots(name)

Federated(name, ex) == ~ex /\ IsFederationQuery(Segments(name))

(* Mutation: append(segments[:2], segments[2:]...), the federation     *)
(* label kept.                                                           *)
LocalSegmentsKeepFed(name, ex) ==
    LET s == Segments(name) IN
    IF Federated(name, ex) THEN SubSeq(s, 1, 2) \o SubSeq(s, 3, Len(s)) ELSE s

(* append(segments[:2], segments[3:]...): the federation label dropped *)
LocalSegments(name, ex) ==
    LET s == Segments(name) IN
    IF Federated(name, ex) THEN SubSeq(s, 1, 2) \o SubSeq(s, 4, Len(s)) ELSE s

(* path := util.ReverseArray(segments), what getRecordsForPath looks up *)
QueryPath(name, ex) == ReverseArray(LocalSegments(name, ex))

(* if !strings.HasSuffix(name, ".") { name = name + "." } *)
FQDN(l) == IF Len(l) >= 2 /\ l[Len(l)] = EmptyLabel THEN l ELSE l \o <<EmptyLabel>>

(* recordsForFederation: the CNAME of the local service *)
LocalName(name, ex) == FQDN(ReverseArray(QueryPath(name, ex)))

(* federationRecords(util.ReverseArray(federationSegments)): the domain *)
(* path stripped, zone and region appended, then the federation's       *)
(* parent domain.                                                        *)
RedirectName(fedSegments) ==
    LET path == ReverseArray(ReverseArray(fedSegments))
        p == SubSeq(path, 1, Len(path) - Len(DomainPath)) \o <<Zone, Region>>
    IN  FQDN(p \o <<Feds[p[3]]>>)

ArpaLabels == <<"in-addr", "arpa", EmptyLabel>>

(* util.ExtractIP: the name must end in ".in-addr.arpa."; the labels    *)
(* before it are reversed and joined.                                    *)
ExtractIP(l) ==
    IF Len(l) >= 4 /\ SubSeq(l, Len(l) - 2, Len(l)) = ArpaLabels
    THEN <<ReverseArray(SubSeq(l, 1, Len(l) - 3)), TRUE>>
    ELSE <<<<EmptyLabel>>, FALSE>>

-----------------------------------------------------------------------------
Init ==
    /\ q \in SeqsUpTo(Labels, MaxLen)
    /\ exact \in BOOLEAN

(* every query is a state of its own; nothing changes *)
Next == UNCHANGED vars

Spec == Init /\ [][Next]_vars

-----------------------------------------------------------------------------
(* The classification grammar of spec section 4.6, written from the spec. *)
ClassifyRef(path) ==
    /\ Len(path) = Len(DomainPath) + 4
    /\ path[1] \in Labels1035
    /\ {path[2], path[3]} \subseteq Labels1123
    /\ path[4] = "svc"
    /\ SubSeq(path, 5, Len(path)) = RevSeq(DomainPath)
    /\ path[3] \in DOMAIN Feds

(* P6 (federation grammar): Records treats a query as federated exactly *)
(* when it is not exact and its trimmed labels satisfy conditions 1-6 of *)
(* spec section 4.6, the domain tail read in name order.                 *)
FederationGrammar ==
    Federated(q, exact) <=> (~exact /\ ClassifyRef(Segments(q)))

(* Spec 4.5a and 4.5b on a federated query svc.ns.fed.svc.<domain>: the  *)
(* local CNAME recordsForFederation returns is svc.ns.svc.<domain>., the *)
(* redirect federationRecords returns is svc.ns.fed.svc.zone.region.     *)
(* <parent domain>.; and the path getRecordsForPath looks up is the      *)
(* local name reversed.                                                  *)
FederationNames ==
    Federated(q, exact) =>
        LET s == Segments(q) IN
        /\ QueryPath(q, exact) = RevSeq(<<s[1], s[2], "svc">> \o RevSeq(DomainPath))
        /\ LocalName(q, exact) = <<s[1], s[2], "svc">> \o RevSeq(DomainPath) \o <<EmptyLabel>>
        /\ RedirectName(s) = <<s[1], s[2], s[3], "svc", Zone, Region, Feds[s[3]], EmptyLabel>>

(* P1 (reverse round trip) and the suffix check of ExtractIP: a name     *)
(* d.c.b.a.in-addr.arpa. gives back a.b.c.d, and a name without the     *)
(* suffix is refused.                                                    *)
ReverseRoundTrip ==
    /\ \A ip \in [1..4 -> Octets] :
           ExtractIP(RevSeq(ip) \o ArpaLabels) = <<ip, TRUE>>
    /\ (Len(q) < 4 \/ SubSeq(q, Len(q) - 2, Len(q)) # ArpaLabels) => ~ExtractIP(q)[2]

=============================================================================

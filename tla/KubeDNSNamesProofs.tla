------------------------- MODULE KubeDNSNamesProofs -------------------------
(***************************************************************************)
(* Proofs that isFederationQuery implements the classification grammar of  *)
(* spec section 4.6 for every cluster domain, every federation map and     *)
(* every query: the loop over kd.domainPath, which is stored reversed and  *)
(* compared from the end of the query, checks exactly that the tail of    *)
(* the query is the domain in name order; util.ReverseArray reverses and  *)
(* util.ExtractIP inverts the in-addr.arpa name; and the local and        *)
(* redirect CNAMEs of a federated query are those of spec 4.5a and 4.5b.  *)
(***************************************************************************)
EXTENDS KubeDNSNames, KubeDNSLemmas, SequenceTheorems, TLAPS

USE NamesAssumption

-----------------------------------------------------------------------------
(* util.ReverseArray reverses: the loop of ReverseArray is the recursive *)
(* function loop, which TLAPS reads as the function CHOOSEn to satisfy    *)
(* its defining equation.  Stages gives that equation a solution in      *)
(* closed form (after i swaps the first and last i slots are reversed), *)
(* and two solutions agree at every iteration: the first iteration where *)
(* they differ would follow one where they agree.                        *)

(* one iteration of the loop of ReverseArray *)
SwapStep(arr, a, i) ==
    [a EXCEPT ![i + 1] = a[Len(arr) - i], ![Len(arr) - i] = a[i + 1]]

(* the defining equation of loop *)
LoopEq(arr, f) ==
    f = [i \in 0..(Len(arr) \div 2) |->
            IF i = 0 THEN arr ELSE SwapStep(arr, f[i - 1], i - 1)]

(* the array after i iterations, and the loop as a closed form *)
Stage(arr, i) ==
    [j \in 1..Len(arr) |-> IF j <= i \/ j > Len(arr) - i
                           THEN arr[Len(arr) - j + 1] ELSE arr[j]]

Stages(arr) == [i \in 0..(Len(arr) \div 2) |-> Stage(arr, i)]

LEMMA ReverseArrayLoop ==
    ASSUME NEW arr
    PROVE  ReverseArray(arr) = (CHOOSE f : LoopEq(arr, f))[Len(arr) \div 2]
BY DEF ReverseArray, LoopEq, SwapStep

(* The i-th iteration swaps slots i and len-i+1 of the (i-1)-th stage. *)
LEMMA StageStep ==
    ASSUME NEW S, NEW arr \in Seq(S), NEW i \in 1..(Len(arr) \div 2)
    PROVE  Stage(arr, i) = SwapStep(arr, Stage(arr, i - 1), i - 1)
<1> DEFINE n == Len(arr)
           a == Stage(arr, i - 1)
<1>1. n \in Nat /\ 2 * i <= n
    BY HalfBounds
<1>2. i \in 1..n /\ n - i + 1 \in 1..n /\ i # n - i + 1 /\ n - (i - 1) = n - i + 1
    BY <1>1
<1>3. a = [j \in 1..n |-> IF j <= i - 1 \/ j > n - (i - 1)
                          THEN arr[n - j + 1] ELSE arr[j]]
    BY DEF Stage
<1>4. SwapStep(arr, a, i - 1)
        = [j \in 1..n |-> IF j = n - i + 1 THEN a[i]
                         ELSE IF j = i THEN a[n - i + 1]
                         ELSE a[j]]
    <2>1. SwapStep(arr, a, i - 1) = [a EXCEPT ![i] = a[n - i + 1], ![n - i + 1] = a[i]]
        <3>1. SwapStep(arr, a, i - 1) =
                [a EXCEPT ![(i - 1) + 1] = a[n - (i - 1)], ![n - (i - 1)] = a[(i - 1) + 1]]
            BY DEF SwapStep
        <3>2. (i - 1) + 1 = i
            BY <1>1
        <3>3. QED
            BY <1>2, <3>1, <3>2, Zenon
    <2>2. a = [x \in 1..n |-> a[x]]
        BY <1>3
    <2>3. QED
        BY <1>1, <1>2, <2>1, <2>2, ExceptSwap
<1>5. Stage(arr, i) = [j \in 1..n |-> IF j <= i \/ j > n - i
                                     THEN arr[n - j + 1] ELSE arr[j]]
    BY DEF Stage
<1>6. a[i] = arr[i] /\ a[n - i + 1] = arr[n - i + 1]
    BY <1>1, <1>2, <1>3
<1>7. \A j \in 1..n : j # i /\ j # n - i + 1 =>
          a[j] = IF j <= i \/ j > n - i THEN arr[n - j + 1] ELSE arr[j]
    <2> TAKE j \in 1..n
    <2> HAVE j # i /\ j # n - i + 1
    <2>1. (j <= i - 1 \/ j > n - (i - 1)) <=> (j <= i \/ j > n - i)
        BY <1>1, <1>2
    <2>2. QED
        BY <1>3, <2>1
<1>8. n - (n - i + 1) + 1 = i
    BY <1>1
<1>9. \A j \in 1..n : Stage(arr, i)[j] = SwapStep(arr, a, i - 1)[j]
    <2> TAKE j \in 1..n
    <2>1. CASE j = i
        BY <1>2, <1>4, <1>5, <1>6, <2>1
    <2>2. CASE j = n - i + 1
        BY <1>2, <1>4, <1>5, <1>6, <1>8, <2>2
    <2>3. CASE j # i /\ j # n - i + 1
        BY <1>4, <1>5, <1>7, <2>3
    <2>4. QED
        BY <2>1, <2>2, <2>3
<1>10. QED
    BY <1>4, <1>5, <1>9

LEMMA StagesLoop ==
    ASSUME NEW S, NEW arr \in Seq(S)
    PROVE  LoopEq(arr, Stages(arr))
<1>1. Stage(arr, 0) = arr
    BY DEF Stage
<1>2. \A i \in 1..(Len(arr) \div 2) :
          Stage(arr, i) = SwapStep(arr, Stage(arr, i - 1), i - 1)
    BY StageStep
<1>3. QED
    BY <1>1, <1>2 DEF LoopEq, Stages

(* Two functions satisfying the equation of loop agree everywhere. *)
LEMMA LoopUnique ==
    ASSUME NEW arr, NEW f, NEW h, LoopEq(arr, f), LoopEq(arr, h)
    PROVE  \A i \in 0..(Len(arr) \div 2) : f[i] = h[i]
<1> DEFINE Bad == {i \in 0..(Len(arr) \div 2) : f[i] # h[i]}
<1> SUFFICES ASSUME Bad # {} PROVE FALSE
    OBVIOUS
<1>1. Bad \subseteq Nat
    OBVIOUS
<1>2. PICK m \in Bad : \A y \in Bad : m <= y
    BY <1>1, NatLeast
<1>3. f[0] = arr /\ h[0] = arr
    BY DEF LoopEq
<1>4. m # 0 /\ m - 1 \in 0..(Len(arr) \div 2) /\ m - 1 \notin Bad
    BY <1>2, <1>3
<1>5. f[m] = SwapStep(arr, f[m - 1], m - 1) /\ h[m] = SwapStep(arr, h[m - 1], m - 1)
    BY <1>4 DEF LoopEq
<1>6. QED
    BY <1>2, <1>4, <1>5

(* util.ReverseArray returns its argument in reverse order, for arrays  *)
(* of every length.                                                     *)
LEMMA ReverseArrayIsRevSeq ==
    ASSUME NEW S, NEW arr \in Seq(S)
    PROVE  ReverseArray(arr) = RevSeq(arr)
<1> DEFINE n == Len(arr)
           k == n \div 2
<1>1. LoopEq(arr, Stages(arr))
    BY StagesLoop
<1>2. LoopEq(arr, CHOOSE f : LoopEq(arr, f))
    BY <1>1
<1>3. ReverseArray(arr) = Stages(arr)[k]
    <2>1. n \in Nat /\ k \in 0..k
        BY HalfBounds
    <2>2. QED
        BY <1>1, <1>2, <2>1, LoopUnique, ReverseArrayLoop
<1>4. \A j \in 1..n : ~(j <= k \/ j > n - k) => n - j + 1 = j
    <2>1. n \in Nat
        OBVIOUS
    <2>2. QED
        BY <2>1, HalfBounds
<1>5. Stages(arr)[k] = Stage(arr, k)
    <2>1. k \in 0..k
        BY HalfBounds
    <2>2. QED
        BY <2>1 DEF Stages
<1>6. Stage(arr, k) = RevSeq(arr)
    BY <1>4 DEF Stage, RevSeq
<1>7. QED
    BY <1>3, <1>5, <1>6

LEMMA RevSeqFacts ==
    ASSUME NEW S, NEW s \in Seq(S)
    PROVE  /\ RevSeq(s) \in Seq(S)
           /\ Len(RevSeq(s)) = Len(s)
           /\ \A i \in 1..Len(s) : RevSeq(s)[i] = s[Len(s) - i + 1]
           /\ RevSeq(RevSeq(s)) = s
<1>1. RevSeq(s) \in Seq(S) /\ Len(RevSeq(s)) = Len(s)
    BY DEF RevSeq
<1>2. RevSeq(RevSeq(s)) = s
    BY <1>1 DEF RevSeq
<1>3. QED
    BY <1>1, <1>2 DEF RevSeq

-----------------------------------------------------------------------------

(* The domain loop of isFederationQuery, index by index, is the equality *)
(* of the query's tail with the reversed domain path.                    *)
LEMMA DomainTailAgrees ==
    ASSUME NEW t, Len(t) = 4 + Len(DomainPath)
    PROVE  (\A i \in 0..(Len(DomainPath) - 1) : DomainPath[i + 1] = t[Len(t) - i])
             <=> SubSeq(t, 5, Len(t)) = RevSeq(DomainPath)
<1> DEFINE n == Len(DomainPath)
           T == {t[k] : k \in 5..Len(t)}
           tail == SubSeq(t, 5, Len(t))
<1>1. n \in Nat /\ Len(t) \in Int
    OBVIOUS
<1>2. /\ tail \in Seq(T)
      /\ Len(tail) = n
      /\ \A j \in 1..n : tail[j] = t[j + 4]
    <2>1. \A k \in 5..Len(t) : t[k] \in T
        OBVIOUS
    <2>2. /\ tail \in Seq(T)
          /\ Len(tail) = IF 5 <= Len(t) THEN Len(t) - 5 + 1 ELSE 0
          /\ \A i \in 1..Len(t) - 5 + 1 : tail[i] = t[5 + i - 1]
        BY <1>1, <2>1, SubSeqProperties
    <2>3. QED
        BY <1>1, <2>2
<1>3. /\ RevSeq(DomainPath) \in Seq(STRING)
      /\ Len(RevSeq(DomainPath)) = n
      /\ \A j \in 1..n : RevSeq(DomainPath)[j] = DomainPath[n - j + 1]
    BY <1>1 DEF RevSeq
<1>4. ASSUME \A i \in 0..(n - 1) : DomainPath[i + 1] = t[Len(t) - i]
      PROVE  tail = RevSeq(DomainPath)
    <2>1. \A j \in 1..n : tail[j] = RevSeq(DomainPath)[j]
        <3> TAKE j \in 1..n
        <3>1. n - j \in 0..(n - 1) /\ Len(t) - (n - j) = j + 4
            BY <1>1
        <3>2. QED
            BY <1>2, <1>3, <1>4, <3>1
    <2>2. QED
        BY <1>2, <1>3, <2>1, SeqEqual, SeqMonotonic
<1>5. ASSUME tail = RevSeq(DomainPath)
      PROVE  \A i \in 0..(n - 1) : DomainPath[i + 1] = t[Len(t) - i]
    <2> TAKE i \in 0..(n - 1)
    <2>1. n - i \in 1..n /\ n - (n - i) + 1 = i + 1 /\ (n - i) + 4 = Len(t) - i
        BY <1>1
    <2>2. QED
        BY <1>2, <1>3, <1>5, <2>1
<1>6. QED
    BY <1>4, <1>5

(* Two sequences put together are the sequence that starts with the    *)
(* first and goes on with the second.                                  *)
LEMMA ConcatPointwise ==
    ASSUME NEW S, NEW x \in Seq(S), NEW y \in Seq(S), NEW z \in Seq(S),
           Len(z) = Len(x) + Len(y),
           \A i \in 1..Len(x) : z[i] = x[i],
           \A i \in 1..Len(y) : z[Len(x) + i] = y[i]
    PROVE  x \o y = z
<1>1. /\ x \o y \in Seq(S)
      /\ Len(x \o y) = Len(x) + Len(y)
      /\ \A i \in 1..Len(x) + Len(y) :
            (x \o y)[i] = IF i <= Len(x) THEN x[i] ELSE y[i - Len(x)]
    BY ConcatProperties
<1>2. \A i \in 1..Len(x) + Len(y) : (x \o y)[i] = z[i]
    <2> TAKE i \in 1..Len(x) + Len(y)
    <2>1. CASE i <= Len(x)
        BY <1>1, <2>1
    <2>2. CASE i > Len(x)
        <3>1. i - Len(x) \in 1..Len(y) /\ Len(x) + (i - Len(x)) = i
            BY <2>2
        <3>2. QED
            BY <1>1, <2>2, <3>1
    <2>3. QED
        BY <2>1, <2>2
<1>3. QED
    BY <1>1, <1>2, SeqEqual

(* strings.TrimRight(name, "."): the labels left are the name's labels  *)
(* up to its last non-empty one, so the last of several is not empty.   *)
LEMMA TrimmedLabels ==
    ASSUME NEW S, NEW l \in Seq(S)
    PROVE  /\ TrimRightDots(l) \in Seq(S \cup {EmptyLabel})
           /\ Len(TrimRightDots(l)) >= 1
           /\ Len(TrimRightDots(l)) >= 2 => TrimRightDots(l)[Len(TrimRightDots(l))] # EmptyLabel
<1>1. CASE \A i \in 1..Len(l) : l[i] = EmptyLabel
    <2>1. TrimRightDots(l) = <<EmptyLabel>>
        BY <1>1 DEF TrimRightDots
    <2>2. <<EmptyLabel>> \in Seq(S \cup {EmptyLabel}) /\ Len(<<EmptyLabel>>) = 1
        OBVIOUS
    <2>3. QED
        BY <2>1, <2>2
<1>2. CASE \E i \in 1..Len(l) : l[i] # EmptyLabel
    <2> DEFINE Last(k) == l[k] # EmptyLabel /\ \A j \in (k + 1)..Len(l) : l[j] = EmptyLabel
    <2>1. \E k \in 1..Len(l) : Last(k)
        <3> DEFINE NE == {k \in 1..Len(l) : l[k] # EmptyLabel}
                   R == {Len(l) - k : k \in NE}
        <3>1. R \subseteq Nat /\ R # {}
            BY <1>2
        <3>2. PICK r \in R : \A y \in R : r <= y
            BY <3>1, NatLeast
        <3>3. PICK k \in NE : Len(l) - k = r
            OBVIOUS
        <3>4. \A j \in (k + 1)..Len(l) : l[j] = EmptyLabel
            <4> SUFFICES ASSUME NEW j \in (k + 1)..Len(l), l[j] # EmptyLabel PROVE FALSE
                OBVIOUS
            <4>1. j \in NE /\ Len(l) - j < r
                BY <3>3
            <4>2. Len(l) - j \in R
                BY <4>1
            <4>3. r <= Len(l) - j
                BY <3>2, <4>2
            <4>4. QED
                BY <3>1, <4>1, <4>3
        <3>5. QED
            BY <3>3, <3>4
    <2>2. PICK c \in 1..Len(l) : c = CHOOSE k \in 1..Len(l) : Last(k)
        BY <2>1
    <2>3. Last(c)
        BY <2>1, <2>2
    <2>4. TrimRightDots(l) = SubSeq(l, 1, c)
        BY <1>2, <2>2 DEF TrimRightDots
    <2>5. /\ SubSeq(l, 1, c) \in Seq(S)
          /\ Len(SubSeq(l, 1, c)) = c
          /\ \A i \in 1..c : SubSeq(l, 1, c)[i] = l[1 + i - 1]
        <3>1. \A i \in 1..c : l[i] \in S
            BY ElementOfSeq
        <3>2. QED
            BY <3>1, SubSeqProperties
    <2>6. SubSeq(l, 1, c) \in Seq(S \cup {EmptyLabel})
        BY <2>5, SeqMonotonic
    <2>7. QED
        BY <2>3, <2>4, <2>5, <2>6
<1>3. QED
    BY <1>1, <1>2

(* The two halves of a concatenation are its subsequences. *)
LEMMA ConcatSplit ==
    ASSUME NEW S, NEW r \in Seq(S), NEW t \in Seq(S)
    PROVE  /\ SubSeq(r \o t, 1, Len(r)) = r
           /\ SubSeq(r \o t, Len(r) + 1, Len(r) + Len(t)) = t
<1>1. /\ r \o t \in Seq(S)
      /\ Len(r \o t) = Len(r) + Len(t)
      /\ \A i \in 1..Len(r) + Len(t) :
             (r \o t)[i] = IF i <= Len(r) THEN r[i] ELSE t[i - Len(r)]
    BY ConcatProperties
<1>2. Len(r) \in Nat /\ Len(t) \in Nat
    OBVIOUS
<1>3. SubSeq(r \o t, 1, Len(r)) = r
    <2>1. /\ SubSeq(r \o t, 1, Len(r)) \in Seq(S)
          /\ Len(SubSeq(r \o t, 1, Len(r))) = Len(r)
          /\ \A i \in 1..Len(r) : SubSeq(r \o t, 1, Len(r))[i] = (r \o t)[i]
        <3>1. \A i \in 1..Len(r) : (r \o t)[i] \in S
            BY <1>1, <1>2, ElementOfSeq
        <3>2. QED
            BY <1>2, <3>1, SubSeqProperties
    <2>2. QED
        BY <1>1, <1>2, <2>1, SeqEqual
<1>4. SubSeq(r \o t, Len(r) + 1, Len(r) + Len(t)) = t
    <2>1. /\ SubSeq(r \o t, Len(r) + 1, Len(r) + Len(t)) \in Seq(S)
          /\ Len(SubSeq(r \o t, Len(r) + 1, Len(r) + Len(t))) = Len(t)
          /\ \A i \in 1..Len(t) :
                SubSeq(r \o t, Len(r) + 1, Len(r) + Len(t))[i] = (r \o t)[Len(r) + i]
        <3>1. \A i \in Len(r) + 1..Len(r) + Len(t) : (r \o t)[i] \in S
            BY <1>1, <1>2, ElementOfSeq
        <3>2. QED
            BY <1>2, <3>1, SubSeqProperties
    <2>2. QED
        BY <1>1, <1>2, <2>1, SeqEqual
<1>5. QED
    BY <1>3, <1>4

(* An IPv4 address, four octets, is a sequence of length 4. *)
LEMMA QuadIsSeq ==
    ASSUME NEW S, NEW ip \in [1..4 -> S]
    PROVE  ip \in Seq(S) /\ Len(ip) = 4
<1>1. ip \in [1..4 -> S] /\ 4 \in Nat
    OBVIOUS
<1>2. ip \in Seq(S)
    BY <1>1, SeqDef, Zenon
<1>3. DOMAIN ip = 1..Len(ip) /\ Len(ip) \in Nat
    BY <1>2, LenProperties
<1>4. QED
    BY <1>1, <1>2, <1>3

(* util.ExtractIP on four labels followed by in-addr.arpa.: the suffix *)
(* check passes and the labels come back reversed.                      *)
LEMMA ExtractSuffixed ==
    ASSUME NEW S, NEW r \in Seq(S), Len(r) = 4, ArpaLabels \in Seq(S)
    PROVE  ExtractIP(r \o ArpaLabels) = <<ReverseArray(r), TRUE>>
<1>1. Len(ArpaLabels) = 3
    BY DEF ArpaLabels
<1>2. Len(r \o ArpaLabels) = 7
    <2>1. Len(r \o ArpaLabels) = Len(r) + Len(ArpaLabels)
        BY ConcatProperties
    <2>2. QED
        BY <1>1, <2>1
<1>3. /\ SubSeq(r \o ArpaLabels, 1, 4) = r
      /\ SubSeq(r \o ArpaLabels, 5, 7) = ArpaLabels
    <2>1. /\ SubSeq(r \o ArpaLabels, 1, Len(r)) = r
          /\ SubSeq(r \o ArpaLabels, Len(r) + 1, Len(r) + Len(ArpaLabels)) = ArpaLabels
        BY ConcatSplit
    <2>2. Len(r) = 4 /\ Len(r) + 1 = 5 /\ Len(r) + Len(ArpaLabels) = 7
        BY <1>1
    <2>3. QED
        BY <2>1, <2>2, Zenon
<1>4. /\ Len(r \o ArpaLabels) >= 4
      /\ Len(r \o ArpaLabels) - 2 = 5
      /\ Len(r \o ArpaLabels) - 3 = 4
    BY <1>2
<1>5. QED
    BY <1>2, <1>3, <1>4, Zenon DEF ExtractIP

(* util.ExtractIP on d.c.b.a.in-addr.arpa.: the four octets come back   *)
(* in address order.                                                     *)
LEMMA ExtractReversed ==
    ASSUME NEW ip \in [1..4 -> Octets]
    PROVE  ExtractIP(RevSeq(ip) \o ArpaLabels) = <<ip, TRUE>>
<1> DEFINE U == Octets \cup {"in-addr", "arpa", EmptyLabel}
<1>1. ip \in Seq(U) /\ Len(ip) = 4
    <2>1. ip \in Seq(Octets) /\ Len(ip) = 4
        BY QuadIsSeq
    <2>2. QED
        BY <2>1, SeqMonotonic
<1>2. RevSeq(ip) \in Seq(U) /\ Len(RevSeq(ip)) = 4 /\ RevSeq(RevSeq(ip)) = ip
    BY <1>1, RevSeqFacts
<1>3. ArpaLabels \in Seq(U)
    BY DEF ArpaLabels
<1>4. ReverseArray(RevSeq(ip)) = ip
    BY <1>2, ReverseArrayIsRevSeq
<1>5. QED
    BY <1>2, <1>3, <1>4, ExtractSuffixed

(* P1 (ReverseRoundTrip): util.ExtractIP inverts the reverse name of    *)
(* every IPv4 address and refuses every name without the in-addr.arpa.  *)
(* suffix, whatever the octets and the queried name.                     *)
THEOREM ReverseRoundTripHolds ==
    Spec => []ReverseRoundTrip
<1>1. ReverseRoundTrip
    <2>1. \A ip \in [1..4 -> Octets] : ExtractIP(RevSeq(ip) \o ArpaLabels) = <<ip, TRUE>>
        BY ExtractReversed
    <2>2. (Len(q) < 4 \/ SubSeq(q, Len(q) - 2, Len(q)) # ArpaLabels) => ~ExtractIP(q)[2]
        BY DEF ExtractIP
    <2>3. QED
        BY <2>1, <2>2 DEF ReverseRoundTrip
<1>2. QED
    BY <1>1, PTL

(* For any list of labels, the checks of isFederationQuery, in the order *)
(* the code makes them, hold exactly when the spec's grammar does.       *)
LEMMA ClassifierAgrees ==
    ASSUME NEW t
    PROVE  IsFederationQuery(t) <=> ClassifyRef(t)
<1>1. CASE Len(t) = 4 + Len(DomainPath)
    <2>1. (\A i \in 0..(Len(DomainPath) - 1) : DomainPath[i + 1] = t[Len(t) - i])
            <=> SubSeq(t, 5, Len(t)) = RevSeq(DomainPath)
        BY <1>1, DomainTailAgrees
    <2>2. Len(t) = Len(DomainPath) + 4
        BY <1>1
    <2>3. {t[2], t[3]} \subseteq Labels1123 <=> t[2] \in Labels1123 /\ t[3] \in Labels1123
        OBVIOUS
    <2>4. QED
        BY <1>1, <2>1, <2>2, <2>3, Zenon DEF IsFederationQuery, ClassifyRef
<1>2. CASE Len(t) # 4 + Len(DomainPath)
    BY <1>2 DEF IsFederationQuery, ClassifyRef
<1>3. QED
    BY <1>1, <1>2

(* P6 (FederationGrammar): Records treats a query as federated exactly    *)
(* when it is not exact and its trimmed labels satisfy the grammar of     *)
(* spec section 4.6, in every state and for every value of the constants. *)
THEOREM FederationGrammarHolds ==
    Spec => []FederationGrammar
<1>1. FederationGrammar
    BY ClassifierAgrees DEF FederationGrammar, Federated
<1>2. QED
    BY <1>1, PTL

-----------------------------------------------------------------------------
(* The CNAMEs of a federated query (spec 4.5a, 4.5b).  NameAtoms holds   *)
(* every label the names are built from; LocalLabels is the local name   *)
(* svc.ns.svc.<domain> a federated query stands for.                     *)
NameAtoms == Labels \cup STRING \cup {EmptyLabel, "svc", Zone, Region}
                    \cup {Feds[f] : f \in DOMAIN Feds}

LocalLabels(s) == <<s[1], s[2], "svc">> \o RevSeq(DomainPath)

(* What Records knows of a federated query: its trimmed labels are       *)
(* svc.ns.fed.svc followed by the domain in name order, and the last of *)
(* them is not empty.                                                    *)
LEMMA FederatedShape ==
    ASSUME NEW name \in Seq(Labels), NEW ex, Federated(name, ex),
           NEW s, s = Segments(name)
    PROVE  /\ s \in Seq(NameAtoms)
           /\ Len(s) = 4 + Len(DomainPath)
           /\ s[4] = "svc" /\ s[3] \in DOMAIN Feds
           /\ s[Len(s)] # EmptyLabel
           /\ \A i \in 1..Len(DomainPath) : s[4 + i] = RevSeq(DomainPath)[i]
<1> DEFINE d == Len(DomainPath)
<1>1. /\ s \in Seq(Labels \cup {EmptyLabel})
      /\ Len(s) >= 1
      /\ Len(s) >= 2 => s[Len(s)] # EmptyLabel
    BY TrimmedLabels DEF Segments
<1>2. IsFederationQuery(s)
    BY DEF Federated
<1>3. Len(s) = 4 + d /\ s[4] = "svc" /\ s[3] \in DOMAIN Feds /\ d \in Nat
    BY <1>2 DEF IsFederationQuery
<1>4. SubSeq(s, 5, Len(s)) = RevSeq(DomainPath)
    BY <1>2, <1>3, DomainTailAgrees DEF IsFederationQuery
<1>5. \A i \in 1..d : s[4 + i] = RevSeq(DomainPath)[i]
    <2>1. \A k \in 5..Len(s) : s[k] \in Labels \cup {EmptyLabel}
        BY <1>1, <1>3, ElementOfSeq
    <2>2. \A i \in 1..Len(s) - 5 + 1 : SubSeq(s, 5, Len(s))[i] = s[5 + i - 1]
        BY <1>1, <1>3, <2>1, SubSeqProperties
    <2>3. QED
        BY <1>3, <1>4, <2>2
<1>6. s \in Seq(NameAtoms)
    <2>1. Labels \cup {EmptyLabel} \subseteq NameAtoms
        BY DEF NameAtoms
    <2>2. QED
        BY <1>1, <2>1, SeqMonotonic
<1>7. QED
    BY <1>1, <1>3, <1>5, <1>6

(* append(segments[:2], segments[3:]...) on a federated query is the     *)
(* local name svc.ns.svc.<domain>.                                       *)
LEMMA FederatedLocal ==
    ASSUME NEW name \in Seq(Labels), NEW ex, Federated(name, ex)
    PROVE  /\ LocalSegments(name, ex) = LocalLabels(Segments(name))
           /\ LocalLabels(Segments(name)) \in Seq(NameAtoms)
           /\ Len(LocalLabels(Segments(name))) = 3 + Len(DomainPath)
           /\ LocalLabels(Segments(name))[3 + Len(DomainPath)]
                = Segments(name)[Len(Segments(name))]
<1> DEFINE s == Segments(name)
           d == Len(DomainPath)
           x == SubSeq(s, 1, 2)
           y == SubSeq(s, 4, Len(s))
           L == LocalLabels(s)
           h == <<s[1], s[2], "svc">>
           rd == RevSeq(DomainPath)
<1>1. /\ s \in Seq(NameAtoms)
      /\ Len(s) = 4 + d
      /\ s[4] = "svc"
      /\ \A i \in 1..d : s[4 + i] = rd[i]
      /\ d \in Nat
    BY FederatedShape
<1>2. LocalSegments(name, ex) = x \o y
    BY DEF LocalSegments
<1>3. rd \in Seq(NameAtoms) /\ Len(rd) = d
    <2>1. DomainPath \in Seq(NameAtoms)
        <3>1. STRING \subseteq NameAtoms
            BY DEF NameAtoms
        <3>2. QED
            BY <3>1, SeqMonotonic
    <2>2. QED
        BY <2>1, RevSeqFacts
<1>4. h \in Seq(NameAtoms) /\ Len(h) = 3
    <2>1. s[1] \in NameAtoms /\ s[2] \in NameAtoms /\ "svc" \in NameAtoms
        BY <1>1, ElementOfSeq DEF NameAtoms
    <2>2. QED
        BY <2>1
<1>5. /\ L \in Seq(NameAtoms)
      /\ Len(L) = 3 + d
      /\ \A i \in 1..3 + d : L[i] = IF i <= 3 THEN h[i] ELSE rd[i - 3]
    <2>1. /\ h \o rd \in Seq(NameAtoms)
          /\ Len(h \o rd) = Len(h) + Len(rd)
          /\ \A i \in 1..Len(h) + Len(rd) :
                (h \o rd)[i] = IF i <= Len(h) THEN h[i] ELSE rd[i - Len(h)]
        BY <1>3, <1>4, ConcatProperties
    <2>2. QED
        BY <1>3, <1>4, <2>1 DEF LocalLabels
<1>6. /\ x \in Seq(NameAtoms) /\ Len(x) = 2 /\ \A i \in 1..2 : x[i] = s[i]
      /\ y \in Seq(NameAtoms) /\ Len(y) = 1 + d /\ \A i \in 1..1 + d : y[i] = s[3 + i]
    <2>1. \A k \in 1..Len(s) : s[k] \in NameAtoms
        BY <1>1, ElementOfSeq
    <2>2. /\ x \in Seq(NameAtoms)
          /\ Len(x) = IF 1 <= 2 THEN 2 - 1 + 1 ELSE 0
          /\ \A i \in 1..2 - 1 + 1 : x[i] = s[1 + i - 1]
        BY <1>1, <2>1, SubSeqProperties
    <2>3. /\ y \in Seq(NameAtoms)
          /\ Len(y) = IF 4 <= Len(s) THEN Len(s) - 4 + 1 ELSE 0
          /\ \A i \in 1..Len(s) - 4 + 1 : y[i] = s[4 + i - 1]
        BY <1>1, <2>1, SubSeqProperties
    <2>4. QED
        BY <1>1, <2>2, <2>3
<1>7. \A i \in 1..1 + d : L[2 + i] = y[i]
    <2> TAKE i \in 1..1 + d
    <2>1. CASE i = 1
        BY <1>1, <1>5, <1>6, <2>1
    <2>2. CASE i > 1
        <3>1. i - 1 \in 1..d /\ 2 + i \in 1..3 + d /\ ~(2 + i <= 3)
            BY <1>1, <2>2
        <3>2. L[2 + i] = rd[i - 1]
            <4>1. L[2 + i] = rd[2 + i - 3]
                BY <1>5, <3>1
            <4>2. 2 + i - 3 = i - 1
                BY <1>1
            <4>3. QED
                BY <4>1, <4>2
        <3>3. rd[i - 1] = s[3 + i]
            <4>1. rd[i - 1] = s[4 + (i - 1)]
                BY <1>1, <3>1
            <4>2. 4 + (i - 1) = 3 + i
                BY <1>1
            <4>3. QED
                BY <4>1, <4>2
        <3>4. QED
            BY <1>6, <3>2, <3>3
    <2>3. QED
        BY <1>1, <2>1, <2>2
<1>8. x \o y = L
    <2>1. Len(L) = Len(x) + Len(y)
        BY <1>1, <1>5, <1>6
    <2>2. \A i \in 1..Len(x) : L[i] = x[i]
        BY <1>1, <1>5, <1>6
    <2>3. \A i \in 1..Len(y) : L[Len(x) + i] = y[i]
        BY <1>6, <1>7
    <2>4. QED
        BY <1>5, <1>6, <2>1, <2>2, <2>3, ConcatPointwise, Zenon
<1>9. L[3 + d] = s[Len(s)]
    <2>1. 1 + d \in 1..1 + d /\ 2 + (1 + d) = 3 + d /\ 3 + (1 + d) = Len(s)
        BY <1>1
    <2>2. QED
        BY <1>6, <1>7, <2>1
<1>10. QED
    BY <1>2, <1>5, <1>8, <1>9


(* federationRecords refuses, with an error and no CNAME, a parent       *)
(* domain that fails validation.IsDNS1123Subdomain (dns.go:957); the     *)
(* empty domain always fails it, so every CNAME the code returns has a   *)
(* non-empty parent domain.                                              *)
FedDomainsValid == \A f \in DOMAIN Feds : Feds[f] # EmptyLabel

(* The names of a federated query, for one query.                        *)
LEMMA FederationNamesStep ==
    ASSUME FedDomainsValid, q \in Seq(Labels)
    PROVE  FederationNames
<1> SUFFICES ASSUME Federated(q, exact)
             PROVE  LET s == Segments(q) IN
                    /\ QueryPath(q, exact) = RevSeq(<<s[1], s[2], "svc">> \o RevSeq(DomainPath))
                    /\ LocalName(q, exact) = <<s[1], s[2], "svc">> \o RevSeq(DomainPath) \o <<EmptyLabel>>
                    /\ RedirectName(s) = <<s[1], s[2], s[3], "svc", Zone, Region, Feds[s[3]], EmptyLabel>>
    BY DEF FederationNames
<1> DEFINE s == Segments(q)
           d == Len(DomainPath)
           L == LocalLabels(s)
<1>1. /\ s \in Seq(NameAtoms)
      /\ Len(s) = 4 + d
      /\ s[4] = "svc" /\ s[3] \in DOMAIN Feds
      /\ s[Len(s)] # EmptyLabel
      /\ d \in Nat
    BY FederatedShape
<1>2. /\ LocalSegments(q, exact) = L
      /\ L \in Seq(NameAtoms)
      /\ Len(L) = 3 + d
      /\ L[3 + d] = s[Len(s)]
    BY FederatedLocal
<1>3. QueryPath(q, exact) = RevSeq(L)
    BY <1>2, ReverseArrayIsRevSeq DEF QueryPath
<1>4. LocalName(q, exact) = L \o <<EmptyLabel>>
    <2>1. RevSeq(L) \in Seq(NameAtoms) /\ RevSeq(RevSeq(L)) = L
        BY <1>2, RevSeqFacts
    <2>2. ReverseArray(QueryPath(q, exact)) = L
        BY <1>3, <2>1, ReverseArrayIsRevSeq
    <2>3. ~(L[Len(L)] = EmptyLabel)
        BY <1>1, <1>2
    <2>4. FQDN(L) = L \o <<EmptyLabel>>
        BY <2>3 DEF FQDN
    <2>5. QED
        BY <2>2, <2>4 DEF LocalName
<1>5. RedirectName(s) = <<s[1], s[2], s[3], "svc", Zone, Region, Feds[s[3]], EmptyLabel>>
    <2> DEFINE q4 == <<s[1], s[2], s[3], "svc">>
               p6 == <<s[1], s[2], s[3], "svc", Zone, Region>>
               p7 == <<s[1], s[2], s[3], "svc", Zone, Region, Feds[s[3]]>>
               p8 == <<s[1], s[2], s[3], "svc", Zone, Region, Feds[s[3]], EmptyLabel>>
    <2>1. /\ s[1] \in NameAtoms /\ s[2] \in NameAtoms /\ s[3] \in NameAtoms
          /\ "svc" \in NameAtoms /\ Zone \in NameAtoms /\ Region \in NameAtoms
          /\ Feds[s[3]] \in NameAtoms /\ EmptyLabel \in NameAtoms
        BY <1>1, ElementOfSeq DEF NameAtoms
    <2>2. ReverseArray(ReverseArray(s)) = s
        <3>1. RevSeq(s) \in Seq(NameAtoms) /\ RevSeq(RevSeq(s)) = s
            BY <1>1, RevSeqFacts
        <3>2. QED
            BY <1>1, <3>1, ReverseArrayIsRevSeq
    <2>3. SubSeq(s, 1, Len(s) - d) = q4
        <3>1. Len(s) - d = 4
            BY <1>1
        <3>2. \A k \in 1..Len(s) : s[k] \in NameAtoms
            BY <1>1, ElementOfSeq
        <3>3. /\ SubSeq(s, 1, 4) \in Seq(NameAtoms)
              /\ Len(SubSeq(s, 1, 4)) = IF 1 <= 4 THEN 4 - 1 + 1 ELSE 0
              /\ \A i \in 1..4 - 1 + 1 : SubSeq(s, 1, 4)[i] = s[1 + i - 1]
            BY <1>1, <3>2, SubSeqProperties
        <3>4. q4 \in Seq(NameAtoms) /\ Len(q4) = 4
            BY <2>1
        <3>5. \A i \in 1..4 : SubSeq(s, 1, 4)[i] = q4[i]
            BY <1>1, <3>3
        <3>6. SubSeq(s, 1, 4) = q4
            <4>1. Len(SubSeq(s, 1, 4)) = Len(q4)
                BY <3>3, <3>4
            <4>2. \A i \in 1..Len(SubSeq(s, 1, 4)) : SubSeq(s, 1, 4)[i] = q4[i]
                BY <3>5, <4>1, <3>4
            <4>3. QED
                BY <3>3, <3>4, <4>1, <4>2, SeqEqual, Zenon
        <3>7. QED
            BY <3>1, <3>6
    <2>4. q4 \o <<Zone, Region>> = p6
        <3>1. q4 \in Seq(NameAtoms) /\ <<Zone, Region>> \in Seq(NameAtoms) /\ p6 \in Seq(NameAtoms)
            BY <2>1
        <3>2. Len(p6) = Len(q4) + Len(<<Zone, Region>>)
            OBVIOUS
        <3>3. \A i \in 1..Len(q4) : p6[i] = q4[i]
            OBVIOUS
        <3>4. \A i \in 1..Len(<<Zone, Region>>) : p6[Len(q4) + i] = <<Zone, Region>>[i]
            OBVIOUS
        <3>5. QED
            BY <3>1, <3>2, <3>3, <3>4, ConcatPointwise
    <2>5. p6 \o <<Feds[s[3]]>> = p7
        <3>1. p6 \in Seq(NameAtoms) /\ <<Feds[s[3]]>> \in Seq(NameAtoms) /\ p7 \in Seq(NameAtoms)
            BY <2>1
        <3>2. Len(p7) = Len(p6) + Len(<<Feds[s[3]]>>)
            OBVIOUS
        <3>3. \A i \in 1..Len(p6) : p7[i] = p6[i]
            OBVIOUS
        <3>4. \A i \in 1..Len(<<Feds[s[3]]>>) : p7[Len(p6) + i] = <<Feds[s[3]]>>[i]
            OBVIOUS
        <3>5. QED
            BY <3>1, <3>2, <3>3, <3>4, ConcatPointwise
    <2>6. p7 \o <<EmptyLabel>> = p8
        <3>1. p7 \in Seq(NameAtoms) /\ <<EmptyLabel>> \in Seq(NameAtoms) /\ p8 \in Seq(NameAtoms)
            BY <2>1
        <3>2. Len(p8) = Len(p7) + Len(<<EmptyLabel>>)
            OBVIOUS
        <3>3. \A i \in 1..Len(p7) : p8[i] = p7[i]
            OBVIOUS
        <3>4. \A i \in 1..Len(<<EmptyLabel>>) : p8[Len(p7) + i] = <<EmptyLabel>>[i]
            OBVIOUS
        <3>5. QED
            BY <3>1, <3>2, <3>3, <3>4, ConcatPointwise
    <2>7. FQDN(p7) = p8
        <3>1. ~(p7[Len(p7)] = EmptyLabel)
            BY <1>1 DEF FedDomainsValid
        <3>2. QED
            BY <2>6, <3>1 DEF FQDN
    <2>8. p6[3] = s[3]
        OBVIOUS
    <2>9. QED
        BY <2>2, <2>3, <2>4, <2>5, <2>7, <2>8 DEF RedirectName
<1>6. QED
    BY <1>2, <1>3, <1>4, <1>5 DEF LocalLabels

(* a query is a sequence of labels *)
QueriesAreNames == q \in Seq(Labels)

(* Spec 4.5a and 4.5b hold of every query Records can be asked, for      *)
(* every cluster domain and every federation map whose parent domains    *)
(* pass the check federationRecords makes.                               *)
THEOREM FederationNamesHold ==
    ASSUME FedDomainsValid
    PROVE  Spec => []FederationNames
<1>1. Init => QueriesAreNames
    <2> SUFFICES ASSUME Init PROVE q \in Seq(Labels)
        BY DEF QueriesAreNames
    <2>1. PICK k \in 0..MaxLen : q \in [1..k -> Labels]
        BY DEF Init, SeqsUpTo
    <2>2. k \in Nat
        OBVIOUS
    <2>3. QED
        BY <2>1, <2>2, SeqDef, Zenon
<1>2. QueriesAreNames /\ [Next]_vars => QueriesAreNames'
    BY DEF QueriesAreNames, Next, vars
<1>3. QueriesAreNames => FederationNames
    BY FederationNamesStep DEF QueriesAreNames
<1>4. QED
    BY <1>1, <1>2, <1>3, PTL DEF Spec

=============================================================================

---------------------------- MODULE KubeDNSLemmas ----------------------------
(***************************************************************************)
(* Facts about naturals and functions the proofs of the project keep      *)
(* needing: a least element of a non-empty set of naturals (the first     *)
(* labelled node of the API list, the last non-empty label of a name, the *)
(* first iteration at which two runs of a loop differ), the halves of a   *)
(* length, and the swap of two slots of an array.                         *)
(***************************************************************************)
EXTENDS Naturals, WellFoundedInduction, TLAPS

(* A non-empty set of naturals has a least element: < is well founded   *)
(* on Nat.                                                               *)
LEMMA NatLeast ==
    ASSUME NEW T, T \subseteq Nat, T # {}
    PROVE  \E m \in T : \A y \in T : m <= y
<1>1. PICK m \in T : \A y \in T : ~(<<y, m>> \in OpToRel(<, Nat))
    <2>1. IsWellFoundedOn(OpToRel(<, Nat), Nat)
        BY NatLessThanWellFounded
    <2>2. QED
        BY <2>1, WFMin, Zenon
<1>2. \A y \in T : y < m => <<y, m>> \in OpToRel(<, Nat)
    BY Zenon DEF OpToRel
<1>3. \A y \in T : ~(y < m)
    BY <1>1, <1>2, Zenon
<1>4. QED
    BY <1>3

(* len(arr)/2 in Go: the number of pairs a length holds *)
LEMMA HalfBounds ==
    ASSUME NEW n \in Nat
    PROVE  /\ n \div 2 \in Nat
           /\ 2 * (n \div 2) = n \/ 2 * (n \div 2) = n - 1
OBVIOUS

(* arr[i], arr[j] = arr[j], arr[i] on an array indexed 1..n *)
LEMMA ExceptSwap ==
    ASSUME NEW n \in Nat, NEW a, a = [x \in 1..n |-> a[x]],
           NEW i \in 1..n, NEW j \in 1..n, i # j
    PROVE  [a EXCEPT ![i] = a[j], ![j] = a[i]] =
           [x \in 1..n |-> IF x = j THEN a[i] ELSE IF x = i THEN a[j] ELSE a[x]]
OBVIOUS
=============================================================================

------------------------- MODULE ChainPlacementProofs -------------------------
(* Proofs about FilterChainMatch and ChainPlacement: package fcm finds exactly
   the chains that Envoy, as Filed describes it, files under one key, the Route
   controller places only Routes whose chains Envoy tells apart, and settles on
   one placement in any order of the reconciles, the one that the audit reports
   if both look for the Routes on the same nodes, for any well-formed matches,
   Routes, nodes and Listeners. *)
EXTENDS ChainPlacement, FiniteSetTheorems, SequenceTheorems, WellFoundedInduction, TLAPS

-----------------------------------------------------------------------------
(* Induction, recursion and sorting *)

\* A set of numbers has a least one.
LEMMA LeastNumber ==
    ASSUME NEW T \in SUBSET Nat, T # {}
    PROVE  \E x \in T : \A y \in T : x <= y
<1> DEFINE R == OpToRel(<, Nat)
<1>1. IsWellFoundedOn(R, Nat)
    BY NatLessThanWellFounded
<1>2. \A x, y \in Nat : y < x => <<y, x>> \in R
    BY DEF OpToRel
<1> HIDE DEF R
<1>3. PICK x \in T : \A y \in T : ~(<<y, x>> \in R)
    BY <1>1, WFMin
<1>4. \A y \in T : ~(y < x)
    BY <1>2, <1>3
<1> QED
    BY <1>4

\* Induction: T is the set of the steps at which a claim holds.
LEMMA Induction ==
    ASSUME NEW k \in Nat, NEW T, 0 \in T, \A i \in 1..k : i - 1 \in T => i \in T
    PROVE  0..k \subseteq T
<1> DEFINE C == {i \in 0..k : i \notin T}
<1>1. C \in SUBSET Nat
    OBVIOUS
<1>2. ASSUME C # {} PROVE FALSE
    <2>1. PICK x \in C : \A y \in C : x <= y
        BY <1>1, <1>2, LeastNumber
    <2>2. x \in 1..k /\ x - 1 \in 0..k /\ x - 1 \notin C
        BY <2>1
    <2> QED
        BY <2>2
<1> QED
    BY <1>2

\* g has the values of a recursion over the steps 1..k, where F[i] is what step i does.
Recursion(g, B, b0, k, F) ==
    g \in [0..k -> B] /\ g[0] = b0 /\ \A i \in 1..k : g[i] = F[i][g[i - 1]]

\* Every recursion has its values.
LEMMA RecursionDefined ==
    ASSUME NEW B, NEW b0 \in B, NEW k \in Nat, NEW F \in [1..k -> [B -> B]]
    PROVE  \E g : Recursion(g, B, b0, k, F)
<1> DEFINE Upto(j, g) == Recursion(g, B, b0, j, F)
           T == {j \in 0..k : \E g : Upto(j, g)}
<1>1. Upto(0, [i \in 0..0 |-> b0])
    BY DEF Recursion
<1>2. ASSUME NEW j \in 0..(k - 1), NEW g, Upto(j, g)
      PROVE  Upto(j + 1, [i \in 0..(j + 1) |-> IF i = j + 1 THEN F[j + 1][g[j]] ELSE g[i]])
    <2>1. g[j] \in B /\ j + 1 \in 1..k
        BY <1>2 DEF Recursion
    <2>2. F[j + 1][g[j]] \in B
        BY <2>1
    <2> QED
        BY <1>2, <2>2 DEF Recursion
<1> HIDE DEF Upto
<1>3. 0 \in T
    BY <1>1
<1>4. ASSUME NEW i \in 1..k, i - 1 \in T PROVE i \in T
    <2>1. i - 1 \in 0..(k - 1) /\ (i - 1) + 1 = i /\ i \in 0..k
        OBVIOUS
    <2>2. PICK g : Upto(i - 1, g)
        BY <1>4
    <2>3. \E h : Upto((i - 1) + 1, h)
        BY <1>2, <2>1, <2>2
    <2> QED
        BY <2>1, <2>3
<1> HIDE DEF T
<1>5. 0..k \subseteq T
    BY <1>3, <1>4, Induction
<1>6. PICK g : Upto(k, g)
    <2>1. k \in 0..k
        OBVIOUS
    <2> QED
        BY <1>5, <2>1 DEF T
<1> QED
    BY <1>6 DEF Upto

\* R orders the elements of S, each two of them.
Orders(R, S) ==
    /\ \A a, b \in S : a # b => <<a, b>> \in R \/ <<b, a>> \in R
    /\ \A a, b, c \in S : <<a, b>> \in R /\ <<b, c>> \in R => <<a, c>> \in R

\* A finite set that is ordered has a last element.
LEMMA LastElement ==
    ASSUME NEW S, IsFiniteSet(S), S # {}, NEW R, Orders(R, S)
    PROVE  \E m \in S : \A a \in S \ {m} : <<a, m>> \in R
<1> DEFINE HasLast(U) == \E m \in U : \A a \in U \ {m} : <<a, m>> \in R
           T == {n \in Nat : \E U \in SUBSET S : U # {} /\ ~HasLast(U) /\ Cardinality(U) = n}
<1>1. ASSUME T # {} PROVE FALSE
    <2>1. PICK n \in T : \A y \in T : n <= y
        BY <1>1, LeastNumber
    <2>2. PICK U \in SUBSET S : U # {} /\ ~HasLast(U) /\ Cardinality(U) = n
        BY <2>1
    <2>3. PICK x \in U : TRUE
        BY <2>2
    <2>4. /\ IsFiniteSet(U) /\ IsFiniteSet(U \ {x}) /\ Cardinality(U \ {x}) = n - 1
          /\ n \in Nat /\ n - 1 \in Nat
        <3>1. IsFiniteSet(U)
            BY FS_Subset
        <3>2. IsFiniteSet(U \ {x}) /\ Cardinality(U \ {x}) = n - 1
            BY <2>2, <2>3, <3>1, FS_RemoveElement
        <3> QED
            BY <3>1, <3>2, FS_CardinalityType
    <2>5. U \ {x} # {}
        BY <2>2, <2>3
    <2>6. HasLast(U \ {x})
        <3>1. n - 1 \notin T
            BY <2>1, <2>4
        <3> QED
            BY <2>4, <2>5, <3>1
    <2>7. PICK m \in U \ {x} : \A a \in (U \ {x}) \ {m} : <<a, m>> \in R
        BY <2>6
    <2>8. CASE <<x, m>> \in R
        BY <2>2, <2>7, <2>8
    <2>9. CASE <<m, x>> \in R
        <3>1. \A a \in U \ {x} : <<a, x>> \in R
            BY <2>3, <2>7, <2>9 DEF Orders
        <3> QED
            BY <2>2, <2>3, <3>1
    <2> QED
        BY <2>3, <2>7, <2>8, <2>9 DEF Orders
<1> HIDE DEF HasLast
<1>2. HasLast(S)
    BY <1>1, FS_CardinalityType
<1> QED
    BY <1>2 DEF HasLast

\* s lists the elements of S, in the order of R.
InOrder(s, S, R) ==
    /\ s \in [1..Cardinality(S) -> S] /\ ToSet(s) = S
    /\ \A i, j \in 1..Cardinality(S) : i < j => <<s[i], s[j]>> \in R

\* A finite set that is ordered can be listed in order.
LEMMA CanSort ==
    ASSUME NEW S, IsFiniteSet(S), NEW R, Orders(R, S)
    PROVE  \E s : InOrder(s, S, R)
<1> DEFINE T == {n \in Nat : \E U \in SUBSET S : (~ \E s : InOrder(s, U, R)) /\ Cardinality(U) = n}
<1>1. ASSUME T # {} PROVE FALSE
    <2>1. PICK n \in T : \A y \in T : n <= y
        BY <1>1, LeastNumber
    <2>2. PICK U \in SUBSET S : (~ \E s : InOrder(s, U, R)) /\ Cardinality(U) = n
        BY <2>1
    <2>3. IsFiniteSet(U) /\ n \in Nat
        BY FS_Subset
    <2>4. U # {}
        <3>1. SUFFICES ASSUME U = {} PROVE FALSE
            OBVIOUS
        <3>2. Cardinality(U) = 0
            BY <3>1, FS_EmptySet
        <3>3. InOrder([i \in 1..0 |-> 0], U, R)
            BY <3>1, <3>2 DEF InOrder, ToSet
        <3> QED
            BY <2>2, <3>3
    <2>5. PICK m \in U : \A a \in U \ {m} : <<a, m>> \in R
        <3>1. Orders(R, U)
            BY DEF Orders
        <3> QED
            BY <2>3, <2>4, <3>1, LastElement
    <2> DEFINE V == U \ {m}
    <2>6. Cardinality(V) = n - 1 /\ n - 1 \in Nat /\ V \in SUBSET S
        <3>1. IsFiniteSet(V) /\ Cardinality(V) = n - 1
            BY <2>2, <2>3, <2>5, FS_RemoveElement
        <3> QED
            BY <3>1, FS_CardinalityType
    <2>7. PICK s : InOrder(s, V, R)
        <3>1. n - 1 \notin T
            BY <2>1, <2>3, <2>6
        <3> QED
            BY <2>6, <3>1
    <2> DEFINE t == [i \in 1..n |-> IF i = n THEN m ELSE s[i]]
    <2>8. s \in [1..(n - 1) -> V] /\ ToSet(s) = V
        BY <2>6, <2>7 DEF InOrder
    <2>9. t \in [1..n -> U]
        BY <2>3, <2>5, <2>8
    <2>10. ToSet(t) = U
        <3>1. ASSUME NEW u \in U PROVE \E i \in 1..n : t[i] = u
            <4>1. CASE u = m
                <5>1. n \in 1..n
                    BY <2>3, <2>6
                <5> QED
                    BY <4>1, <5>1
            <4>2. CASE u # m
                <5>1. PICK i \in 1..(n - 1) : s[i] = u
                    BY <2>8, <4>2 DEF ToSet
                <5>2. i \in 1..n /\ i # n
                    BY <2>3, <5>1
                <5> QED
                    BY <5>1, <5>2
            <4> QED
                BY <4>1, <4>2
        <3> HIDE DEF t
        <3> QED
            BY <2>9, <3>1 DEF ToSet
    <2>11. ASSUME NEW i \in 1..n, NEW j \in 1..n, i < j PROVE <<t[i], t[j]>> \in R
        <3>1. i \in 1..(n - 1) /\ t[i] = s[i] /\ s[i] \in V
            BY <2>3, <2>8, <2>11
        <3>2. CASE j = n
            BY <2>5, <3>1, <3>2
        <3>3. CASE j # n
            <4>1. j \in 1..(n - 1) /\ t[j] = s[j]
                BY <2>3, <3>3
            <4> QED
                BY <2>6, <2>7, <2>11, <3>1, <4>1 DEF InOrder
        <3> QED
            BY <3>2, <3>3
    <2>12. InOrder(t, U, R)
        BY <2>2, <2>9, <2>10, <2>11 DEF InOrder
    <2> QED
        BY <2>2, <2>12
<1>2. Cardinality(S) \in Nat
    BY FS_CardinalityType
<1> QED
    BY <1>1, <1>2

-----------------------------------------------------------------------------
(* Package fcm *)

\* Two compiled matches that agree in the scalars and share a key of every list.
Collide(a, b) ==
    /\ a.destinationPort = b.destinationPort
    /\ a.transportProtocol = b.transportProtocol /\ a.sourceType = b.sourceType
    /\ shareKey(a.alpn, b.alpn) /\ shareKey(a.sourcePorts, b.sourcePorts)
    /\ shareKey(a.prefixRanges, b.prefixRanges) /\ shareKey(a.directSource, b.directSource)
    /\ shareKey(a.source, b.source) /\ shareKey(a.serverNames, b.serverNames)

\* Compare finds a duplicate exactly then.
LEMMA CompareCollides ==
    ASSUME NEW a, NEW b
    PROVE  Compare(a, b) = "duplicate" <=> Collide(a, b)
BY DEF Compare, compareServerNames, Collide, Scalars, Lists

\* A sequence of one element.
LEMMA OneElement ==
    ASSUME NEW S, NEW x \in S
    PROVE  <<x>> \in Seq(S) /\ <<x>> # <<>> /\ Len(<<x>>) = 1 /\ <<x>>[1] = x
OBVIOUS

\* The only function of its kind.
LEMMA OneElementIs ==
    ASSUME NEW S, NEW s \in Seq(S), Len(s) = 1
    PROVE  DOMAIN s = 1..1 /\ s = [i \in 1..1 |-> s[1]]
<1>1. s \in [1..Len(s) -> S]
    BY LenProperties
<1>2. s \in [1..1 -> S]
    BY <1>1
<1> QED
    BY <1>2

\* Names are filed under the key that fcm gives them.
LEMMA NamesFiled ==
    ASSUME NEW m, WellFormed(m)
    PROVE  Compile(m).serverNames = EnvoyNames(m.serverNames)
<1> DEFINE list == m.serverNames
<1>1. ASSUME NEW name \in Seq(DOMAIN Lower) \ {<<>>} PROVE NameKey(name) = EnvoyName(name)
    <2> DEFINE n == Len(name)
               lower == [i \in DOMAIN name |-> Lower[name[i]]]
    <2>1. n \in Nat \ {0} /\ DOMAIN name = 1..n /\ \A i \in 1..n : name[i] \in DOMAIN Lower
        BY <1>1
    <2>2. Head(lower) = Lower[name[1]] /\ (Head(lower) = "*" <=> name[1] = "*")
        <3>1. lower \in Seq({Lower[l] : l \in DOMAIN Lower}) /\ lower # <<>> /\ 1 \in DOMAIN name
            BY <2>1
        <3>2. Head(lower) = lower[1]
            BY <3>1
        <3> QED
            BY <2>1, <3>1, <3>2, LabelAssumption
    <2>3. CASE name[1] = "*"
        <3>1. EnvoyName(name) = [lower EXCEPT ![1] = ""]
            BY <2>2, <2>3 DEF EnvoyName
        <3> QED
            BY <2>1, <2>3, <3>1 DEF NameKey
    <2>4. CASE name[1] # "*"
        <3>1. EnvoyName(name) = lower
            BY <2>2, <2>4 DEF EnvoyName
        <3> QED
            BY <2>4, <3>1 DEF NameKey
    <2> QED
        BY <2>3, <2>4
<1>2. Compile(m).serverNames = OrAny(compileServerNames(list), anyNames)
    BY DEF Compile, Scalars, Lists
<1>3. \A name \in ToSet(list) : name \in Seq(DOMAIN Lower) \ {<<>>}
    BY DEF WellFormed
<1>4. list \in Seq(ToSet(list))
    BY DEF WellFormed
<1>5. CASE list = <<>>
    <2>1. compileServerNames(list) = <<>>
        BY <1>5 DEF compileServerNames
    <2>2. Compile(m).serverNames = {<<"">>}
        BY <1>2, <2>1 DEF OrAny, anyNames
    <2>3. <<"">> \in Seq(DOMAIN Lower) \ {<<>>} /\ Lower[""] = ""
        <3>1. "" \in DOMAIN Lower /\ Lower[""] = ""
            BY LabelAssumption
        <3>2. <<"">> \in Seq(DOMAIN Lower) /\ <<"">> # <<>>
            BY <3>1, OneElement
        <3> QED
            BY <3>1, <3>2
    <2>4. NameKey(<<"">>) = <<"">>
        <3>1. \A name \in Seq(DOMAIN Lower) : Len(name) = 1 /\ name[1] = "" => NameKey(name) = name
            <4> SUFFICES ASSUME NEW name \in Seq(DOMAIN Lower), Len(name) = 1, name[1] = ""
                         PROVE  NameKey(name) = name
                OBVIOUS
            <4>1. DOMAIN name = 1..1 /\ name = [i \in 1..1 |-> ""]
                BY OneElementIs
            <4>2. NameKey(name) = [i \in 1..1 |-> ""]
                BY <2>3, <4>1 DEF NameKey
            <4> QED
                BY <4>1, <4>2
        <3>2. Len(<<"">>) = 1 /\ <<"">>[1] = ""
            BY OneElement, LabelAssumption
        <3> QED
            BY <2>3, <3>1, <3>2
    <2>5. EnvoyNames(list) = {EnvoyName(<<"">>)}
        BY <1>5 DEF EnvoyNames, EnvoyValues
    <2> QED
        BY <1>1, <2>2, <2>3, <2>4, <2>5
<1>6. CASE list # <<>>
    <2> HIDE DEF list
    <2>1. DOMAIN compileServerNames(list) = DOMAIN list /\ compileServerNames(list) # <<>>
        BY <1>4, <1>6 DEF compileServerNames
    <2>2. OrAny(compileServerNames(list), anyNames) = {NameKey(list[i]) : i \in DOMAIN list}
        BY <2>1 DEF OrAny, ToSet, compileServerNames
    <2>3. EnvoyNames(list) = {EnvoyName(list[i]) : i \in DOMAIN list}
        BY <1>6 DEF EnvoyNames, EnvoyValues, ToSet
    <2>4. \A i \in DOMAIN list : NameKey(list[i]) = EnvoyName(list[i])
        BY <1>1, <1>3 DEF ToSet
    <2>5. Compile(m).serverNames = EnvoyNames(list)
        BY <1>2, <2>2, <2>3, <2>4 DEF list
    <2> QED
        BY <2>5 DEF list
<1> QED
    BY <1>5, <1>6

\* What a well-formed match may list as an address range.
IsRange(range) ==
    /\ range.family \in DOMAIN Width /\ range.len \in Nat
    /\ range.bits \in [1..Width[range.family] -> {0, 1}]

\* Two ranges have one key for fcm exactly if Envoy takes them for one.
LEMMA RangesAgree ==
    ASSUME NEW r, NEW q, IsRange(r), IsRange(q)
    PROVE  RangeKey(r) = RangeKey(q) <=> EnvoyRange(r) = EnvoyRange(q)
<1> DEFINE width(x) == Width[x.family]
           len(x) == IF x.len > width(x) THEN width(x) ELSE x.len
           key(x) == SubSeq(x.bits, 1, len(x))
           address(x) == [i \in 1..width(x) |-> IF i > len(x) THEN 0 ELSE x.bits[i]]
<1>1. ASSUME NEW x, IsRange(x)
      PROVE  /\ width(x) \in Nat /\ len(x) \in Nat /\ len(x) <= width(x)
             /\ RangeKey(x) = [family |-> x.family, bits |-> key(x)]
             /\ EnvoyRange(x) = [family |-> x.family, len |-> len(x), address |-> address(x)]
             /\ key(x) \in Seq({0, 1}) /\ Len(key(x)) = len(x)
             /\ \A i \in 1..len(x) : key(x)[i] = x.bits[i] /\ address(x)[i] = x.bits[i]
    <2>1. width(x) \in Nat /\ x.len \in Nat
        BY <1>1, LabelAssumption DEF IsRange
    <2>2. len(x) \in Nat /\ len(x) <= width(x)
        BY <2>1
    <2>3. x.bits \in Seq({0, 1}) /\ Len(x.bits) = width(x)
        <3>1. x.bits \in [1..width(x) -> {0, 1}]
            BY <1>1 DEF IsRange
        <3> HIDE DEF width
        <3> QED
            BY <2>1, <3>1
    <2>4. (IF x.len < Len(x.bits) THEN x.len ELSE Len(x.bits)) = len(x)
        BY <2>1, <2>3
    <2>5. RangeKey(x) = [family |-> x.family, bits |-> key(x)]
        BY <2>4 DEF RangeKey
    <2>6. EnvoyRange(x) = [family |-> x.family, len |-> len(x), address |-> address(x)]
        BY DEF EnvoyRange
    <2>7. \A i \in 1..len(x) : x.bits[i] \in {0, 1} /\ i \in 1..width(x) /\ ~(i > len(x))
        <3>1. x.bits \in [1..width(x) -> {0, 1}]
            BY <1>1 DEF IsRange
        <3> HIDE DEF width, len
        <3> QED
            BY <2>1, <2>2, <3>1
    <2>8. \A i \in 1..len(x) : address(x)[i] = x.bits[i]
        BY <2>7
    <2>9. /\ key(x) \in Seq({0, 1}) /\ Len(key(x)) = len(x)
          /\ \A i \in 1..len(x) : key(x)[i] = x.bits[i]
        <3> HIDE DEF len
        <3>1. len(x) \in Int /\ 1 \in Int /\ \A i \in 1..len(x) : x.bits[i] \in {0, 1}
            BY <2>2, <2>7
        <3>2. /\ key(x) \in Seq({0, 1})
              /\ Len(key(x)) = (IF 1 <= len(x) THEN len(x) - 1 + 1 ELSE 0)
              /\ \A i \in 1..(len(x) - 1 + 1) : key(x)[i] = x.bits[1 + i - 1]
            BY <3>1, SubSeqProperties
        <3> HIDE DEF key
        <3>3. len(x) - 1 + 1 = len(x) /\ \A i \in 1..len(x) : 1 + i - 1 = i
            BY <3>1
        <3> QED
            BY <2>2, <3>2, <3>3
    <2> QED
        BY <2>1, <2>2, <2>5, <2>6, <2>8, <2>9
<1>2. /\ width(r) \in Nat /\ len(r) \in Nat /\ len(r) <= width(r)
      /\ key(r) \in Seq({0, 1}) /\ Len(key(r)) = len(r)
      /\ \A i \in 1..len(r) : key(r)[i] = r.bits[i] /\ address(r)[i] = r.bits[i]
      /\ width(q) \in Nat /\ len(q) \in Nat /\ len(q) <= width(q)
      /\ key(q) \in Seq({0, 1}) /\ Len(key(q)) = len(q)
      /\ \A i \in 1..len(q) : key(q)[i] = q.bits[i] /\ address(q)[i] = q.bits[i]
    BY <1>1
<1>3. /\ RangeKey(r) = RangeKey(q) <=> r.family = q.family /\ key(r) = key(q)
      /\ EnvoyRange(r) = EnvoyRange(q) <=>
           r.family = q.family /\ len(r) = len(q) /\ address(r) = address(q)
    <2>1. /\ RangeKey(r) = [family |-> r.family, bits |-> key(r)]
          /\ RangeKey(q) = [family |-> q.family, bits |-> key(q)]
          /\ EnvoyRange(r) = [family |-> r.family, len |-> len(r), address |-> address(r)]
          /\ EnvoyRange(q) = [family |-> q.family, len |-> len(q), address |-> address(q)]
        BY <1>1
    <2> HIDE DEF key, len, address
    <2> QED
        BY <2>1
<1>4. ASSUME r.family = q.family, len(r) = len(q)
      PROVE  key(r) = key(q) <=> address(r) = address(q)
    <2>1. width(r) = width(q)
        BY <1>4
    <2>2. ASSUME key(r) = key(q) PROVE address(r) = address(q)
        <3>1. \A i \in 1..len(r) : r.bits[i] = q.bits[i]
            BY <1>2, <1>4, <2>2
        <3>2. ASSUME NEW i \in 1..width(r)
              PROVE  (IF i > len(r) THEN 0 ELSE r.bits[i]) = (IF i > len(q) THEN 0 ELSE q.bits[i])
            <4> HIDE DEF len, width
            <4> QED
                BY <1>2, <1>4, <3>1, <3>2
        <3> HIDE DEF len
        <3> QED
            BY <2>1, <3>2
    <2>3. ASSUME address(r) = address(q) PROVE key(r) = key(q)
        <3>1. \A i \in 1..len(r) : key(r)[i] = key(q)[i]
            BY <1>2, <1>4, <2>3
        <3> HIDE DEF key, len, address, width
        <3> QED
            BY <1>2, <1>4, <3>1
    <2> QED
        BY <2>2, <2>3
<1>5. key(r) = key(q) => len(r) = len(q)
    <2> HIDE DEF key, len
    <2> QED
        BY <1>2
<1> HIDE DEF key, len, address
<1> QED
    BY <1>3, <1>4, <1>5

\* The keys of a field of ranges are those of the ranges listed, or of everywhere.
LEMMA RangeField ==
    ASSUME NEW m, WellFormed(m), NEW f \in Ranges
    PROVE  /\ Compile(m)[f] = {RangeKey(x) : x \in RangesOf(m[f])}
           /\ \A x \in RangesOf(m[f]) : IsRange(x)
<1> DEFINE list == m[f]
<1>1. f \in Lists /\ f \notin Scalars /\ f # "destinationPort" /\ f # "serverNames" /\ f # "sourcePorts"
    BY DEF Ranges, Lists, Scalars
<1>2. Compile(m)[f] = OrAny(Keys(f, list), AnyKey(f)) /\ AnyKey(f) = anyAddresses
    BY <1>1 DEF Compile, AnyKey
<1>3. list \in Seq(ToSet(list)) /\ \A x \in ToSet(list) : IsRange(x)
    BY <1>1 DEF WellFormed, IsRange
<1>4. ASSUME NEW x \in Everywhere PROVE IsRange(x)
    <2>1. PICK g \in {"v4", "v6"} : x = [family |-> g, len |-> 0, bits |-> [i \in 1..Width[g] |-> 0]]
        BY <1>4 DEF Everywhere
    <2>2. [i \in 1..Width[g] |-> 0] \in [1..Width[g] -> {0, 1}]
        OBVIOUS
    <2> QED
        BY <2>1, <2>2, LabelAssumption DEF IsRange
<1>5. \A x \in RangesOf(list) : IsRange(x)
    BY <1>3, <1>4 DEF RangesOf
<1>6. CASE list = <<>>
    <2>1. Keys(f, list) = <<>>
        BY <1>6 DEF Keys
    <2>2. ASSUME NEW g \in {"v4", "v6"}
          PROVE  RangeKey([family |-> g, len |-> 0, bits |-> [i \in 1..Width[g] |-> 0]])
                   = [family |-> g, bits |-> <<>>]
        <3> DEFINE bits == [i \in 1..Width[g] |-> 0]
        <3>1. Width[g] \in Nat
            BY LabelAssumption
        <3>2. bits \in Seq({0}) /\ Len(bits) \in Nat
            BY <3>1
        <3>3. SubSeq(bits, 1, 0) = <<>>
            BY SubSeqEmpty
        <3> HIDE DEF bits
        <3>4. (IF 0 < Len(bits) THEN 0 ELSE Len(bits)) = 0
            BY <3>2
        <3>5. RangeKey([family |-> g, len |-> 0, bits |-> bits]) = [family |-> g, bits |-> <<>>]
            BY <3>3, <3>4 DEF RangeKey
        <3> QED
            BY <3>5 DEF bits
    <2>3. {RangeKey(x) : x \in Everywhere} = anyAddresses
        BY <2>2 DEF Everywhere, anyAddresses
    <2>4. RangesOf(list) = Everywhere /\ OrAny(Keys(f, list), AnyKey(f)) = anyAddresses
        BY <1>2, <1>6, <2>1 DEF RangesOf, OrAny
    <2> QED
        BY <1>2, <1>5, <2>3, <2>4
<1>7. CASE list # <<>>
    <2> HIDE DEF list
    <2>1. Keys(f, list) = [i \in DOMAIN list |-> RangeKey(list[i])]
        BY DEF Keys
    <2>2. Keys(f, list) # <<>>
        BY <1>3, <1>7, <2>1
    <2>3. OrAny(Keys(f, list), AnyKey(f)) = {RangeKey(list[i]) : i \in DOMAIN list}
        BY <2>1, <2>2 DEF OrAny, ToSet
    <2>4. RangesOf(list) = {list[i] : i \in DOMAIN list}
        BY <1>7 DEF RangesOf, ToSet
    <2>5. Compile(m)[f] = {RangeKey(x) : x \in RangesOf(list)}
        BY <1>2, <2>3, <2>4 DEF list
    <2> QED
        BY <1>5, <2>5 DEF list
<1> QED
    BY <1>6, <1>7

\* Two fields of ranges share a key exactly if Envoy files them under a common range.
LEMMA RangesFiled ==
    ASSUME NEW m, NEW o, WellFormed(m), WellFormed(o), NEW f \in Ranges
    PROVE  shareKey(Compile(m)[f], Compile(o)[f])
             <=> EnvoyRanges(m[f]) \intersect EnvoyRanges(o[f]) # {}
<1> DEFINE A == RangesOf(m[f])
           B == RangesOf(o[f])
<1>1. /\ Compile(m)[f] = {RangeKey(x) : x \in A} /\ \A x \in A : IsRange(x)
      /\ Compile(o)[f] = {RangeKey(x) : x \in B} /\ \A x \in B : IsRange(x)
    BY RangeField
<1>2. EnvoyRanges(m[f]) = {EnvoyRange(x) : x \in A} /\ EnvoyRanges(o[f]) = {EnvoyRange(x) : x \in B}
    BY DEF EnvoyRanges
<1> HIDE DEF A, B
<1>3. \A x \in A, y \in B : RangeKey(x) = RangeKey(y) <=> EnvoyRange(x) = EnvoyRange(y)
    BY <1>1, RangesAgree
<1>4. shareKey(Compile(m)[f], Compile(o)[f]) <=> \E x \in A, y \in B : RangeKey(x) = RangeKey(y)
    BY <1>1 DEF shareKey
<1>5. EnvoyRanges(m[f]) \intersect EnvoyRanges(o[f]) # {}
        <=> \E x \in A, y \in B : EnvoyRange(x) = EnvoyRange(y)
    BY <1>2
<1> QED
    BY <1>3, <1>4, <1>5

\* Ports and protocols are filed as they are listed.
LEMMA ValuesFiled ==
    ASSUME NEW m, WellFormed(m)
    PROVE  /\ Compile(m).alpn = EnvoyValues(m.alpn, "")
           /\ Compile(m).sourcePorts = EnvoyValues(m.sourcePorts, 0)
           /\ {Compile(m).destinationPort} = EnvoyValues(m.destinationPort, 0)
           /\ Compile(m).transportProtocol = m.transportProtocol
           /\ Compile(m).sourceType = m.sourceType
<1>1. m.alpn \in Seq(ToSet(m.alpn)) /\ m.sourcePorts \in Seq(ToSet(m.sourcePorts))
    BY DEF WellFormed, Lists
<1>2. ASSUME NEW f \in {"alpn", "sourcePorts"}
      PROVE  Compile(m)[f] = EnvoyValues(m[f], CHOOSE x \in AnyKey(f) : TRUE)
    <2>1. Compile(m)[f] = OrAny(Keys(f, m[f]), AnyKey(f)) /\ f \notin Ranges
        BY DEF Compile, Scalars, Lists, Ranges
    <2>2. m[f] \in Seq(ToSet(m[f]))
        BY <1>1
    <2>3. Keys(f, m[f]) = m[f]
        BY <2>1, <2>2 DEF Keys
    <2>4. AnyKey(f) = {CHOOSE x \in AnyKey(f) : TRUE}
        BY DEF AnyKey, anyPorts, Ranges
    <2> QED
        BY <2>1, <2>3, <2>4 DEF OrAny, EnvoyValues
<1>3. (CHOOSE x \in AnyKey("alpn") : TRUE) = "" /\ (CHOOSE x \in AnyKey("sourcePorts") : TRUE) = 0
    BY DEF AnyKey, anyPorts, Ranges
<1>4. {Compile(m).destinationPort} = EnvoyValues(m.destinationPort, 0)
    <2>1. Compile(m).destinationPort = IF m.destinationPort = <<>> THEN 0 ELSE Head(m.destinationPort)
        BY DEF Compile, Scalars, Lists
    <2>2. CASE m.destinationPort = <<>>
        BY <2>1, <2>2 DEF EnvoyValues
    <2>3. CASE m.destinationPort # <<>>
        <3> DEFINE p == m.destinationPort
        <3>1. p \in Seq(Nat) /\ Len(p) \in {0, 1}
            BY DEF WellFormed
        <3> HIDE DEF p
        <3>2. p # <<>> => Len(p) = 1 /\ DOMAIN p = 1..1 /\ Head(p) = p[1]
            BY <3>1
        <3>3. p # <<>> => ToSet(p) = {Head(p)}
            BY <3>2 DEF ToSet
        <3> QED
            BY <2>1, <2>3, <3>3 DEF EnvoyValues, p
    <2> QED
        BY <2>2, <2>3
<1>5. Compile(m).transportProtocol = m.transportProtocol /\ Compile(m).sourceType = m.sourceType
    BY DEF Compile, Scalars
<1> QED
    BY <1>2, <1>3, <1>4, <1>5

\* One key for every combination, with the values of two fields and the sets of six.
Combinations(P, T, Y, D, N, A, C, S, Q) ==
    {<<P, dst, name, T, alpn, direct, Y, src, port>> :
        dst \in D, name \in N, alpn \in A, direct \in C, src \in S, port \in Q}

\* Two sets of combinations meet if they do so in every field.
LEMMA CombinationsMeet ==
    ASSUME NEW P1, NEW T1, NEW Y1, NEW D1, NEW N1, NEW A1, NEW C1, NEW S1, NEW Q1,
           NEW P2, NEW T2, NEW Y2, NEW D2, NEW N2, NEW A2, NEW C2, NEW S2, NEW Q2
    PROVE  shareKey(Combinations(P1, T1, Y1, D1, N1, A1, C1, S1, Q1),
                    Combinations(P2, T2, Y2, D2, N2, A2, C2, S2, Q2))
             <=> /\ P1 = P2 /\ T1 = T2 /\ Y1 = Y2
                 /\ shareKey(D1, D2) /\ shareKey(N1, N2) /\ shareKey(A1, A2)
                 /\ shareKey(C1, C2) /\ shareKey(S1, S2) /\ shareKey(Q1, Q2)
<1> DEFINE K1 == Combinations(P1, T1, Y1, D1, N1, A1, C1, S1, Q1)
           K2 == Combinations(P2, T2, Y2, D2, N2, A2, C2, S2, Q2)
           Common == /\ P1 = P2 /\ T1 = T2 /\ Y1 = Y2
                     /\ D1 \intersect D2 # {} /\ N1 \intersect N2 # {} /\ A1 \intersect A2 # {}
                     /\ C1 \intersect C2 # {} /\ S1 \intersect S2 # {} /\ Q1 \intersect Q2 # {}
<1>1. ASSUME NEW k \in K1, k \in K2 PROVE Common
    <2>1. PICK d1 \in D1, n1 \in N1, a1 \in A1, c1 \in C1, s1 \in S1, q1 \in Q1 :
               k = <<P1, d1, n1, T1, a1, c1, Y1, s1, q1>>
        BY DEF Combinations
    <2>2. PICK d2 \in D2, n2 \in N2, a2 \in A2, c2 \in C2, s2 \in S2, q2 \in Q2 :
               k = <<P2, d2, n2, T2, a2, c2, Y2, s2, q2>>
        BY <1>1 DEF Combinations
    <2>3. /\ P1 = P2 /\ T1 = T2 /\ Y1 = Y2
          /\ d1 = d2 /\ n1 = n2 /\ a1 = a2 /\ c1 = c2 /\ s1 = s2 /\ q1 = q2
        BY <2>1, <2>2
    <2> QED
        BY <2>1, <2>2, <2>3
<1>2. ASSUME Common PROVE K1 \intersect K2 # {}
    <2>1. PICK d \in D1, n \in N1, a \in A1, c \in C1, s \in S1, q \in Q1 :
               d \in D2 /\ n \in N2 /\ a \in A2 /\ c \in C2 /\ s \in S2 /\ q \in Q2
        BY <1>2
    <2> DEFINE k == <<P1, d, n, T1, a, c, Y1, s, q>>
    <2>2. k = <<P2, d, n, T2, a, c, Y2, s, q>>
        BY <1>2
    <2> HIDE DEF k
    <2>3. k \in K1
        BY <2>1 DEF Combinations, k
    <2>4. k \in K2
        BY <2>1, <2>2 DEF Combinations
    <2> QED
        BY <2>3, <2>4
<1> HIDE DEF K1, K2, Common
<1>3. shareKey(K1, K2) <=> Common
    BY <1>1, <1>2 DEF shareKey
<1> QED
    BY <1>3 DEF K1, K2, Common, shareKey

\* Two chains are filed under one key exactly then.
LEMMA FiledCollides ==
    ASSUME NEW m, NEW o, WellFormed(m), WellFormed(o)
    PROVE  Filed(m) \intersect Filed(o) # {} <=> Collide(Compile(m), Compile(o))
<1> DEFINE P(x) == EnvoyValues(x.destinationPort, 0)
           D(x) == EnvoyRanges(x.prefixRanges)
           N(x) == EnvoyNames(x.serverNames)
           A(x) == EnvoyValues(x.alpn, "")
           C(x) == EnvoyRanges(x.directSource)
           S(x) == EnvoyRanges(x.source)
           Q(x) == EnvoyValues(x.sourcePorts, 0)
           T(x) == x.transportProtocol
           Y(x) == x.sourceType
           Common == /\ P(m) = P(o) /\ T(m) = T(o) /\ Y(m) = Y(o)
                     /\ shareKey(D(m), D(o)) /\ shareKey(N(m), N(o)) /\ shareKey(A(m), A(o))
                     /\ shareKey(C(m), C(o)) /\ shareKey(S(m), S(o)) /\ shareKey(Q(m), Q(o))
<1>1. Collide(Compile(m), Compile(o)) <=> Common
    <2>1. \A f \in {"prefixRanges", "directSource", "source"} :
            shareKey(Compile(m)[f], Compile(o)[f]) <=> shareKey(EnvoyRanges(m[f]), EnvoyRanges(o[f]))
        BY RangesFiled DEF Ranges, shareKey
    <2>2. Compile(m).serverNames = EnvoyNames(m.serverNames) /\ Compile(o).serverNames = EnvoyNames(o.serverNames)
        BY NamesFiled
    <2>3. /\ Compile(m).alpn = EnvoyValues(m.alpn, "") /\ Compile(o).alpn = EnvoyValues(o.alpn, "")
          /\ Compile(m).sourcePorts = EnvoyValues(m.sourcePorts, 0)
          /\ Compile(o).sourcePorts = EnvoyValues(o.sourcePorts, 0)
          /\ Compile(m).destinationPort = Compile(o).destinationPort
               <=> EnvoyValues(m.destinationPort, 0) = EnvoyValues(o.destinationPort, 0)
          /\ Compile(m).transportProtocol = m.transportProtocol
          /\ Compile(o).transportProtocol = o.transportProtocol
          /\ Compile(m).sourceType = m.sourceType /\ Compile(o).sourceType = o.sourceType
        <3>1. /\ {Compile(m).destinationPort} = EnvoyValues(m.destinationPort, 0)
              /\ {Compile(o).destinationPort} = EnvoyValues(o.destinationPort, 0)
            BY ValuesFiled
        <3>2. \A x, y : x = y <=> {x} = {y}
            OBVIOUS
        <3>3. Compile(m).destinationPort = Compile(o).destinationPort
                <=> EnvoyValues(m.destinationPort, 0) = EnvoyValues(o.destinationPort, 0)
            BY <3>1, <3>2
        <3> QED
            BY <3>3, ValuesFiled
    <2> QED
        BY <2>1, <2>2, <2>3 DEF Collide
<1>2. Filed(m) \intersect Filed(o) # {} <=> Common
    <2> DEFINE K(x) == Combinations(P(x), T(x), Y(x), D(x), N(x), A(x), C(x), S(x), Q(x))
    <2>1. Filed(m) = K(m) /\ Filed(o) = K(o)
        BY DEF Filed, Combinations
    <2> HIDE DEF P, D, N, A, C, S, Q, T, Y
    <2>2. shareKey(K(m), K(o)) <=> Common
        BY CombinationsMeet
    <2> QED
        BY <2>1, <2>2 DEF shareKey
<1> QED
    BY <1>1, <1>2

\* fcm takes two chains for duplicates exactly when Envoy, as Filed describes it,
\* files them under one key: fcm's normal form of names, addresses and unset fields
\* loses no difference that Envoy makes, and adds none.  What Envoy does is written
\* down from the package's comments, not taken from Envoy's code.
THEOREM DuplicateIsEnvoys ==
    \A m, o : WellFormed(m) /\ WellFormed(o) =>
        (Compare(Compile(m), Compile(o)) = "duplicate" <=> Filed(m) \intersect Filed(o) # {})
BY CompareCollides, FiledCollides

\* The index by server name loses nothing: among the chains ms that were added,
\* HasDuplicate finds one filed under a key of m whenever there is one.
THEOREM IndexComplete ==
    ASSUME NEW ms, NEW m, WellFormed(m), \A x \in ms : WellFormed(x)
    PROVE  HasDuplicate(UNION {Add(EmptySet, Compile(x)) : x \in ms}, Compile(m))
             <=> \E x \in ms : Filed(x) \intersect Filed(m) # {}
<1> DEFINE placed == UNION {Add(EmptySet, Compile(x)) : x \in ms}
<1>1. ASSUME NEW e \in placed, e[1] \in Compile(m).serverNames, Compare(Compile(m), e[2]) = "duplicate"
      PROVE  \E x \in ms : Filed(x) \intersect Filed(m) # {}
    <2>1. PICK x \in ms : e \in Add(EmptySet, Compile(x))
        BY <1>1
    <2>2. e[2] = Compile(x)
        BY <2>1 DEF Add, EmptySet
    <2> QED
        BY <1>1, <2>1, <2>2, DuplicateIsEnvoys
<1>2. ASSUME NEW x \in ms, Filed(x) \intersect Filed(m) # {}
      PROVE  \E e \in placed : e[1] \in Compile(m).serverNames /\ Compare(Compile(m), e[2]) = "duplicate"
    <2>1. Collide(Compile(m), Compile(x))
        BY <1>2, FiledCollides
    <2>2. PICK name \in Compile(m).serverNames : name \in Compile(x).serverNames
        BY <2>1 DEF Collide, shareKey
    <2>3. <<name, Compile(x)>> \in placed
        BY <2>2 DEF Add, EmptySet
    <2>4. Compare(Compile(m), Compile(x)) = "duplicate"
        BY <2>1, CompareCollides
    <2> QED
        BY <2>2, <2>3, <2>4
<1> QED
    BY <1>1, <1>2 DEF HasDuplicate

-----------------------------------------------------------------------------
(* Conflicts *)

\* The verdict does not depend on which of two matches is asked.
LEMMA CompareSymmetric ==
    ASSUME NEW a, NEW b
    PROVE  Compare(a, b) = Compare(b, a)
<1>1. \A x, y : shareKey(x, y) <=> shareKey(y, x)
    BY DEF shareKey
<1>2. \A x, y : Overlap(x, y) <=> Overlap(y, x)
    BY DEF Overlap, sameButTrailingDot
<1>3. compareServerNames(a.serverNames, b.serverNames) = compareServerNames(b.serverNames, a.serverNames)
    BY <1>1, <1>2 DEF compareServerNames
<1> QED
    BY <1>1, <1>3 DEF Compare

\* RouteConflict does not depend on which Route is reconciled.
LEMMA ConflictSymmetric ==
    ASSUME NEW r, NEW x
    PROVE  RouteConflict(r, x) <=> RouteConflict(x, r)
<1>1. Compare(Compile(spec[r].match), Compile(spec[x].match))
        = Compare(Compile(spec[x].match), Compile(spec[r].match))
    BY CompareSymmetric
<1> QED
    BY <1>1 DEF RouteConflict, shareKey, virtualHostsOverlap

-----------------------------------------------------------------------------
(* What the Route controller places *)

\* An entry of RouteConfigs is a node and a Route.
EntriesArePairs == \A e \in RouteConfigs : e[2] \in Routes /\ e = <<e[1], e[2]>>

\* No two Routes on a node conflict.
PlacedApart ==
    \A e, f \in RouteConfigs : e[1] = f[1] /\ e[2] # f[2] => ~RouteConflict(e[2], f[2])

\* No Route is placed where a chain of its Listener itself wins.
PlacedBesideStatic ==
    \A e \in RouteConfigs :
        /\ Valid(spec[e[2]].match)
        /\ \A name \in ToSet(spec[e[2]].refs) : \A l \in listeners[name] :
             e[1] \in l.nodes => ~DuplicatesStatic(e[2], l)

\* A manifest that is not applied takes no part.
UnappliedAway ==
    \A r \in Routes : created[r] = 0 =>
        /\ r \notin queue /\ losers[r] = {}
        /\ \A w \in Routes : r \notin losers[w]
        /\ \A e \in RouteConfigs : e[2] # r

\* Losers are younger than their winners (TypeOK).
LosersYounger == \A w \in Routes : \A r \in losers[w] : OlderRoute(w, r)

\* The inductive invariant; the types are those it needs.
PlacementInv ==
    /\ spec \in [Routes -> Specs] /\ listeners \in Layouts
    /\ losers \in [Routes -> SUBSET Routes] /\ created \in [Routes -> 0..2] /\ queue \subseteq Routes
    /\ EntriesArePairs /\ PlacedApart /\ PlacedBesideStatic /\ UnappliedAway /\ LosersYounger

\* What an outcome may be.
LEMMA OutcomeCases ==
    ASSUME NEW r \in Routes, EntriesArePairs
    PROVE  LET o == Outcome(r) IN
           /\ o.evicted \subseteq {e[2] : e \in RouteConfigs}
           /\ o.winners \subseteq {e[2] : e \in RouteConfigs}
           /\ \A x \in o.winners : x \in Routes \ {r} /\ OlderRoute(x, r)
           /\ \/ o.configs \subseteq RouteConfigs
              \/ \E nodes : /\ Valid(spec[r].match) /\ ~staticChainConflict(r, nodes)
                            /\ o.configs = Without({r} \union findConflicts(r, nodes)) \union (nodes \X {r})
<1> DEFINE nodes == getNodesForRoute(r)
           conflicts == findConflicts(r, nodes)
           winners == Losing(r, conflicts)
<1>1. conflicts \subseteq {e[2] : e \in RouteConfigs} /\ conflicts \subseteq Routes \ {r}
    <2> SUFFICES ASSUME NEW x \in conflicts PROVE x \in Routes \ {r} /\ \E e \in RouteConfigs : x = e[2]
        OBVIOUS
    <2>1. x \in Routes \ {r} /\ \E n \in nodes : <<n, x>> \in RouteConfigs
        BY DEF findConflicts
    <2> QED
        BY <2>1
<1>2. winners \subseteq conflicts /\ \A x \in winners : OlderRoute(x, r)
    BY DEF Losing
<1> HIDE DEF nodes
<1>3. Without({r}) \subseteq RouteConfigs
    BY DEF Without
<1>4. Outcome(r) =
        IF ~Valid(spec[r].match)
        THEN [configs |-> RouteConfigs, evicted |-> {}, winners |-> {}]
        ELSE IF nodes = {} \/ staticChainConflict(r, nodes)
        THEN [configs |-> Without({r}), evicted |-> {}, winners |-> {}]
        ELSE IF winners # {}
        THEN [configs |-> Without({r}), evicted |-> {}, winners |-> winners]
        ELSE [configs |-> Without({r} \union conflicts) \union (nodes \X {r}),
              evicted |-> conflicts, winners |-> {}]
    BY DEF Outcome, nodes
<1> HIDE DEF winners
<1>5. CASE ~Valid(spec[r].match)
    BY <1>4, <1>5
<1>6. CASE Valid(spec[r].match) /\ (nodes = {} \/ staticChainConflict(r, nodes))
    BY <1>3, <1>4, <1>6
<1>7. CASE Valid(spec[r].match) /\ ~(nodes = {} \/ staticChainConflict(r, nodes)) /\ winners # {}
    <2>1. /\ Outcome(r).configs = Without({r}) /\ Outcome(r).evicted = {}
          /\ Outcome(r).winners = winners
        BY <1>4, <1>7
    <2>2. winners \subseteq {e[2] : e \in RouteConfigs} /\ winners \subseteq Routes \ {r}
        BY <1>1, <1>2
    <2> QED
        BY <1>2, <1>3, <2>1, <2>2
<1>8. CASE Valid(spec[r].match) /\ ~(nodes = {} \/ staticChainConflict(r, nodes)) /\ winners = {}
    <2>1. /\ Outcome(r).configs = Without({r} \union conflicts) \union (nodes \X {r})
          /\ Outcome(r).evicted = conflicts /\ Outcome(r).winners = {}
        BY <1>4, <1>8
    <2> QED
        BY <1>1, <1>8, <2>1
<1> QED
    BY <1>5, <1>6, <1>7, <1>8

\* Init: nothing is placed yet.
LEMMA PlacementInit == Init => PlacementInv
<1> SUFFICES ASSUME Init PROVE PlacementInv
    OBVIOUS
<1>1. /\ created \in [Routes -> {0, 1}] /\ queue = {r \in Routes : created[r] # 0}
      /\ RouteConfigs = {} /\ losers = [r \in Routes |-> {}]
    BY DEF Init
<1> QED
    BY <1>1 DEF Init, PlacementInv, EntriesArePairs, PlacedApart, PlacedBesideStatic, UnappliedAway,
                LosersYounger

\* Fewer entries than before, or those of one Route anew without the ones that
\* conflict with it: either way the Routes on a node are apart.
LEMMA PlacedReconcile ==
    ASSUME PlacementInv, NEW r \in Routes, Reconcile(r)
    PROVE  EntriesArePairs' /\ PlacedApart' /\ PlacedBesideStatic'
<1>1. UNCHANGED <<spec, listeners>> /\ RouteConfigs' = Outcome(r).configs
    BY DEF Reconcile
<1>2. EntriesArePairs /\ PlacedApart /\ PlacedBesideStatic
    BY DEF PlacementInv
<1>3. \A x, y : RouteConflict(x, y)' <=> RouteConflict(x, y)
    BY <1>1 DEF RouteConflict, virtualHostsOverlap
<1>4. \A x, l : DuplicatesStatic(x, l)' <=> DuplicatesStatic(x, l)
    BY <1>1 DEF DuplicatesStatic
<1>5. CASE RouteConfigs' \subseteq RouteConfigs
    BY <1>1, <1>2, <1>3, <1>4, <1>5 DEF EntriesArePairs, PlacedApart, PlacedBesideStatic
<1>6. ASSUME NEW nodes, Valid(spec[r].match), ~staticChainConflict(r, nodes),
             RouteConfigs' = Without({r} \union findConflicts(r, nodes)) \union (nodes \X {r})
      PROVE  EntriesArePairs' /\ PlacedApart' /\ PlacedBesideStatic'
    <2>1. \A e \in RouteConfigs' :
            \/ e \in RouteConfigs /\ e[2] # r /\ e[2] \notin findConflicts(r, nodes)
            \/ e[1] \in nodes /\ e[2] = r /\ e = <<e[1], e[2]>>
        BY <1>6 DEF Without
    <2>2. EntriesArePairs'
        BY <1>2, <2>1 DEF EntriesArePairs
    <2>3. ASSUME NEW e \in RouteConfigs, e[1] \in nodes, e[2] # r, e[2] \notin findConflicts(r, nodes)
          PROVE  ~RouteConflict(r, e[2]) /\ ~RouteConflict(e[2], r)
        <3>1. e[2] \in Routes \ {r} /\ <<e[1], e[2]>> \in RouteConfigs
            BY <1>2, <2>3 DEF EntriesArePairs
        <3> QED
            BY <2>3, <3>1, ConflictSymmetric DEF findConflicts
    <2>4. PlacedApart'
        <3> SUFFICES ASSUME NEW e \in RouteConfigs', NEW f \in RouteConfigs', e[1] = f[1], e[2] # f[2]
                     PROVE  ~RouteConflict(e[2], f[2])
            BY <1>3 DEF PlacedApart
        <3> QED
            BY <1>2, <2>1, <2>3 DEF PlacedApart
    <2>5. PlacedBesideStatic'
        <3> SUFFICES ASSUME NEW e \in RouteConfigs'
                     PROVE  /\ Valid(spec[e[2]].match)
                            /\ \A name \in ToSet(spec[e[2]].refs) : \A l \in listeners[name] :
                                 e[1] \in l.nodes => ~DuplicatesStatic(e[2], l)
            BY <1>1, <1>4 DEF PlacedBesideStatic
        <3>1. CASE e \in RouteConfigs
            BY <1>2, <3>1 DEF PlacedBesideStatic
        <3>2. CASE e[1] \in nodes /\ e[2] = r
            BY <1>6, <3>2 DEF staticChainConflict
        <3> QED
            BY <2>1, <3>1, <3>2
    <2> QED
        BY <2>2, <2>4, <2>5
<1> QED
    BY <1>1, <1>2, <1>5, <1>6, OutcomeCases

\* A reconcile keeps the losers in the direction of precedence.
LEMMA LosersReconcile ==
    ASSUME PlacementInv, NEW r \in Routes, Reconcile(r)
    PROVE  /\ losers' \in [Routes -> SUBSET Routes] /\ queue' \subseteq Routes
           /\ UnappliedAway' /\ LosersYounger' /\ created' = created
<1> DEFINE o == Outcome(r)
<1>1. /\ r \in queue /\ RouteConfigs' = o.configs /\ created' = created
      /\ queue' = (queue \ {r}) \union o.evicted \union losers[r]
      /\ losers' = [x \in Routes |->
            IF x = r THEN {} ELSE IF x \in o.winners THEN losers[x] \union {r} ELSE losers[x]]
    BY DEF Reconcile
<1>2. /\ EntriesArePairs /\ UnappliedAway /\ LosersYounger /\ queue \subseteq Routes
      /\ losers \in [Routes -> SUBSET Routes] /\ created \in [Routes -> 0..2]
    BY DEF PlacementInv
<1>3. /\ o.evicted \subseteq {e[2] : e \in RouteConfigs}
      /\ o.winners \subseteq {e[2] : e \in RouteConfigs}
      /\ \A x \in o.winners : x \in Routes \ {r} /\ OlderRoute(x, r)
    BY <1>2, OutcomeCases
<1>4. \A e \in RouteConfigs' : e[2] = r \/ e \in RouteConfigs
    BY <1>1, <1>2, OutcomeCases DEF Without
<1> HIDE DEF o
<1>5. losers' \in [Routes -> SUBSET Routes]
    BY <1>1, <1>2
<1>6. created[r] # 0
    BY <1>1, <1>2 DEF UnappliedAway
<1>7. queue' \subseteq Routes
    BY <1>1, <1>2, <1>3 DEF EntriesArePairs
<1>8. ASSUME NEW x \in Routes, created[x] = 0
      PROVE  /\ x \notin queue' /\ losers'[x] = {} /\ \A w \in Routes : x \notin losers'[w]
             /\ \A e \in RouteConfigs' : e[2] # x
    <2>1. /\ x \notin queue /\ losers[x] = {} /\ \A w \in Routes : x \notin losers[w]
          /\ \A e \in RouteConfigs : e[2] # x
        BY <1>2, <1>8 DEF UnappliedAway
    <2>2. x # r /\ x \notin o.evicted /\ x \notin o.winners
        BY <1>3, <1>6, <1>8, <2>1
    <2> QED
        BY <1>1, <1>2, <1>4, <2>1, <2>2
<1>9. UnappliedAway'
    BY <1>1, <1>8 DEF UnappliedAway
<1>10. LosersYounger'
    <2>1. \A a, b : OlderRoute(a, b)' <=> OlderRoute(a, b)
        BY <1>1 DEF OlderRoute
    <2> SUFFICES ASSUME NEW w \in Routes, NEW x \in losers'[w] PROVE OlderRoute(w, x)
        BY <2>1 DEF LosersYounger
    <2>2. x \in losers[w] \/ (w \in o.winners /\ x = r)
        BY <1>1
    <2> QED
        BY <1>2, <1>3, <2>2 DEF LosersYounger
<1> QED
    BY <1>1, <1>5, <1>7, <1>9, <1>10

\* A manifest that is applied was no one's winner or loser before.
LEMMA PlacementApply ==
    ASSUME PlacementInv, NEW r \in Routes, Apply(r)
    PROVE  PlacementInv'
<1>1. /\ created[r] = 0 /\ created' = [created EXCEPT ![r] = 2] /\ queue' = queue \union {r}
      /\ UNCHANGED <<spec, listeners, RouteConfigs, losers>>
    BY DEF Apply
<1>2. created \in [Routes -> 0..2] /\ losers \in [Routes -> SUBSET Routes]
    BY DEF PlacementInv
<1>3. created' \in [Routes -> 0..2] /\ losers' \in [Routes -> SUBSET Routes] /\ queue' \subseteq Routes
    BY <1>1, <1>2 DEF PlacementInv
<1>4. EntriesArePairs' /\ PlacedApart' /\ PlacedBesideStatic'
    BY <1>1 DEF PlacementInv, EntriesArePairs, PlacedApart, PlacedBesideStatic, RouteConflict,
                virtualHostsOverlap, DuplicatesStatic
<1>5. UnappliedAway'
    BY <1>1, <1>2 DEF PlacementInv, UnappliedAway
<1>6. LosersYounger'
    <2> SUFFICES ASSUME NEW w \in Routes, NEW x \in losers[w] PROVE OlderRoute(w, x)'
        BY <1>1 DEF LosersYounger
    <2>1. w # r /\ x # r /\ x \in Routes /\ OlderRoute(w, x)
        BY <1>1, <1>2 DEF PlacementInv, UnappliedAway, LosersYounger
    <2> QED
        BY <1>1, <1>2, <2>1 DEF OlderRoute
<1> QED
    BY <1>1, <1>3, <1>4, <1>5, <1>6 DEF PlacementInv

\* Every step keeps the placement in order.
LEMMA PlacementStep == PlacementInv /\ [Next]_vars => PlacementInv'
<1> SUFFICES ASSUME PlacementInv, [Next]_vars PROVE PlacementInv'
    OBVIOUS
<1>1. CASE Audit \/ UNCHANGED vars
    BY <1>1 DEF Audit, vars, PlacementInv, EntriesArePairs, PlacedApart, PlacedBesideStatic, UnappliedAway,
                LosersYounger, OlderRoute, RouteConflict, virtualHostsOverlap, DuplicatesStatic
<1>2. ASSUME NEW r \in Routes, Reconcile(r) PROVE PlacementInv'
    BY <1>2, PlacedReconcile, LosersReconcile DEF PlacementInv, Reconcile
<1> QED
    BY <1>1, <1>2, PlacementApply DEF Next

\* The matches of the Routes and of the Listeners they name are well-formed.
LEMMA MatchesWellFormed ==
    ASSUME PlacementInv
    PROVE  /\ \A r \in Routes : WellFormed(spec[r].match)
           /\ \A r \in Routes : ToSet(spec[r].refs) \subseteq Names
           /\ \A name \in Names : \A l \in listeners[name] : \A m \in ToSet(l.chains) : WellFormed(m)
<1>1. \A r \in Routes : spec[r] \in Specs
    BY DEF PlacementInv
<1>2. \A r \in Routes : ToSet(spec[r].refs) \subseteq Names
    <2> SUFFICES ASSUME NEW r \in Routes PROVE ToSet(spec[r].refs) \subseteq Names
        OBVIOUS
    <2>1. spec[r].refs \in Seq(Names)
        BY <1>1, PlacementAssumption
    <2> DEFINE refs == spec[r].refs
    <2> HIDE DEF refs
    <2>2. refs \in Seq(Names) => ToSet(refs) \subseteq Names
        BY DEF ToSet
    <2> QED
        BY <2>1, <2>2 DEF refs
<1> QED
    BY <1>1, <1>2, PlacementAssumption DEF PlacementInv

\* Whatever the order of the reconciles, what the Route controller has placed on
\* a node Envoy can tell apart: two Routes of one Listener are filed under no
\* common key, and neither are a Route and a valid chain of its Listener.
PlacedTellApart ==
    /\ \A e, f \in RouteConfigs :
         e[1] = f[1] /\ e[2] # f[2] /\ shareKey(ToSet(spec[e[2]].refs), ToSet(spec[f[2]].refs))
           => Filed(spec[e[2]].match) \intersect Filed(spec[f[2]].match) = {}
    /\ \A e \in RouteConfigs : \A name \in ToSet(spec[e[2]].refs) : \A l \in listeners[name] :
         e[1] \in l.nodes => \A m \in ToSet(l.chains) :
           Valid(m) => Filed(spec[e[2]].match) \intersect Filed(m) = {}

\* What the invariant says in fcm's terms, in Envoy's.
LEMMA InvTellsApart == PlacementInv => PlacedTellApart
<1> SUFFICES ASSUME PlacementInv PROVE PlacedTellApart
    OBVIOUS
<1>1. ASSUME NEW e \in RouteConfigs, NEW f \in RouteConfigs, e[1] = f[1], e[2] # f[2],
             shareKey(ToSet(spec[e[2]].refs), ToSet(spec[f[2]].refs))
      PROVE  Filed(spec[e[2]].match) \intersect Filed(spec[f[2]].match) = {}
    <2>1. ~RouteConflict(e[2], f[2])
        BY <1>1 DEF PlacementInv, PlacedApart
    <2>2. WellFormed(spec[e[2]].match) /\ WellFormed(spec[f[2]].match)
        BY MatchesWellFormed DEF PlacementInv, EntriesArePairs
    <2> QED
        BY <1>1, <2>1, <2>2, DuplicateIsEnvoys DEF RouteConflict
<1>2. ASSUME NEW e \in RouteConfigs, NEW name \in ToSet(spec[e[2]].refs), NEW l \in listeners[name],
             e[1] \in l.nodes, NEW m \in ToSet(l.chains), Valid(m)
      PROVE  Filed(spec[e[2]].match) \intersect Filed(m) = {}
    <2>1. ~DuplicatesStatic(e[2], l)
        BY <1>2 DEF PlacementInv, PlacedBesideStatic
    <2>2. WellFormed(spec[e[2]].match) /\ WellFormed(m)
        BY <1>2, MatchesWellFormed DEF PlacementInv, EntriesArePairs
    <2> QED
        BY <1>2, <2>1, <2>2, DuplicateIsEnvoys DEF DuplicatesStatic
<1> QED
    BY <1>1, <1>2 DEF PlacedTellApart

\* Envoy tells apart the chains of the Routes placed on a node for one Listener,
\* and each of them from the Listener's own.
THEOREM PlacedTold == Spec => []PlacedTellApart
BY PlacementInit, PlacementStep, InvTellsApart, PTL DEF Spec

\* Precedence decides in one direction: no Route waits for one that is younger,
\* so that no two Routes lose to each other.
THEOREM WinnersOlder == Spec => []LosersYounger
<1>1. PlacementInv => LosersYounger
    BY DEF PlacementInv
<1> QED
    BY <1>1, PlacementInit, PlacementStep, PTL DEF Spec

-----------------------------------------------------------------------------
(* What the listener build makes of it *)

\* Sorted finds the list that there is.
LEMMA SortedNodes ==
    ASSUME NEW S \in SUBSET Nat, IsFiniteSet(S)
    PROVE  /\ Sorted(S, <) \in [1..Cardinality(S) -> S] /\ Cardinality(S) \in Nat
           /\ ToSet(Sorted(S, <)) = S
<1> DEFINE R == {p \in S \X S : p[1] < p[2]}
<1>1. \A a, b \in S : <<a, b>> \in R <=> a < b
    OBVIOUS
<1> HIDE DEF R
<1>2. Orders(R, S)
    BY <1>1 DEF Orders
<1>3. PICK s : InOrder(s, S, R)
    BY <1>2, CanSort
<1>4. /\ s \in [1..Cardinality(S) -> S] /\ ToSet(s) = S
      /\ \A i, j \in 1..Cardinality(S) : i < j => s[i] < s[j]
    BY <1>1, <1>3 DEF InOrder
<1> QED
    BY <1>4, FS_CardinalityType DEF Sorted

\* By precedence, the Routes of a node can be listed.
LEMMA SortedRoutes ==
    ASSUME NEW S \in SUBSET Routes, created \in [Routes -> 0..2]
    PROVE  LET s == Sorted(S, OlderRoute) IN
           /\ s \in [1..Cardinality(S) -> S] /\ Cardinality(S) \in Nat /\ ToSet(s) = S
           /\ \A i, j \in 1..Cardinality(S) : i < j => OlderRoute(s[i], s[j])
<1> DEFINE R == {p \in S \X S : OlderRoute(p[1], p[2])}
<1>1. \A a, b \in S : <<a, b>> \in R <=> OlderRoute(a, b)
    OBVIOUS
<1> HIDE DEF R
<1>2. Orders(R, S)
    BY <1>1, PlacementAssumption DEF Orders, OlderRoute
<1>3. IsFiniteSet(S)
    BY PlacementAssumption, FS_Subset
<1>4. PICK s : InOrder(s, S, R)
    BY <1>2, <1>3, CanSort
<1>5. /\ s \in [1..Cardinality(S) -> S] /\ ToSet(s) = S
      /\ \A i, j \in 1..Cardinality(S) : i < j => OlderRoute(s[i], s[j])
    BY <1>1, <1>4 DEF InOrder
<1> QED
    BY <1>3, <1>5, FS_CardinalityType DEF Sorted

\* The audit can list the Routes in its order.
LEMMA SortedAudit ==
    ASSUME created \in [Routes -> 0..2]
    PROVE  LET s == Sorted(Routes, AuditOrder) IN
           /\ s \in [1..Cardinality(Routes) -> Routes] /\ Cardinality(Routes) \in Nat /\ ToSet(s) = Routes
           /\ \A i, j \in 1..Cardinality(Routes) : i < j => AuditOrder(s[i], s[j])
<1> DEFINE R == {p \in Routes \X Routes : AuditOrder(p[1], p[2])}
<1>1. \A a, b \in Routes : <<a, b>> \in R <=> AuditOrder(a, b)
    OBVIOUS
<1> HIDE DEF R
<1>2. Orders(R, Routes)
    BY <1>1, PlacementAssumption DEF Orders, AuditOrder, OlderRoute
<1>3. PICK s : InOrder(s, Routes, R)
    BY <1>2, CanSort, PlacementAssumption
<1>4. /\ s \in [1..Cardinality(Routes) -> Routes] /\ ToSet(s) = Routes
      /\ \A i, j \in 1..Cardinality(Routes) : i < j => AuditOrder(s[i], s[j])
    BY <1>1, <1>3 DEF InOrder
<1> QED
    BY <1>4, FS_CardinalityType, PlacementAssumption DEF Sorted

\* What processRoutes starts from, for the Listener l.
OwnChains(l) == [placed |-> UNION {Add(EmptySet, Compile(m)) : m \in ToSet(l.chains)},
                 routes |-> {}, chains |-> l.chains]

\* The matches there are, and the states of the build over them.
Matches(l) == ToSet(l.chains) \union {spec[r].match : r \in Routes}
Builds(l) ==
    [placed: SUBSET ((UNION {Compile(m).serverNames : m \in Matches(l)}) \X {Compile(m) : m \in Matches(l)}),
     routes: SUBSET Routes, chains: Seq(Matches(l))]

\* A build starts and stays among the builds.
LEMMA BuildsClosed ==
    ASSUME NEW l, l.chains \in Seq(ToSet(l.chains))
    PROVE  /\ OwnChains(l) \in Builds(l)
           /\ \A b \in Builds(l), r \in Routes : AddRoute(b, r) \in Builds(l)
<1> DEFINE M == Matches(l)
           P == (UNION {Compile(m).serverNames : m \in M}) \X {Compile(m) : m \in M}
<1>1. \A m \in M : Add(EmptySet, Compile(m)) \subseteq P
    BY DEF Add, EmptySet
<1>2. ToSet(l.chains) \subseteq M /\ \A r \in Routes : spec[r].match \in M
    BY DEF Matches
<1>3. l.chains \in Seq(M)
    <2>1. Len(l.chains) \in Nat /\ l.chains \in [1..Len(l.chains) -> ToSet(l.chains)]
        OBVIOUS
    <2> HIDE DEF M
    <2>2. l.chains \in [1..Len(l.chains) -> M]
        BY <1>2, <2>1
    <2> QED
        BY <2>1, <2>2
<1>4. Builds(l) = [placed: SUBSET P, routes: SUBSET Routes, chains: Seq(M)]
    BY DEF Builds
<1>5. UNION {Add(EmptySet, Compile(m)) : m \in ToSet(l.chains)} \subseteq P
    BY <1>1, <1>2
<1>6. ASSUME NEW b \in Builds(l), NEW r \in Routes
      PROVE  AddRoute(b, r) \in Builds(l)
    <2> DEFINE m == spec[r].match
    <2>1. m \in M /\ b.placed \subseteq P /\ b.routes \subseteq Routes /\ b.chains \in Seq(M)
        BY <1>2, <1>4, <1>6
    <2>2. Add(b.placed, Compile(m)) \subseteq P
        BY <1>1, <2>1 DEF Add, EmptySet
    <2> HIDE DEF M, P
    <2>3. Append(b.chains, m) \in Seq(M)
        BY <2>1
    <2>4. AddRoute(b, r) = b \/ AddRoute(b, r) = [placed |-> Add(b.placed, Compile(m)),
                                  routes |-> b.routes \union {r}, chains |-> Append(b.chains, m)]
        BY DEF AddRoute
    <2> QED
        BY <1>4, <1>6, <2>1, <2>2, <2>3, <2>4
<1> HIDE DEF M, P
<1> QED
    BY <1>3, <1>4, <1>5, <1>6 DEF OwnChains

\* The states of the build: g[i] is the one after i Routes.
Building(g, name, l, n) ==
    LET routes == getRoutesForNode(name, n) IN
    /\ g[0] = OwnChains(l)
    /\ \A i \in 1..Len(routes) : g[i] = AddRoute(g[i - 1], routes[i])

\* getRoutesForNode lists the Routes placed for a Listener on a node, each once.
LEMMA RoutesForNode ==
    ASSUME NEW name, NEW n, created \in [Routes -> 0..2]
    PROVE  LET routes == getRoutesForNode(name, n)
               S == {r \in Routes : <<n, r>> \in RouteConfigs /\ name \in ToSet(spec[r].refs)}
           IN  /\ Len(routes) \in Nat /\ routes \in [1..Len(routes) -> S] /\ ToSet(routes) = S
               /\ \A i, j \in 1..Len(routes) : i < j => routes[i] # routes[j]
<1> DEFINE S == {r \in Routes : <<n, r>> \in RouteConfigs /\ name \in ToSet(spec[r].refs)}
           routes == Sorted(S, OlderRoute)
<1>1. S \in SUBSET Routes /\ getRoutesForNode(name, n) = routes
    BY DEF getRoutesForNode
<1> HIDE DEF S
<1>2. /\ routes \in [1..Cardinality(S) -> S] /\ Cardinality(S) \in Nat /\ ToSet(routes) = S
      /\ \A i, j \in 1..Cardinality(S) : i < j => OlderRoute(routes[i], routes[j])
    BY <1>1, SortedRoutes
<1> HIDE DEF routes
<1>3. Len(routes) = Cardinality(S)
    BY <1>2
<1>4. \A r \in Routes : ~OlderRoute(r, r)
    BY PlacementAssumption DEF OlderRoute
<1>5. \A i, j \in 1..Len(routes) : i < j => routes[i] # routes[j]
    BY <1>1, <1>2, <1>3, <1>4
<1> QED
    BY <1>1, <1>2, <1>3, <1>5 DEF S

\* processRoutes is the last of the builds that start with the Listener's own
\* chains and take one Route after the other.
LEMMA BuildRuns ==
    ASSUME NEW name, NEW l, NEW n, l.chains \in Seq(ToSet(l.chains)), created \in [Routes -> 0..2]
    PROVE  \E g : Building(g, name, l, n)
                  /\ processRoutes(name, l, n) = g[Len(getRoutesForNode(name, n))]
<1> DEFINE rs == getRoutesForNode(name, n)
           k == Len(rs)
           B == Builds(l)
           F == [i \in 1..k |-> [b \in B |-> AddRoute(b, rs[i])]]
<1>1. k \in Nat /\ \A i \in 1..k : rs[i] \in Routes
    BY RoutesForNode
<1> HIDE DEF rs, k
<1>2. OwnChains(l) \in B /\ \A b \in B, r \in Routes : AddRoute(b, r) \in B
    BY BuildsClosed
<1> HIDE DEF B
<1>3. F \in [1..k -> [B -> B]]
    BY <1>1, <1>2
<1>4. \A i \in 1..k, b \in B : F[i][b] = AddRoute(b, rs[i])
    OBVIOUS
<1> HIDE DEF F
<1>5. PICK g : Recursion(g, B, OwnChains(l), k, F)
    BY <1>1, <1>2, <1>3, RecursionDefined
<1>6. \A i \in 1..k : g[i] = AddRoute(g[i - 1], rs[i])
    <2> TAKE i \in 1..k
    <2>1. i - 1 \in 0..k
        BY <1>1
    <2> QED
        BY <1>4, <1>5, <2>1 DEF Recursion
<1> DEFINE Is(b) == b = [i \in 0..k |-> IF i = 0 THEN OwnChains(l) ELSE AddRoute(b[i - 1], rs[i])]
           c == CHOOSE b : Is(b)
<1>7. Is(g)
    BY <1>1, <1>5, <1>6 DEF Recursion
<1>8. Is(c)
    BY <1>7
<1>9. processRoutes(name, l, n) = c[k]
    BY DEF processRoutes, OwnChains, k, rs
<1> HIDE DEF c
<1>10. c[0] = OwnChains(l)
    BY <1>1, <1>8
<1>11. \A i \in 1..k : c[i] = AddRoute(c[i - 1], rs[i])
    <2> TAKE i \in 1..k
    <2>1. i \in 0..k /\ i # 0
        BY <1>1
    <2> QED
        BY <1>8, <2>1
<1> QED
    BY <1>9, <1>10, <1>11 DEF Building, k, rs

\* A build in order: the index holds its chains, and Envoy tells them apart.
BuildSound(b) ==
    /\ b.placed = UNION {Add(EmptySet, Compile(m)) : m \in ToSet(b.chains)}
    /\ \A i, j \in DOMAIN b.chains : i # j => Filed(b.chains[i]) \intersect Filed(b.chains[j]) = {}

\* processRoutes starts in order: a Listener whose own chains collide is rejected.
LEMMA OwnSound ==
    ASSUME NEW l, l.chains \in Seq(ToSet(l.chains)), StaticOK(l),
           \A m \in Matches(l) : WellFormed(m)
    PROVE  BuildSound(OwnChains(l))
<1> DEFINE cs == l.chains
<1>1. Len(cs) \in Nat /\ DOMAIN cs = 1..Len(cs)
    OBVIOUS
<1>2. ASSUME NEW i \in DOMAIN cs, NEW j \in DOMAIN cs, j < i
      PROVE  Filed(cs[j]) \intersect Filed(cs[i]) = {}
    <2> DEFINE ms == {cs[x] : x \in 1..(i - 1)}
    <2>1. ~HasDuplicate(UNION {Add(EmptySet, Compile(cs[x])) : x \in 1..(i - 1)}, Compile(cs[i]))
        BY DEF StaticOK
    <2>2. {Add(EmptySet, Compile(cs[x])) : x \in 1..(i - 1)} = {Add(EmptySet, Compile(x)) : x \in ms}
        OBVIOUS
    <2>3. j \in 1..(i - 1)
        BY <1>1, <1>2
    <2>4. cs[j] \in ms
        BY <2>3
    <2>5. WellFormed(cs[i]) /\ \A x \in ms : WellFormed(x)
        <3>1. \A x \in DOMAIN cs : cs[x] \in Matches(l)
            BY DEF Matches, ToSet
        <3>2. \A x \in 1..(i - 1) : x \in DOMAIN cs
            BY <1>1
        <3> QED
            BY <3>1, <3>2
    <2> HIDE DEF ms, cs
    <2> QED
        BY <2>1, <2>2, <2>4, <2>5, IndexComplete
<1>3. ASSUME NEW i \in DOMAIN cs, NEW j \in DOMAIN cs, i # j
      PROVE  Filed(cs[i]) \intersect Filed(cs[j]) = {}
    <2>1. i < j \/ j < i
        BY <1>1, <1>3
    <2> QED
        BY <1>2, <2>1
<1> QED
    BY <1>3 DEF BuildSound, OwnChains

\* A Route's chain goes in only if Envoy tells it from those that are there.
LEMMA AddSound ==
    ASSUME NEW l, \A m \in Matches(l) : WellFormed(m),
           NEW b \in Builds(l), BuildSound(b), NEW r \in Routes
    PROVE  BuildSound(AddRoute(b, r))
<1> DEFINE m == spec[r].match
           d == AddRoute(b, r)
           n == Len(b.chains)
<1>1. b.chains \in Seq(Matches(l)) /\ n \in Nat /\ DOMAIN b.chains = 1..n /\ m \in Matches(l)
    BY DEF Builds, Matches
<1>2. CASE ~Valid(m) \/ HasDuplicate(b.placed, Compile(m)) \/ ~spec[r].hcm
    BY <1>2 DEF AddRoute
<1>3. CASE ~(~Valid(m) \/ HasDuplicate(b.placed, Compile(m)) \/ ~spec[r].hcm)
    <2>1. d.placed = Add(b.placed, Compile(m)) /\ d.chains = Append(b.chains, m)
        BY <1>3 DEF AddRoute
    <2> HIDE DEF m, d
    <2>2. /\ DOMAIN d.chains = 1..(n + 1) /\ d.chains[n + 1] = m
          /\ \A i \in 1..n : d.chains[i] = b.chains[i]
        BY <1>1, <2>1
    <2>3. ToSet(d.chains) = ToSet(b.chains) \union {m}
        BY <1>1, <2>2 DEF ToSet
    <2>4. d.placed = UNION {Add(EmptySet, Compile(x)) : x \in ToSet(d.chains)}
        <3>1. b.placed = UNION {Add(EmptySet, Compile(x)) : x \in ToSet(b.chains)}
            BY DEF BuildSound
        <3>2. Add(b.placed, Compile(m)) = b.placed \union Add(EmptySet, Compile(m))
            BY DEF Add, EmptySet
        <3>3. \A e : e \in d.placed
                <=> \E x \in ToSet(d.chains) : e \in Add(EmptySet, Compile(x))
            <4>1. \A e : e \in b.placed
                    <=> \E x \in ToSet(b.chains) : e \in Add(EmptySet, Compile(x))
                BY <3>1
            <4> QED
                BY <2>1, <2>3, <3>2, <4>1
        <3> QED
            BY <3>3
    <2>5. \A x \in ToSet(b.chains) : Filed(x) \intersect Filed(m) = {}
        <3>1. WellFormed(m) /\ \A x \in ToSet(b.chains) : WellFormed(x)
            BY <1>1 DEF ToSet
        <3> QED
            BY <1>3, <3>1, IndexComplete DEF BuildSound
    <2>6. \A i \in 1..n : Filed(b.chains[i]) \intersect Filed(m) = {}
        BY <1>1, <2>5 DEF ToSet
    <2>7. ASSUME NEW i \in 1..(n + 1), NEW j \in 1..(n + 1), i # j
          PROVE  Filed(d.chains[i]) \intersect Filed(d.chains[j]) = {}
        <3>1. CASE i \in 1..n /\ j \in 1..n
            BY <1>1, <2>2, <2>7, <3>1 DEF BuildSound
        <3>2. CASE i = n + 1 /\ j \in 1..n
            BY <2>2, <2>6, <3>2
        <3>3. CASE i \in 1..n /\ j = n + 1
            BY <2>2, <2>6, <3>3
        <3> QED
            BY <1>1, <2>7, <3>1, <3>2, <3>3
    <2>8. BuildSound(d)
        BY <2>2, <2>4, <2>7 DEF BuildSound
    <2> QED
        BY <2>8 DEF d
<1> QED
    BY <1>2, <1>3

\* Every state of a build is sound.
LEMMA BuildingSound ==
    ASSUME NEW g, NEW name, NEW l, NEW n, Building(g, name, l, n), StaticOK(l),
           l.chains \in Seq(ToSet(l.chains)), created \in [Routes -> 0..2],
           \A m \in Matches(l) : WellFormed(m)
    PROVE  \A i \in 0..Len(getRoutesForNode(name, n)) : g[i] \in Builds(l) /\ BuildSound(g[i])
<1> DEFINE rs == getRoutesForNode(name, n)
           k == Len(rs)
           T == {i \in 0..k : g[i] \in Builds(l) /\ BuildSound(g[i])}
<1>1. k \in Nat /\ \A i \in 1..k : rs[i] \in Routes
    BY RoutesForNode
<1>2. g[0] = OwnChains(l) /\ \A i \in 1..k : g[i] = AddRoute(g[i - 1], rs[i])
    BY DEF Building
<1> HIDE DEF rs, k
<1>3. 0 \in T
    BY <1>1, <1>2, OwnSound, BuildsClosed
<1>4. ASSUME NEW i \in 1..k, i - 1 \in T PROVE i \in T
    <2>1. g[i - 1] \in Builds(l) /\ BuildSound(g[i - 1]) /\ i \in 0..k
        BY <1>1, <1>4
    <2>2. AddRoute(g[i - 1], rs[i]) \in Builds(l) /\ BuildSound(AddRoute(g[i - 1], rs[i]))
        BY <1>1, <2>1, BuildsClosed, AddSound
    <2> QED
        BY <1>2, <2>1, <2>2
<1> HIDE DEF T
<1>5. 0..k \subseteq T
    BY <1>1, <1>3, <1>4, Induction
<1> QED
    BY <1>5 DEF T, k, rs

\* The Listener that is built is the one there is.
LEMMA TheListener ==
    ASSUME PlacementInv, NEW b \in Built
    PROVE  LET l == CHOOSE x \in listeners[b[1]] : TRUE IN
           /\ l \in listeners[b[1]] /\ b[2] \in l.nodes /\ StaticOK(l)
           /\ l.chains \in Seq(ToSet(l.chains)) /\ \A m \in Matches(l) : WellFormed(m)
<1>1. PICK l \in listeners[b[1]] : b[2] \in l.nodes /\ StaticOK(l)
    BY DEF Built
<1>2. /\ b[1] \in Names /\ IsFiniteSet(listeners[b[1]]) /\ Cardinality(listeners[b[1]]) <= 1
      /\ l.chains \in Seq(ToSet(l.chains))
    BY PlacementAssumption DEF PlacementInv, Built
<1>3. listeners[b[1]] = {l}
    <2>1. Cardinality(listeners[b[1]]) \in Nat /\ Cardinality(listeners[b[1]]) # 0
        BY <1>1, <1>2, FS_CardinalityType, FS_EmptySet
    <2>2. Cardinality(listeners[b[1]]) = 1
        BY <1>2, <2>1
    <2> QED
        BY <1>1, <1>2, <2>2, FS_Singleton
<1>4. \A m \in Matches(l) : WellFormed(m)
    BY <1>1, <1>2, MatchesWellFormed DEF Matches
<1> QED
    BY <1>1, <1>2, <1>3, <1>4

\* What is built in such a placement is acceptable.
LEMMA InvAcceptable == PlacementInv => BuiltAcceptable
<1> SUFFICES ASSUME PlacementInv, NEW b \in Built
             PROVE  LET chains == Build(b[1], b[2]).chains IN
                    \A i, j \in DOMAIN chains : i # j => Filed(chains[i]) \intersect Filed(chains[j]) = {}
    BY DEF BuiltAcceptable
<1> DEFINE l == CHOOSE x \in listeners[b[1]] : TRUE
           k == Len(getRoutesForNode(b[1], b[2]))
<1>1. /\ StaticOK(l) /\ l.chains \in Seq(ToSet(l.chains)) /\ created \in [Routes -> 0..2]
      /\ \A m \in Matches(l) : WellFormed(m)
    BY TheListener DEF PlacementInv
<1>2. Build(b[1], b[2]) = processRoutes(b[1], l, b[2])
    BY DEF Build
<1> HIDE DEF l
<1>3. PICK g : Building(g, b[1], l, b[2]) /\ processRoutes(b[1], l, b[2]) = g[k]
    BY <1>1, BuildRuns
<1>4. k \in 0..k
    <2>1. k \in Nat
        BY <1>1, RoutesForNode
    <2> QED
        BY <2>1
<1>5. BuildSound(g[k])
    BY <1>1, <1>3, <1>4, BuildingSound
<1> QED
    BY <1>2, <1>3, <1>5 DEF BuildSound

\* Envoy tells the chains of every listener apart that LDS builds, whatever the
\* Routes, the Listener's own chains and the order of the reconciles.
THEOREM BuildsAcceptable == Spec => []BuiltAcceptable
BY PlacementInit, PlacementStep, InvAcceptable, PTL DEF Spec

\* After i Routes, the build has the Listener's chains and those of the i Routes
\* whose HCM converts.
LEMMA NoneSkipped ==
    ASSUME PlacementInv, NEW b \in Built, NEW l \in listeners[b[1]], b[2] \in l.nodes, StaticOK(l),
           l.chains \in Seq(ToSet(l.chains)), \A m \in Matches(l) : WellFormed(m),
           NEW g, Building(g, b[1], l, b[2])
    PROVE  LET routes == getRoutesForNode(b[1], b[2]) IN
           \A i \in 0..Len(routes) : \A j \in 1..i : routes[j] \in g[i].routes \/ ~spec[routes[j]].hcm
<1> DEFINE rs == getRoutesForNode(b[1], b[2])
           k == Len(rs)
           Has(i) == /\ \A x \in ToSet(g[i].chains) :
                          x \in ToSet(l.chains) \/ \E j \in 1..i : x = spec[rs[j]].match
                     /\ \A j \in 1..i : rs[j] \in g[i].routes \/ ~spec[rs[j]].hcm
           T == {i \in 0..k : Has(i)}
<1>1. created \in [Routes -> 0..2] /\ PlacedTellApart /\ PlacedBesideStatic
    BY InvTellsApart DEF PlacementInv
<1>2. /\ k \in Nat
      /\ \A i \in 1..k : rs[i] \in Routes /\ <<b[2], rs[i]>> \in RouteConfigs /\ b[1] \in ToSet(spec[rs[i]].refs)
      /\ \A i, j \in 1..k : i < j => rs[i] # rs[j]
    BY <1>1, RoutesForNode
<1>3. g[0] = OwnChains(l) /\ \A i \in 1..k : g[i] = AddRoute(g[i - 1], rs[i])
    BY DEF Building
<1>4. \A i \in 0..k : g[i] \in Builds(l) /\ BuildSound(g[i])
    BY <1>1, BuildingSound
<1> HIDE DEF rs, k
<1>5. 0 \in T
    BY <1>2, <1>3 DEF OwnChains
<1>6. ASSUME NEW i \in 1..k, i - 1 \in T PROVE i \in T
    <2> DEFINE c == g[i - 1]
               m == spec[rs[i]].match
    <2>1. Has(i - 1) /\ i - 1 \in 0..k /\ i \in 0..k
        BY <1>2, <1>6
    <2>2. c \in Builds(l) /\ BuildSound(c) /\ g[i] = AddRoute(c, rs[i])
        BY <1>3, <1>4, <2>1
    <2>3. Valid(m) /\ ToSet(l.chains) = {l.chains[x] : x \in DOMAIN l.chains}
        BY <1>1, <1>2 DEF PlacedBesideStatic, ToSet
    <2>4. ASSUME NEW x \in ToSet(c.chains) PROVE Filed(x) \intersect Filed(m) = {}
        <3>1. CASE x \in ToSet(l.chains)
            <4>1. Valid(x)
                BY <2>3, <3>1 DEF StaticOK
            <4>2. <<b[2], rs[i]>> \in RouteConfigs /\ b[1] \in ToSet(spec[rs[i]].refs)
                BY <1>2
            <4> QED
                BY <1>1, <3>1, <4>1, <4>2 DEF PlacedTellApart
        <3>2. ASSUME NEW j \in 1..(i - 1), x = spec[rs[j]].match
              PROVE  Filed(x) \intersect Filed(m) = {}
            <4>1. j \in 1..k /\ rs[j] # rs[i]
                BY <1>2, <3>2
            <4>2. /\ <<b[2], rs[i]>> \in RouteConfigs /\ b[1] \in ToSet(spec[rs[i]].refs)
                  /\ <<b[2], rs[j]>> \in RouteConfigs /\ b[1] \in ToSet(spec[rs[j]].refs)
                BY <1>2, <4>1
            <4>3. shareKey(ToSet(spec[rs[j]].refs), ToSet(spec[rs[i]].refs))
                BY <4>2 DEF shareKey
            <4> QED
                BY <1>1, <3>2, <4>1, <4>2, <4>3 DEF PlacedTellApart
        <3> QED
            BY <2>1, <3>1, <3>2
    <2>5. ~HasDuplicate(c.placed, Compile(m))
        <3>1. c.placed = UNION {Add(EmptySet, Compile(x)) : x \in ToSet(c.chains)}
            BY <2>2 DEF BuildSound
        <3>2. ~ \E x \in ToSet(c.chains) : Filed(x) \intersect Filed(m) # {}
            BY <2>4
        <3>4. WellFormed(m) /\ \A x \in ToSet(c.chains) : WellFormed(x)
            <4>1. c.chains \in Seq(Matches(l)) /\ m \in Matches(l)
                BY <1>2, <2>2 DEF Builds, Matches
            <4> HIDE DEF c, m
            <4>2. ToSet(c.chains) \subseteq Matches(l)
                BY <4>1 DEF ToSet
            <4> QED
                BY <4>1, <4>2
        <3> HIDE DEF c, m
        <3>3. HasDuplicate(UNION {Add(EmptySet, Compile(x)) : x \in ToSet(c.chains)}, Compile(m))
                <=> \E x \in ToSet(c.chains) : Filed(x) \intersect Filed(m) # {}
            BY <3>4, IndexComplete
        <3> QED
            BY <3>1, <3>2, <3>3
    <2>6. \/ g[i].routes = c.routes \union {rs[i]} /\ g[i].chains = Append(c.chains, m)
          \/ g[i] = c /\ ~spec[rs[i]].hcm
        BY <2>2, <2>3, <2>5 DEF AddRoute
    <2>7. ToSet(g[i].chains) \subseteq ToSet(c.chains) \union {m}
        <3>1. c.chains \in Seq(Matches(l)) /\ m \in Matches(l)
            BY <1>2, <2>2 DEF Builds, Matches
        <3> SUFFICES ASSUME g[i].chains = Append(c.chains, m)
                     PROVE  ToSet(g[i].chains) \subseteq ToSet(c.chains) \union {m}
            BY <2>6
        <3> HIDE DEF c, m
        <3> DEFINE n == Len(c.chains)
        <3>2. /\ n \in Nat /\ DOMAIN c.chains = 1..n /\ DOMAIN g[i].chains = 1..(n + 1)
              /\ g[i].chains[n + 1] = m /\ \A x \in 1..n : g[i].chains[x] = c.chains[x]
            BY <3>1
        <3> HIDE DEF n
        <3> DEFINE d == g[i].chains
        <3>3. DOMAIN d = 1..(n + 1) /\ d[n + 1] = m /\ \A x \in 1..n : d[x] = c.chains[x]
            BY <3>2
        <3> HIDE DEF d
        <3>4. ToSet(d) \subseteq ToSet(c.chains) \union {m}
            BY <3>2, <3>3 DEF ToSet
        <3> QED
            BY <3>4 DEF d
    <2>8. \A j \in 1..i : j \in 1..(i - 1) \/ j = i
        BY <1>2
    <2>9. \A j \in 1..i : rs[j] \in g[i].routes \/ ~spec[rs[j]].hcm
        BY <2>1, <2>6, <2>8
    <2>10. \A x \in ToSet(g[i].chains) :
             x \in ToSet(l.chains) \/ \E j \in 1..i : x = spec[rs[j]].match
        <3>1. i \in 1..i /\ \A j \in 1..(i - 1) : j \in 1..i
            BY <1>2
        <3> QED
            BY <2>1, <2>7, <3>1
    <2> QED
        BY <2>1, <2>9, <2>10
<1> HIDE DEF T
<1>7. 0..k \subseteq T
    BY <1>2, <1>5, <1>6, Induction
<1> QED
    BY <1>7 DEF T, k, rs

\* In such a placement a build skips a Route for its HCM only.
LEMMA InvServedIsBuilt == PlacementInv => ServedIsBuilt
<1> SUFFICES ASSUME PlacementInv, NEW b \in Built, NEW r \in Routes,
                    <<b[2], r>> \in RouteConfigs, b[1] \in ToSet(spec[r].refs)
             PROVE  r \in Build(b[1], b[2]).routes \/ ~spec[r].hcm
    BY DEF ServedIsBuilt
<1> DEFINE l == CHOOSE x \in listeners[b[1]] : TRUE
           rs == getRoutesForNode(b[1], b[2])
           k == Len(rs)
<1>1. /\ l \in listeners[b[1]] /\ b[2] \in l.nodes /\ StaticOK(l)
      /\ l.chains \in Seq(ToSet(l.chains)) /\ created \in [Routes -> 0..2]
      /\ \A m \in Matches(l) : WellFormed(m)
    BY TheListener DEF PlacementInv
<1>2. Build(b[1], b[2]) = processRoutes(b[1], l, b[2])
    BY DEF Build
<1> HIDE DEF l
<1>3. PICK g : Building(g, b[1], l, b[2]) /\ processRoutes(b[1], l, b[2]) = g[k]
    BY <1>1, BuildRuns
<1>4. k \in Nat /\ k \in 0..k /\ \E j \in 1..k : rs[j] = r
    <2>1. k \in Nat /\ r \in ToSet(rs) /\ DOMAIN rs = 1..k
        BY <1>1, RoutesForNode
    <2> QED
        BY <2>1 DEF ToSet
<1>5. \A j \in 1..k : rs[j] \in g[k].routes \/ ~spec[rs[j]].hcm
    BY <1>1, <1>3, <1>4, NoneSkipped
<1> QED
    BY <1>2, <1>3, <1>4, <1>5

\* Of the Routes that RDS has placed, LDS leaves out only those whose HCM does not
\* convert, which RDS does not look at: the chain of every other is in every
\* listener of its references that is built, never skipped for its match.
THEOREM PlacedIsBuilt == Spec => []ServedIsBuilt
BY PlacementInit, PlacementStep, InvServedIsBuilt, PTL DEF Spec

-----------------------------------------------------------------------------
(* Types *)

\* A recursion whose steps stay in B stays in B.
LEMMA RecursionStays ==
    ASSUME NEW B, NEW k \in Nat, NEW c, c[0] \in B, \A i \in 1..k : c[i - 1] \in B => c[i] \in B
    PROVE  \A i \in 0..k : c[i] \in B
<1> DEFINE T == {i \in 0..k : c[i] \in B}
<1>1. 0 \in T
    OBVIOUS
<1>2. \A i \in 1..k : i - 1 \in T => i \in T
    OBVIOUS
<1> HIDE DEF T
<1>3. 0..k \subseteq T
    BY <1>1, <1>2, Induction
<1> QED
    BY <1>3 DEF T

\* What isListenerExists keeps between two references.
Places == {Default} \union UNION {UNION {x.nodes : x \in listeners[l]} : l \in Names}
Scans == [li: SUBSET Places, exists: BOOLEAN, hit: BOOLEAN]

\* One reference keeps it so.
LEMMA ScanTypes ==
    ASSUME NEW s \in Scans, NEW l \in Names, NEW node
    PROVE  ScanRef(s, l, node) \in Scans
<1> DEFINE li == IF listeners[l] = {} THEN s.li ELSE UNION {x.nodes : x \in listeners[l]}
<1>1. li \in SUBSET Places
    BY DEF Places, Scans
<1>2. /\ (s.exists \/ listeners[l] # {}) \in BOOLEAN
      /\ \A S : (node \in S) \in BOOLEAN
    <2>1. (s.exists \/ listeners[l] # {}) \in BOOLEAN
        OBVIOUS
    <2>2. \A S : (node \in S) \in BOOLEAN
        OBVIOUS
    <2> QED
        BY <2>1, <2>2
<1>3. ScanRef(s, l, node) = IF s.hit THEN s
        ELSE [li |-> li, exists |-> s.exists \/ listeners[l] # {}, hit |-> node \in li]
    BY DEF ScanRef
<1> HIDE DEF li
<1>4. [li |-> li, exists |-> s.exists \/ listeners[l] # {}, hit |-> node \in li] \in Scans
    BY <1>1, <1>2, Zenon DEF Scans
<1> QED
    BY <1>3, <1>4

\* A pass goes through such states, one reference after the other.
LEMMA PassRuns ==
    ASSUME NEW scan \in Scans, NEW node, NEW refs \in Seq(Names)
    PROVE  \E c : /\ ScanRefs(refs, node, scan) = c[Len(refs)]
                  /\ c[0] = [scan EXCEPT !.hit = FALSE]
                  /\ \A i \in 1..Len(refs) : c[i] = ScanRef(c[i - 1], refs[i], node)
                  /\ \A i \in 0..Len(refs) : c[i] \in Scans
<1> DEFINE k == Len(refs)
           s0 == [scan EXCEPT !.hit = FALSE]
           F == [i \in 1..k |-> [s \in Scans |-> ScanRef(s, refs[i], node)]]
<1>1. k \in Nat /\ \A i \in 1..k : refs[i] \in Names
    OBVIOUS
<1>2. s0 \in Scans
    BY DEF Scans
<1> HIDE DEF k, s0
<1>3. F \in [1..k -> [Scans -> Scans]]
    BY <1>1, ScanTypes
<1>4. \A i \in 1..k, s \in Scans : F[i][s] = ScanRef(s, refs[i], node)
    OBVIOUS
<1> HIDE DEF F
<1>5. PICK g : Recursion(g, Scans, s0, k, F)
    BY <1>1, <1>2, <1>3, RecursionDefined
<1>6. \A i \in 1..k : g[i] = ScanRef(g[i - 1], refs[i], node)
    <2> TAKE i \in 1..k
    <2>1. i - 1 \in 0..k
        BY <1>1
    <2> QED
        BY <1>4, <1>5, <2>1 DEF Recursion
<1> DEFINE Is(a) == a = [i \in 0..k |-> IF i = 0 THEN s0 ELSE ScanRef(a[i - 1], refs[i], node)]
           c == CHOOSE a : Is(a)
<1>7. Is(g)
    BY <1>1, <1>5, <1>6 DEF Recursion
<1>8. Is(c)
    BY <1>7
<1>9. ScanRefs(refs, node, scan) = c[k]
    BY DEF ScanRefs, k, s0
<1> HIDE DEF c
<1>10. c[0] \in Scans
    BY <1>1, <1>2, <1>8
<1>11. \A i \in 1..k : c[i] = ScanRef(c[i - 1], refs[i], node)
    <2> TAKE i \in 1..k
    <2>1. i \in 0..k /\ i # 0
        BY <1>1
    <2> QED
        BY <1>8, <2>1
<1>12. \A i \in 1..k : c[i - 1] \in Scans => c[i] \in Scans
    BY <1>1, <1>11, ScanTypes
<1>13. \A i \in 0..k : c[i] \in Scans
    BY <1>1, <1>10, <1>12, RecursionStays
<1>14. c[0] = s0
    BY <1>1, <1>8
<1> QED
    BY <1>9, <1>11, <1>13, <1>14 DEF k, s0

\* A pass over the references ends in such a state.
LEMMA PassTypes ==
    ASSUME NEW scan \in Scans, NEW node, NEW refs \in Seq(Names)
    PROVE  ScanRefs(refs, node, scan) \in Scans
<1>1. PICK c : /\ ScanRefs(refs, node, scan) = c[Len(refs)]
               /\ \A i \in 0..Len(refs) : c[i] \in Scans
    BY PassRuns
<1>2. Len(refs) \in 0..Len(refs)
    OBVIOUS
<1> QED
    BY <1>1, <1>2

\* What the passes over the nodes have when the i-th is done: c[i].
Passing(c, r) ==
    LET nodes == Sorted(spec[r].nodes, <) IN
    /\ c[0] = [scan |-> [li |-> {Default}, exists |-> FALSE, hit |-> FALSE], matched |-> {}]
    /\ \A i \in 1..Len(nodes) : c[i] = ScanNode(c[i - 1], nodes[i], spec[r].refs)
    /\ \A i \in 0..Len(nodes) : c[i] \in [scan: Scans, matched: SUBSET spec[r].nodes]

\* getNodesForRoute is what they have at the end.
LEMMA NodesRun ==
    ASSUME PlacementInv, NEW r \in Routes
    PROVE  LET nodes == Sorted(spec[r].nodes, <) IN
           /\ spec[r].refs \in Seq(Names) /\ Len(nodes) \in Nat
           /\ ToSet(nodes) = spec[r].nodes /\ DOMAIN nodes = 1..Len(nodes)
           /\ \E c : /\ Passing(c, r)
                     /\ getNodesForRoute(r) = IF c[Len(nodes)].scan.exists THEN c[Len(nodes)].matched ELSE {}
<1> DEFINE S == spec[r].nodes
           refs == spec[r].refs
           nodes == Sorted(S, <)
           k == Len(nodes)
           B == [scan: Scans, matched: SUBSET S]
           s0 == [scan |-> [li |-> {Default}, exists |-> FALSE, hit |-> FALSE], matched |-> {}]
           F == [i \in 1..k |-> [s \in B |-> ScanNode(s, nodes[i], refs)]]
<1>1. S \in SUBSET Nat /\ IsFiniteSet(S) /\ refs \in Seq(Names)
    <2>1. spec[r] \in Specs
        BY DEF PlacementInv
    <2>2. S \in SUBSET Nodes /\ refs \in Seq(Names)
        BY <2>1, PlacementAssumption
    <2> QED
        BY <2>2, PlacementAssumption, FS_Subset
<1> HIDE DEF S, refs
<1>2. k \in Nat /\ (\A i \in 1..k : nodes[i] \in S) /\ ToSet(nodes) = S /\ DOMAIN nodes = 1..k
    <2>1. nodes \in [1..Cardinality(S) -> S] /\ Cardinality(S) \in Nat /\ ToSet(nodes) = S
        BY <1>1, SortedNodes
    <2> HIDE DEF nodes
    <2>2. k = Cardinality(S)
        BY <2>1
    <2> QED
        BY <2>1, <2>2
<1> HIDE DEF nodes, k
<1>3. s0 \in B
    <2>1. {Default} \in SUBSET Places /\ FALSE \in BOOLEAN
        BY DEF Places
    <2>2. [li |-> {Default}, exists |-> FALSE, hit |-> FALSE] \in Scans
        BY <2>1, Zenon DEF Scans
    <2> QED
        BY <2>2
<1>4. ASSUME NEW s \in B, NEW i \in 1..k PROVE ScanNode(s, nodes[i], refs) \in B
    <2>1. ScanRefs(refs, nodes[i], s.scan) \in Scans
        BY <1>1, <1>4, PassTypes
    <2> QED
        BY <1>2, <1>4, <2>1 DEF ScanNode
<1> HIDE DEF B, s0
<1>5. F \in [1..k -> [B -> B]]
    BY <1>4
<1>6. \A i \in 1..k, s \in B : F[i][s] = ScanNode(s, nodes[i], refs)
    OBVIOUS
<1> HIDE DEF F
<1>7. PICK g : Recursion(g, B, s0, k, F)
    BY <1>2, <1>3, <1>5, RecursionDefined
<1>8. \A i \in 1..k : g[i] = ScanNode(g[i - 1], nodes[i], refs)
    <2> TAKE i \in 1..k
    <2>1. i - 1 \in 0..k
        BY <1>2
    <2> QED
        BY <1>6, <1>7, <2>1 DEF Recursion
<1> DEFINE Is(a) == a = [i \in 0..k |-> IF i = 0 THEN s0 ELSE ScanNode(a[i - 1], nodes[i], refs)]
           c == CHOOSE a : Is(a)
<1>9. Is(g)
    BY <1>2, <1>7, <1>8 DEF Recursion
<1>10. Is(c)
    BY <1>9
<1>11. getNodesForRoute(r) = IF c[k].scan.exists THEN c[k].matched ELSE {}
    BY DEF getNodesForRoute, k, nodes, s0, S, refs
<1> HIDE DEF c
<1>12. c[0] \in B
    BY <1>2, <1>3, <1>10
<1>13. \A i \in 1..k : c[i] = ScanNode(c[i - 1], nodes[i], refs)
    <2> TAKE i \in 1..k
    <2>1. i \in 0..k /\ i # 0
        BY <1>2
    <2> QED
        BY <1>10, <2>1
<1>14. \A i \in 1..k : c[i - 1] \in B => c[i] \in B
    BY <1>4, <1>13
<1>15. \A i \in 0..k : c[i] \in B
    BY <1>2, <1>12, <1>14, RecursionStays
<1>16. c[0] = s0
    BY <1>2, <1>10
<1>17. Passing(c, r)
    BY <1>13, <1>15, <1>16 DEF Passing, B, S, refs, nodes, k, s0
<1> QED
    BY <1>1, <1>2, <1>11, <1>17 DEF S, refs, nodes, k

\* A Route is placed on nodes that it names only.
LEMMA PlacedOnOwnNodes ==
    ASSUME PlacementInv, NEW r \in Routes
    PROVE  getNodesForRoute(r) \subseteq spec[r].nodes
<1> DEFINE k == Len(Sorted(spec[r].nodes, <))
<1>1. PICK c : /\ k \in Nat /\ Passing(c, r)
               /\ getNodesForRoute(r) = IF c[k].scan.exists THEN c[k].matched ELSE {}
    BY NodesRun
<1>2. k \in 0..k
    <2> HIDE DEF k
    <2> QED
        BY <1>1
<1>3. c[k] \in [scan: Scans, matched: SUBSET spec[r].nodes]
    BY <1>1, <1>2 DEF Passing
<1> HIDE DEF k
<1> QED
    BY <1>1, <1>3

\* What the audit's replay has placed after the i-th Route: c[i].
Replaying(c) ==
    LET routes == Sorted(Routes, AuditOrder) IN
    /\ c[0] = {}
    /\ \A i \in 1..Len(routes) : c[i] = AuditRoute(c[i - 1], routes[i])
    /\ \A i \in 0..Len(routes) : c[i] \in SUBSET (Nodes \X Routes)

\* AuditServed is what it has at the end.
LEMMA AuditRuns ==
    ASSUME PlacementInv
    PROVE  LET routes == Sorted(Routes, AuditOrder) IN
           /\ Len(routes) \in Nat
           /\ \E c : Replaying(c) /\ AuditServed = c[Len(routes)]
<1> DEFINE rs == Sorted(Routes, AuditOrder)
           k == Len(rs)
           B == SUBSET (Nodes \X Routes)
           F == [i \in 1..k |-> [s \in B |-> AuditRoute(s, rs[i])]]
<1>1. k \in Nat /\ \A i \in 1..k : rs[i] \in Routes
    <2>1. rs \in [1..Cardinality(Routes) -> Routes] /\ Cardinality(Routes) \in Nat
        BY SortedAudit DEF PlacementInv
    <2> HIDE DEF rs
    <2> QED
        BY <2>1
<1> HIDE DEF rs, k
<1>2. ASSUME NEW s \in B, NEW r \in Routes PROVE AuditRoute(s, r) \in B
    <2>1. routeNodes(r) \subseteq Nodes
        <3>1. spec[r] \in Specs
            BY DEF PlacementInv
        <3> QED
            BY <3>1, PlacementAssumption DEF routeNodes
    <2> QED
        BY <2>1 DEF AuditRoute
<1>3. {} \in B
    OBVIOUS
<1> HIDE DEF B
<1>4. F \in [1..k -> [B -> B]]
    BY <1>1, <1>2
<1>5. \A i \in 1..k, s \in B : F[i][s] = AuditRoute(s, rs[i])
    OBVIOUS
<1> HIDE DEF F
<1>6. PICK g : Recursion(g, B, {}, k, F)
    BY <1>1, <1>3, <1>4, RecursionDefined
<1>7. \A i \in 1..k : g[i] = AuditRoute(g[i - 1], rs[i])
    <2> TAKE i \in 1..k
    <2>1. i - 1 \in 0..k
        BY <1>1
    <2> QED
        BY <1>5, <1>6, <2>1 DEF Recursion
<1> DEFINE Is(a) == a = [i \in 0..k |-> IF i = 0 THEN {} ELSE AuditRoute(a[i - 1], rs[i])]
           c == CHOOSE a : Is(a)
<1>8. Is(g)
    BY <1>1, <1>6, <1>7 DEF Recursion
<1>9. Is(c)
    BY <1>8
<1>10. AuditServed = c[k]
    BY DEF AuditServed, k, rs
<1> HIDE DEF c
<1>11. c[0] \in B
    BY <1>1, <1>3, <1>9
<1>12. \A i \in 1..k : c[i] = AuditRoute(c[i - 1], rs[i])
    <2> TAKE i \in 1..k
    <2>1. i \in 0..k /\ i # 0
        BY <1>1
    <2> QED
        BY <1>9, <2>1
<1>13. \A i \in 1..k : c[i - 1] \in B => c[i] \in B
    BY <1>1, <1>2, <1>12
<1>14. \A i \in 0..k : c[i] \in B
    BY <1>1, <1>11, <1>13, RecursionStays
<1>15. c[0] = {}
    BY <1>1, <1>9
<1>16. Replaying(c)
    BY <1>12, <1>14, <1>15 DEF Replaying, B, rs, k
<1> QED
    BY <1>1, <1>10, <1>16 DEF k, rs

\* The audit's replay places Routes on nodes.
LEMMA AuditTypes ==
    ASSUME PlacementInv
    PROVE  AuditServed \in SUBSET (Nodes \X Routes)
<1> DEFINE k == Len(Sorted(Routes, AuditOrder))
<1>1. PICK c : k \in Nat /\ Replaying(c) /\ AuditServed = c[k]
    BY AuditRuns
<1>2. k \in 0..k
    BY <1>1
<1> QED
    BY <1>1, <1>2 DEF Replaying

\* Every variable has its type, and losers are younger than their winners.
THEOREM TypeCorrect == Spec => []TypeOK
<1> DEFINE Placed == RouteConfigs \subseteq Nodes \X Routes /\ report \subseteq SUBSET (Nodes \X Routes)
<1>1. Init => Placed
    BY DEF Init
<1>2. PlacementInv /\ Placed /\ [Next]_vars => Placed'
    <2> SUFFICES ASSUME PlacementInv, Placed, [Next]_vars PROVE Placed'
        OBVIOUS
    <2>1. CASE UNCHANGED vars
        BY <2>1 DEF vars
    <2>2. CASE Audit
        BY <2>2, AuditTypes DEF Audit
    <2>3. ASSUME NEW r \in Routes, Apply(r) PROVE Placed'
        BY <2>3 DEF Apply
    <2>4. ASSUME NEW r \in Routes, Reconcile(r) PROVE Placed'
        <3>1. getNodesForRoute(r) \subseteq Nodes
            <4>1. spec[r] \in Specs
                BY DEF PlacementInv
            <4> QED
                BY <4>1, PlacedOnOwnNodes, PlacementAssumption
        <3>2. \A rs : Without(rs) \subseteq RouteConfigs
            BY DEF Without
        <3>3. Outcome(r).configs \in {RouteConfigs, Without({r}),
                Without({r} \union findConflicts(r, getNodesForRoute(r))) \union (getNodesForRoute(r) \X {r})}
            BY DEF Outcome
        <3>4. Outcome(r).configs \subseteq Nodes \X Routes
            BY <3>1, <3>2, <3>3
        <3> QED
            BY <2>4, <3>4 DEF Reconcile
    <2> QED
        BY <2>1, <2>2, <2>3, <2>4 DEF Next
<1>3. PlacementInv /\ Placed => TypeOK
    BY DEF PlacementInv, TypeOK, LosersYounger
<1> HIDE DEF Placed
<1> QED
    BY <1>1, <1>2, <1>3, PlacementInit, PlacementStep, PTL DEF Spec

-----------------------------------------------------------------------------
(* Where RDS settles *)

\* S is the placement by precedence, on the nodes N: a Route is on all of them,
\* unless a chain of a Listener or an older Route in S is in its way.
ByPrecedence(S, N) ==
    \A r \in Routes, n \in Nodes :
        <<n, r>> \in S <=>
            /\ n \in N[r] /\ Valid(spec[r].match) /\ ~staticChainConflict(r, N[r])
            /\ ~ \E x \in Routes : /\ AuditOrder(x, r) /\ RouteConflict(x, r)
                                   /\ \E p \in N[r] : <<p, x>> \in S

ServedNodes == [r \in Routes |-> getNodesForRoute(r)]

\* A Route that is served unless an older one is in its way.
Eligible(r) ==
    LET nodes == getNodesForRoute(r)
    IN  Valid(spec[r].match) /\ nodes # {} /\ ~staticChainConflict(r, nodes)

\* The manifest that comes last is the only Route not created at time 1.
OneManifest == \A a, b \in Routes : created[a] # 1 /\ created[b] # 1 => a = b

\* Who is served is served on all its nodes, and eligible.
ServedWhole ==
    \A r \in Routes, n \in Nodes : <<n, r>> \in RouteConfigs =>
        Eligible(r) /\ \A p \in Nodes : <<p, r>> \in RouteConfigs <=> p \in getNodesForRoute(r)

\* Who is eligible and neither served nor queued is a loser of a Route that is
\* queued, or served and in its way.
Waits(r, w) == r \in losers[w] /\ (w \in queue \/ w \in findConflicts(r, getNodesForRoute(r)))
LosersWait ==
    \A r \in Routes :
        created[r] # 0 /\ r \notin queue /\ Eligible(r) /\ (\A n \in Nodes : <<n, r>> \notin RouteConfigs)
            => \E w \in Routes : Waits(r, w)

SettleInv == RouteConfigs \subseteq Nodes \X Routes /\ OneManifest /\ ServedWhole /\ LosersWait

\* Routes and Listeners stay as they are, and with them the nodes and the conflicts.
LEMMA Unchanging ==
    ASSUME UNCHANGED <<spec, listeners>>, NEW r
    PROVE  /\ getNodesForRoute(r)' = getNodesForRoute(r) /\ routeNodes(r)' = routeNodes(r)
           /\ Eligible(r)' <=> Eligible(r)
           /\ \A x : RouteConflict(r, x)' <=> RouteConflict(r, x)
           /\ \A N : staticChainConflict(r, N)' <=> staticChainConflict(r, N)
<1>1. spec' = spec /\ listeners' = listeners
    OBVIOUS
<1>2. getNodesForRoute(r)' = getNodesForRoute(r)
    BY <1>1 DEF getNodesForRoute, ScanNode, ScanRefs, ScanRef, Sorted
<1>3. routeNodes(r)' = routeNodes(r)
    BY <1>1 DEF routeNodes
<1>4. \A x : RouteConflict(r, x)' <=> RouteConflict(r, x)
    BY <1>1 DEF RouteConflict, virtualHostsOverlap
<1>5. \A N : staticChainConflict(r, N)' <=> staticChainConflict(r, N)
    BY <1>1 DEF staticChainConflict, DuplicatesStatic
<1>6. Eligible(r)' <=> Eligible(r)
    BY <1>1, <1>2, <1>5 DEF Eligible
<1> QED
    BY <1>2, <1>3, <1>4, <1>5, <1>6

\* A reconcile of a Route that is not eligible takes it away; one of a Route with
\* an older one in its way makes it a loser; one of any other places it.
LEMMA ReconcileCases ==
    ASSUME NEW r \in Routes, Reconcile(r)
    PROVE  LET nodes == getNodesForRoute(r)
               conflicts == findConflicts(r, nodes)
               winners == Losing(r, conflicts)
           IN  \/ /\ ~Eligible(r) /\ queue' = (queue \ {r}) \union losers[r]
                  /\ RouteConfigs' = Without({r}) \/ (~Valid(spec[r].match) /\ RouteConfigs' = RouteConfigs)
                  /\ losers' = [x \in Routes |-> IF x = r THEN {} ELSE losers[x]]
               \/ /\ Eligible(r) /\ winners # {} /\ queue' = (queue \ {r}) \union losers[r]
                  /\ RouteConfigs' = Without({r})
                  /\ losers' = [x \in Routes |-> IF x = r THEN {}
                                  ELSE IF x \in winners THEN losers[x] \union {r} ELSE losers[x]]
               \/ /\ Eligible(r) /\ winners = {} /\ queue' = (queue \ {r}) \union conflicts \union losers[r]
                  /\ RouteConfigs' = Without({r} \union conflicts) \union (nodes \X {r})
                  /\ losers' = [x \in Routes |-> IF x = r THEN {} ELSE losers[x]]
<1> DEFINE nodes == getNodesForRoute(r)
           conflicts == findConflicts(r, nodes)
           winners == Losing(r, conflicts)
           o == Outcome(r)
<1>1. /\ RouteConfigs' = o.configs /\ queue' = (queue \ {r}) \union o.evicted \union losers[r]
      /\ losers' = [x \in Routes |->
            IF x = r THEN {} ELSE IF x \in o.winners THEN losers[x] \union {r} ELSE losers[x]]
    BY DEF Reconcile
<1>2. Eligible(r) <=> Valid(spec[r].match) /\ ~(nodes = {} \/ staticChainConflict(r, nodes))
    BY DEF Eligible
<1>3. o = IF ~Valid(spec[r].match)
          THEN [configs |-> RouteConfigs, evicted |-> {}, winners |-> {}]
          ELSE IF nodes = {} \/ staticChainConflict(r, nodes)
          THEN [configs |-> Without({r}), evicted |-> {}, winners |-> {}]
          ELSE IF winners # {}
          THEN [configs |-> Without({r}), evicted |-> {}, winners |-> winners]
          ELSE [configs |-> Without({r} \union conflicts) \union (nodes \X {r}),
                evicted |-> conflicts, winners |-> {}]
    BY DEF Outcome
<1> HIDE DEF nodes, conflicts, winners, o
<1>4. CASE ~Valid(spec[r].match)
    <2>1. o.configs = RouteConfigs /\ o.evicted = {} /\ o.winners = {}
        BY <1>3, <1>4
    <2> QED
        BY <1>1, <1>2, <1>4, <2>1 DEF winners, conflicts, nodes
<1>5. CASE Valid(spec[r].match) /\ (nodes = {} \/ staticChainConflict(r, nodes))
    <2>1. o.configs = Without({r}) /\ o.evicted = {} /\ o.winners = {}
        BY <1>3, <1>5
    <2> QED
        BY <1>1, <1>2, <1>5, <2>1 DEF winners, conflicts, nodes
<1>6. CASE Eligible(r) /\ winners # {}
    <2>1. o.configs = Without({r}) /\ o.evicted = {} /\ o.winners = winners
        BY <1>2, <1>3, <1>6
    <2> QED
        BY <1>1, <1>6, <2>1 DEF winners, conflicts, nodes
<1>7. CASE Eligible(r) /\ winners = {}
    <2>1. /\ o.configs = Without({r} \union conflicts) \union (nodes \X {r})
          /\ o.evicted = conflicts /\ o.winners = {}
        BY <1>2, <1>3, <1>7
    <2> QED
        BY <1>1, <1>7, <2>1 DEF winners, conflicts, nodes
<1> QED
    BY <1>2, <1>4, <1>5, <1>6, <1>7

\* A reconcile moves whole Routes.
LEMMA ServedWholeReconcile ==
    ASSUME PlacementInv, SettleInv, NEW r \in Routes, Reconcile(r)
    PROVE  RouteConfigs' \subseteq Nodes \X Routes /\ ServedWhole'
<1> DEFINE nodes == getNodesForRoute(r)
           conflicts == findConflicts(r, nodes)
<1>1. UNCHANGED <<spec, listeners>>
    BY DEF Reconcile
<1>2. nodes \subseteq Nodes
    <2>1. spec[r] \in Specs
        BY DEF PlacementInv
    <2> QED
        BY <2>1, PlacedOnOwnNodes, PlacementAssumption
<1>3. RouteConfigs \subseteq Nodes \X Routes /\ ServedWhole
    BY DEF SettleInv
<1>4. \A x : Eligible(x)' <=> Eligible(x)
    BY <1>1, Unchanging
<1>5. \A x : getNodesForRoute(x)' = getNodesForRoute(x)
    BY <1>1, Unchanging
<1>6. \E gone \in SUBSET Routes :
        \/ RouteConfigs' = Without(gone)
        \/ /\ RouteConfigs' = Without(gone) \union (nodes \X {r}) /\ Eligible(r) /\ r \in gone
    <2>1. conflicts \subseteq Routes
        BY DEF findConflicts
    <2>2. RouteConfigs = Without({})
        BY DEF Without
    <2>3. {} \in SUBSET Routes /\ {r} \in SUBSET Routes /\ {r} \union conflicts \in SUBSET Routes
        BY <2>1
    <2>4. \/ RouteConfigs' = Without({}) \/ RouteConfigs' = Without({r})
          \/ RouteConfigs' = Without({r} \union conflicts) \union (nodes \X {r}) /\ Eligible(r)
        BY <2>2, ReconcileCases
    <2> HIDE DEF conflicts, nodes
    <2> QED
        BY <2>3, <2>4
<1>7. PICK gone \in SUBSET Routes :
        \/ RouteConfigs' = Without(gone)
        \/ RouteConfigs' = Without(gone) \union (nodes \X {r}) /\ Eligible(r) /\ r \in gone
    BY <1>6
<1>8. \A x \in Routes, n \in Nodes : <<n, x>> \in Without(gone) <=> <<n, x>> \in RouteConfigs /\ x \notin gone
    BY DEF Without
<1>9. Without(gone) \subseteq RouteConfigs
    BY DEF Without
<1> HIDE DEF nodes
<1>10. RouteConfigs' \subseteq Nodes \X Routes
    BY <1>2, <1>3, <1>7, <1>9
<1>11. ASSUME NEW x \in Routes, NEW n \in Nodes, <<n, x>> \in RouteConfigs'
       PROVE  Eligible(x) /\ \A p \in Nodes : <<p, x>> \in RouteConfigs' <=> p \in getNodesForRoute(x)
    <2>1. CASE <<n, x>> \in Without(gone)
        <3>1. /\ x \notin gone /\ Eligible(x)
              /\ \A p \in Nodes : <<p, x>> \in RouteConfigs <=> p \in getNodesForRoute(x)
            BY <1>3, <1>8, <2>1 DEF ServedWhole
        <3>2. \A p \in Nodes : <<p, x>> \in RouteConfigs' <=> <<p, x>> \in Without(gone)
            BY <1>7, <3>1
        <3> QED
            BY <1>8, <3>1, <3>2
    <2>2. CASE <<n, x>> \notin Without(gone)
        <3>1. RouteConfigs' = Without(gone) \union (nodes \X {r}) /\ Eligible(r) /\ r \in gone /\ x = r
            BY <1>7, <1>11, <2>2
        <3>2. \A p \in Nodes : <<p, x>> \in RouteConfigs' <=> p \in nodes
            BY <1>8, <3>1
        <3> QED
            BY <3>1, <3>2 DEF nodes
    <2> QED
        BY <2>1, <2>2
<1> QED
    BY <1>4, <1>5, <1>10, <1>11 DEF ServedWhole

\* findConflicts, entry by entry.
LEMMA InTheWay ==
    ASSUME RouteConfigs \subseteq Nodes \X Routes, NEW r \in Routes, NEW N
    PROVE  \A x : x \in findConflicts(r, N) <=>
             /\ x \in Routes /\ x # r /\ RouteConflict(r, x)
             /\ \E n \in N \intersect Nodes : <<n, x>> \in RouteConfigs
<1>1. \A n, x : <<n, x>> \in RouteConfigs => n \in Nodes
    OBVIOUS
<1> QED
    BY <1>1 DEF findConflicts

\* Who waits goes on waiting, is queued again, or is served.
LEMMA LosersWaitReconcile ==
    ASSUME PlacementInv, SettleInv, NEW r \in Routes, Reconcile(r)
    PROVE  LosersWait'
<1> DEFINE nodes == getNodesForRoute(r)
           conflicts == findConflicts(r, nodes)
           winners == Losing(r, conflicts)
<1>1. UNCHANGED <<spec, listeners, created>>
    BY DEF Reconcile
<1>2. /\ RouteConfigs \subseteq Nodes \X Routes /\ LosersWait
      /\ losers \in [Routes -> SUBSET Routes]
    BY DEF SettleInv, PlacementInv
<1>3. RouteConfigs' \subseteq Nodes \X Routes
    BY ServedWholeReconcile
<1>4. \A x : Eligible(x)' <=> Eligible(x)
    BY <1>1, Unchanging
<1>5. \A x : getNodesForRoute(x)' = getNodesForRoute(x)
    BY <1>1, Unchanging
<1>6. \A x, y : RouteConflict(x, y)' <=> RouteConflict(x, y)
    BY <1>1, Unchanging
<1>7. ASSUME NEW x \in Routes, NEW w \in Routes \ {r},
             w \in findConflicts(x, getNodesForRoute(x)),
             \A n \in Nodes : <<n, w>> \in RouteConfigs => <<n, w>> \in RouteConfigs'
      PROVE  w \in findConflicts(x, getNodesForRoute(x))'
    BY <1>2, <1>3, <1>5, <1>6, <1>7, InTheWay DEF findConflicts
<1>8. \A w \in Routes, n \in Nodes :
        <<n, w>> \in RouteConfigs /\ w # r /\ w \notin conflicts => <<n, w>> \in RouteConfigs'
    BY ReconcileCases DEF Without
<1>9. \A w \in Routes \ {r} : losers[w] \subseteq losers'[w]
    BY <1>2, ReconcileCases
<1>10. (queue \ {r}) \union losers[r] \subseteq queue'
    BY ReconcileCases
<1>11. \/ conflicts \subseteq queue'
       \/ \A w \in Routes, n \in Nodes : <<n, w>> \in RouteConfigs /\ w # r => <<n, w>> \in RouteConfigs'
    BY ReconcileCases DEF Without
<1> SUFFICES ASSUME NEW x \in Routes, created[x] # 0, x \notin queue', Eligible(x),
                    \A n \in Nodes : <<n, x>> \notin RouteConfigs'
             PROVE  \E w \in Routes : Waits(x, w)'
    BY <1>1, <1>4 DEF LosersWait
<1>12. CASE x = r
    <2>1. CASE winners # {}
        <3>1. PICK w \in winners : TRUE
            BY <2>1
        <3>2. w \in conflicts /\ w \in Routes \ {r}
            BY <3>1 DEF Losing, findConflicts
        <3>3. r \in losers'[w] /\ \A n \in Nodes : <<n, w>> \in RouteConfigs => <<n, w>> \in RouteConfigs'
            BY <1>2, <1>12, <2>1, <3>1, <3>2, ReconcileCases DEF Without
        <3>4. w \in findConflicts(x, getNodesForRoute(x))'
            BY <1>7, <1>12, <3>2, <3>3
        <3> QED
            BY <1>12, <3>2, <3>3, <3>4 DEF Waits
    <2>2. CASE winners = {}
        <3>1. RouteConfigs' = Without({r} \union conflicts) \union (nodes \X {r}) /\ nodes # {}
            BY <1>12, <2>2, ReconcileCases DEF Eligible
        <3>2. PICK n \in nodes : <<n, r>> \in RouteConfigs'
            BY <3>1
        <3> QED
            BY <1>3, <1>12, <3>2
    <2> QED
        BY <2>1, <2>2
<1>13. CASE x # r
    <2>1. x \notin queue /\ x \notin losers[r]
        BY <1>10, <1>13
    <2>2. \A n \in Nodes : <<n, x>> \notin RouteConfigs
        <3>1. x \notin conflicts \/ \A n \in Nodes : <<n, x>> \in RouteConfigs => <<n, x>> \in RouteConfigs'
            BY <1>11, <1>13
        <3> QED
            BY <1>8, <1>13, <3>1
    <2>3. PICK w \in Routes : Waits(x, w)
        BY <1>2, <2>1, <2>2 DEF LosersWait
    <2>4. w \in Routes \ {r} /\ x \in losers'[w]
        BY <1>9, <2>1, <2>3 DEF Waits
    <2>5. CASE w \in queue
        BY <1>10, <2>4, <2>5 DEF Waits
    <2>6. CASE w \in findConflicts(x, getNodesForRoute(x))
        <3>1. CASE w \in queue'
            BY <2>4, <3>1 DEF Waits
        <3>2. CASE w \notin queue'
            <4>1. \A n \in Nodes : <<n, w>> \in RouteConfigs => <<n, w>> \in RouteConfigs'
                BY <1>8, <1>11, <2>4, <3>2
            <4> QED
                BY <1>7, <2>4, <2>6, <4>1 DEF Waits
        <3> QED
            BY <3>1, <3>2
    <2> QED
        BY <2>3, <2>5, <2>6 DEF Waits
<1> HIDE DEF nodes, conflicts, winners
<1> QED
    BY <1>12, <1>13

\* At most one Route is a manifest, at first not applied.
LEMMA ManifestInit == Init => OneManifest
<1> SUFFICES ASSUME Init, NEW a \in Routes, NEW b \in Routes, created[a] # 1, created[b] # 1
             PROVE  a = b
    BY DEF OneManifest
<1> DEFINE Z == {r \in Routes : created[r] = 0}
<1>1. created \in [Routes -> {0, 1}] /\ Cardinality(Z) <= 1
    BY DEF Init
<1>2. a \in Z /\ b \in Z
    BY <1>1
<1>3. IsFiniteSet(Z)
    BY PlacementAssumption, FS_Subset
<1>4. Cardinality(Z) \in Nat /\ (Cardinality(Z) = 0 <=> Z = {})
    BY <1>3, FS_CardinalityType, FS_EmptySet
<1>5. Cardinality(Z) = 1
    BY <1>1, <1>2, <1>4
<1>6. PICK z : Z = {z}
    BY <1>3, <1>5, FS_Singleton
<1> QED
    BY <1>2, <1>6

\* At first everybody who is created is queued.
LEMMA SettleInit == Init => SettleInv
<1> SUFFICES ASSUME Init PROVE SettleInv
    OBVIOUS
<1>1. RouteConfigs = {} /\ \A r \in Routes : created[r] # 0 => r \in queue
    BY DEF Init
<1> QED
    BY <1>1, ManifestInit DEF SettleInv, ServedWhole, LosersWait

\* Every step keeps it so.
LEMMA SettleStep == PlacementInv /\ SettleInv /\ [Next]_vars => SettleInv'
<1> SUFFICES ASSUME PlacementInv, SettleInv, [Next]_vars PROVE SettleInv'
    OBVIOUS
<1>1. ASSUME NEW r \in Routes, Reconcile(r) PROVE SettleInv'
    <2>1. created' = created /\ OneManifest
        BY <1>1 DEF Reconcile, SettleInv
    <2> QED
        BY <1>1, <2>1, ServedWholeReconcile, LosersWaitReconcile DEF SettleInv, OneManifest
<1>2. ASSUME UNCHANGED <<spec, listeners, RouteConfigs, losers>>, queue \subseteq queue',
             \A x \in Routes : created'[x] = created[x] \/ x \in queue', OneManifest'
      PROVE  SettleInv'
    <2>1. \A x : Eligible(x)' <=> Eligible(x)
        BY <1>2, Unchanging
    <2>2. \A x : getNodesForRoute(x)' = getNodesForRoute(x)
        BY <1>2, Unchanging
    <2>3. \A x, y : RouteConflict(x, y)' <=> RouteConflict(x, y)
        BY <1>2, Unchanging
    <2>4. \A x, N : findConflicts(x, N)' = findConflicts(x, N)
        BY <1>2, <2>3 DEF findConflicts
    <2>5. ServedWhole'
        BY <1>2, <2>1, <2>2 DEF SettleInv, ServedWhole
    <2>6. LosersWait'
        <3>1. \A x, w : Waits(x, w) => Waits(x, w)'
            BY <1>2, <2>2, <2>4 DEF Waits
        <3> QED
            BY <1>2, <2>1, <3>1 DEF SettleInv, LosersWait
    <2> QED
        BY <1>2, <2>5, <2>6 DEF SettleInv
<1>3. CASE Audit \/ UNCHANGED vars
    <2>1. UNCHANGED <<spec, listeners, RouteConfigs, losers, queue, created>>
        BY <1>3 DEF Audit, vars
    <2>2. OneManifest'
        BY <2>1 DEF SettleInv, OneManifest
    <2> QED
        BY <1>2, <2>1, <2>2
<1>4. ASSUME NEW r \in Routes, Apply(r) PROVE SettleInv'
    <2>1. /\ created[r] = 0 /\ created' = [created EXCEPT ![r] = 2] /\ queue' = queue \union {r}
          /\ UNCHANGED <<spec, listeners, RouteConfigs, losers>>
        BY <1>4 DEF Apply
    <2>2. created \in [Routes -> 0..2]
        BY DEF PlacementInv
    <2>3. \A x \in Routes : created'[x] = created[x] \/ x \in queue'
        BY <2>1, <2>2
    <2>4. OneManifest'
        BY <2>1, <2>2 DEF SettleInv, OneManifest
    <2> QED
        BY <1>2, <2>1, <2>3, <2>4
<1> QED
    BY <1>1, <1>3, <1>4 DEF Next

\* Once the queue is empty and every Route applied, the placement is the one by
\* precedence, whatever the order of the reconciles, evictions and requeues was.
SettlesByPrecedence ==
    queue = {} /\ (\A r \in Routes : created[r] # 0) => ByPrecedence(RouteConfigs, ServedNodes)

\* Precedence decides between any two Routes, in one direction.
LEMMA PrecedenceTotal ==
    ASSUME created \in [Routes -> 0..2], NEW a \in Routes, NEW b \in Routes
    PROVE  /\ ~AuditOrder(a, a) /\ (a # b => AuditOrder(a, b) \/ AuditOrder(b, a))
           /\ ~(AuditOrder(a, b) /\ AuditOrder(b, a))
           /\ created[a] # 0 /\ created[b] # 0 => (AuditOrder(a, b) <=> OlderRoute(a, b))
<1>1. created[a] \in 0..2 /\ created[b] \in 0..2 /\ a \in Nat /\ b \in Nat
    BY PlacementAssumption
<1> QED
    BY <1>1 DEF AuditOrder, OlderRoute

\* With nobody queued, who is not served has an older Route in its way.
LEMMA InvSettles == PlacementInv /\ SettleInv => SettlesByPrecedence
<1> SUFFICES ASSUME PlacementInv, SettleInv, queue = {}, \A r \in Routes : created[r] # 0,
                    NEW r \in Routes, NEW n \in Nodes
             PROVE  <<n, r>> \in RouteConfigs <=>
                      /\ n \in getNodesForRoute(r) /\ Valid(spec[r].match)
                      /\ ~staticChainConflict(r, getNodesForRoute(r))
                      /\ ~ \E x \in Routes : /\ AuditOrder(x, r) /\ RouteConflict(x, r)
                                             /\ \E p \in getNodesForRoute(r) : <<p, x>> \in RouteConfigs
    BY DEF SettlesByPrecedence, ByPrecedence, ServedNodes
<1>1. /\ RouteConfigs \subseteq Nodes \X Routes /\ ServedWhole /\ LosersWait /\ PlacedApart /\ LosersYounger
      /\ created \in [Routes -> 0..2]
    BY DEF SettleInv, PlacementInv
<1>2. ASSUME <<n, r>> \in RouteConfigs
      PROVE  /\ n \in getNodesForRoute(r) /\ Eligible(r)
             /\ ~ \E x \in Routes : /\ AuditOrder(x, r) /\ RouteConflict(x, r)
                                    /\ \E p \in getNodesForRoute(r) : <<p, x>> \in RouteConfigs
    <2>1. Eligible(r) /\ \A p \in Nodes : <<p, r>> \in RouteConfigs <=> p \in getNodesForRoute(r)
        BY <1>1, <1>2 DEF ServedWhole
    <2>2. ASSUME NEW x \in Routes, AuditOrder(x, r), RouteConflict(x, r),
                 NEW p \in getNodesForRoute(r), <<p, x>> \in RouteConfigs
          PROVE  FALSE
        <3>1. p \in Nodes
            BY <1>1, <2>2
        <3>2. <<p, r>> \in RouteConfigs
            BY <2>1, <3>1
        <3>3. x # r
            BY <1>1, <2>2, PrecedenceTotal
        <3>4. ~RouteConflict(x, r)
            BY <1>1, <2>2, <3>2, <3>3 DEF PlacedApart
        <3> QED
            BY <2>2, <3>4
    <2> QED
        BY <1>2, <2>1, <2>2
<1>3. ASSUME n \in getNodesForRoute(r), Eligible(r), <<n, r>> \notin RouteConfigs
      PROVE  \E x \in Routes : /\ AuditOrder(x, r) /\ RouteConflict(x, r)
                               /\ \E p \in getNodesForRoute(r) : <<p, x>> \in RouteConfigs
    <2>1. \A p \in Nodes : <<p, r>> \notin RouteConfigs
        BY <1>1, <1>3 DEF ServedWhole
    <2>2. PICK w \in Routes : Waits(r, w)
        BY <1>1, <1>3, <2>1 DEF LosersWait
    <2>3. OlderRoute(w, r) /\ AuditOrder(w, r)
        <3>1. OlderRoute(w, r)
            BY <1>1, <2>2 DEF Waits, LosersYounger
        <3> QED
            BY <1>1, <3>1, PrecedenceTotal
    <2>4. w \in findConflicts(r, getNodesForRoute(r))
        BY <2>2 DEF Waits
    <2> QED
        BY <2>3, <2>4, ConflictSymmetric DEF findConflicts
<1>4. Eligible(r) <=> /\ Valid(spec[r].match) /\ getNodesForRoute(r) # {}
                      /\ ~staticChainConflict(r, getNodesForRoute(r))
    BY DEF Eligible
<1> QED
    BY <1>2, <1>3, <1>4

\* The order in which RDS reconciles does not matter: it settles on the placement
\* by precedence, for any Routes, nodes and Listeners.
THEOREM OrderDoesNotMatter == Spec => []SettlesByPrecedence
BY PlacementInit, PlacementStep, SettleInit, SettleStep, InvSettles, PTL DEF Spec

-----------------------------------------------------------------------------
(* What the audit predicts *)

AuditedNodes == [r \in Routes |-> routeNodes(r)]

\* The audit's conflict, entry by entry.
LEMMA AuditInTheWay ==
    ASSUME NEW S \in SUBSET (Nodes \X Routes), NEW r
    PROVE  auditConflict(r, S) <=>
             \/ staticChainConflict(r, routeNodes(r))
             \/ \E x \in Routes : RouteConflict(x, r) /\ \E p \in routeNodes(r) : <<p, x>> \in S
<1>1. \A p, x : <<p, x>> \in S => x \in Routes /\ x \in {e[2] : e \in S}
    <2> SUFFICES ASSUME NEW p, NEW x, <<p, x>> \in S PROVE x \in Routes /\ \E e \in S : x = e[2]
        OBVIOUS
    <2> QED
        OBVIOUS
<1> QED
    BY <1>1 DEF auditConflict

\* The replay computes the placement by precedence on the nodes it sees.
LEMMA AuditByPrecedence ==
    ASSUME PlacementInv
    PROVE  ByPrecedence(AuditServed, AuditedNodes)
<1> DEFINE rs == Sorted(Routes, AuditOrder)
           k == Len(rs)
<1>1. PICK c : Replaying(c) /\ AuditServed = c[k]
    BY AuditRuns
<1>2. created \in [Routes -> 0..2]
    BY DEF PlacementInv
<1>3. /\ k \in Nat /\ DOMAIN rs = 1..k /\ ToSet(rs) = Routes /\ \A i \in 1..k : rs[i] \in Routes
      /\ \A i, j \in 1..k : i < j => AuditOrder(rs[i], rs[j])
    <2>1. /\ rs \in [1..Cardinality(Routes) -> Routes] /\ Cardinality(Routes) \in Nat /\ ToSet(rs) = Routes
          /\ \A i, j \in 1..Cardinality(Routes) : i < j => AuditOrder(rs[i], rs[j])
        BY <1>2, SortedAudit
    <2> HIDE DEF rs
    <2>2. k = Cardinality(Routes)
        BY <2>1
    <2> QED
        BY <2>1, <2>2
<1>4. /\ c[0] = {} /\ \A i \in 1..k : c[i] = AuditRoute(c[i - 1], rs[i])
      /\ \A i \in 0..k : c[i] \in SUBSET (Nodes \X Routes)
    BY <1>1 DEF Replaying
<1> HIDE DEF rs, k
<1>5. \A i, j \in 1..k : (i < j <=> AuditOrder(rs[i], rs[j])) /\ (rs[i] = rs[j] => i = j)
    <2> TAKE i, j \in 1..k
    <2>1. rs[i] \in Routes /\ rs[j] \in Routes /\ i \in Nat /\ j \in Nat
        BY <1>3
    <2>2. ~AuditOrder(rs[i], rs[i]) /\ ~(AuditOrder(rs[i], rs[j]) /\ AuditOrder(rs[j], rs[i]))
        BY <1>2, <2>1, PrecedenceTotal
    <2>3. i < j \/ i = j \/ j < i
        BY <2>1
    <2> QED
        BY <1>3, <2>2, <2>3
<1> DEFINE Rule(S, r, older) ==
              \A n \in Nodes : <<n, r>> \in S <=>
                 /\ n \in routeNodes(r) /\ Valid(spec[r].match) /\ ~staticChainConflict(r, routeNodes(r))
                 /\ ~ \E x \in older : RouteConflict(x, r) /\ \E p \in routeNodes(r) : <<p, x>> \in S
           Done(i) == {rs[j] : j \in 1..i}
           Has(i) == /\ \A n \in Nodes, r \in Routes : <<n, r>> \in c[i] => r \in Done(i)
                     /\ \A j \in 1..i : Rule(c[i], rs[j], Done(j - 1))
           T == {i \in 0..k : Has(i)}
<1>6. 0 \in T
    BY <1>3, <1>4
<1>7. ASSUME NEW i \in 1..k, i - 1 \in T PROVE i \in T
    <2> DEFINE r == rs[i]
    <2>1. Has(i - 1) /\ i - 1 \in 0..k /\ i \in 0..k /\ i \in Nat /\ r \in Routes
        <3> HIDE DEF Has
        <3>1. Has(i - 1)
            BY <1>7
        <3>2. i - 1 \in 0..k /\ i \in 0..k /\ i \in Nat
            BY <1>3
        <3> QED
            BY <1>3, <3>1, <3>2
    <2>2. /\ c[i - 1] \in SUBSET (Nodes \X Routes) /\ c[i] = AuditRoute(c[i - 1], r)
        BY <1>4, <2>1
    <2>3. r \notin Done(i - 1) /\ Done(i) = Done(i - 1) \union {r} /\ Done(i - 1) \subseteq Routes
        <3>1. \A j \in 1..(i - 1) : j \in 1..k /\ j # i /\ j \in 1..i
            BY <1>3
        <3>2. \A j \in 1..i : j \in 1..(i - 1) \/ j = i
            BY <1>3
        <3>3. i \in 1..i
            BY <1>3
        <3>4. \A j \in 1..(i - 1) : rs[j] # r /\ rs[j] \in Routes
            BY <1>3, <1>5, <3>1
        <3> QED
            BY <3>1, <3>2, <3>3, <3>4
    <2>4. \A n \in Nodes : <<n, r>> \notin c[i - 1]
        BY <2>1, <2>3
    <2>5. \A n \in Nodes, x \in Routes : x # r => (<<n, x>> \in c[i] <=> <<n, x>> \in c[i - 1])
        BY <2>2 DEF AuditRoute
    <2>6. \A p, x : <<p, x>> \in c[i - 1] => p \in Nodes /\ x \in Routes
        BY <2>2
    <2>7. \A p, x : <<p, x>> \in c[i] => p \in Nodes /\ x \in Routes
        BY <1>4, <2>1
    <2>8. \A p, x : x # r => (<<p, x>> \in c[i] <=> <<p, x>> \in c[i - 1])
        BY <2>5, <2>6, <2>7
    <2>9. Rule(c[i], r, Done(i - 1))
        <3>1. \A n \in Nodes : <<n, r>> \in c[i] <=>
                n \in routeNodes(r) /\ Valid(spec[r].match) /\ ~auditConflict(r, c[i - 1])
            BY <2>2, <2>4 DEF AuditRoute
        <3>2. (\E x \in Routes : RouteConflict(x, r) /\ \E p \in routeNodes(r) : <<p, x>> \in c[i - 1])
                <=> \E x \in Done(i - 1) : RouteConflict(x, r) /\ \E p \in routeNodes(r) : <<p, x>> \in c[i]
            <4>1. \A x \in Routes : \A p : <<p, x>> \in c[i - 1] => x \in Done(i - 1)
                BY <2>1, <2>6
            <4> HIDE DEF r, Done
            <4> QED
                BY <2>3, <2>8, <4>1
        <3>3. auditConflict(r, c[i - 1]) <=>
                \/ staticChainConflict(r, routeNodes(r))
                \/ \E x \in Done(i - 1) : RouteConflict(x, r) /\ \E p \in routeNodes(r) : <<p, x>> \in c[i]
            BY <2>2, <3>2, AuditInTheWay
        <3> HIDE DEF r, Done
        <3> QED
            BY <3>1, <3>3
    <2>10. ASSUME NEW j \in 1..(i - 1) PROVE Rule(c[i], rs[j], Done(j - 1))
        <3>1. Rule(c[i - 1], rs[j], Done(j - 1))
            BY <2>1
        <3>2. rs[j] \in Done(i - 1) /\ \A x \in Done(j - 1) : x \in Done(i - 1)
            <4>1. j \in Nat /\ \A a \in 1..(j - 1) : a \in 1..(i - 1)
                BY <1>3
            <4> QED
                BY <4>1
        <3>3. rs[j] # r /\ \A x \in Done(j - 1) : x # r
            BY <2>3, <3>2
        <3> HIDE DEF r, Done
        <3> QED
            BY <2>8, <3>1, <3>3
    <2>11. \A j \in 1..i : j \in 1..(i - 1) \/ j = i
        BY <1>3
    <2>12. \A n \in Nodes, x \in Routes : <<n, x>> \in c[i] => x \in Done(i)
        <3> HIDE DEF Done, r
        <3>1. \A n \in Nodes, x \in Routes : <<n, x>> \in c[i - 1] => x \in Done(i - 1)
            BY <2>1
        <3> QED
            BY <2>3, <2>8, <3>1
    <2>13. \A j \in 1..i : Rule(c[i], rs[j], Done(j - 1))
        <3> HIDE DEF Rule, Done
        <3> QED
            BY <2>9, <2>10, <2>11
    <2> HIDE DEF Rule, Done
    <2> QED
        BY <2>1, <2>12, <2>13
<1> HIDE DEF T
<1>8. 0..k \subseteq T
    BY <1>3, <1>6, <1>7, Induction
<1>9. \A j \in 1..k : Rule(AuditServed, rs[j], Done(j - 1))
    <2>1. k \in 0..k
        BY <1>3
    <2> QED
        BY <1>1, <1>8, <2>1 DEF T, k
<1>10. ASSUME NEW j \in 1..k PROVE \A x : x \in Done(j - 1) <=> x \in Routes /\ AuditOrder(x, rs[j])
    <2>1. \A x \in Routes : \E a \in 1..k : x = rs[a]
        BY <1>3 DEF ToSet
    <2>2. \A a \in 1..k : a \in 1..(j - 1) <=> a < j
        BY <1>3
    <2>3. \A a \in 1..(j - 1) : a \in 1..k
        BY <1>3
    <2> QED
        BY <1>3, <1>5, <2>1, <2>2, <2>3
<1>11. ASSUME NEW r \in Routes, NEW n \in Nodes
       PROVE  <<n, r>> \in AuditServed <=>
                /\ n \in routeNodes(r) /\ Valid(spec[r].match) /\ ~staticChainConflict(r, routeNodes(r))
                /\ ~ \E x \in Routes : /\ AuditOrder(x, r) /\ RouteConflict(x, r)
                                       /\ \E p \in routeNodes(r) : <<p, x>> \in AuditServed
    <2>1. PICK j \in 1..k : r = rs[j]
        BY <1>3 DEF ToSet
    <2>2. Rule(AuditServed, r, Done(j - 1))
        BY <1>9, <2>1
    <2>3. \A x : x \in Done(j - 1) <=> x \in Routes /\ AuditOrder(x, r)
        BY <1>10, <2>1
    <2> HIDE DEF Done
    <2> QED
        BY <2>2, <2>3
<1> QED
    BY <1>11 DEF ByPrecedence, AuditedNodes

\* There is only one placement by precedence; the nodes of a Route whose match is
\* not valid play no part in it.
LEMMA PrecedenceUnique ==
    ASSUME created \in [Routes -> 0..2], NEW N, NEW M,
           \A r \in Routes : Valid(spec[r].match) => N[r] = M[r],
           NEW S \in SUBSET (Nodes \X Routes), NEW P \in SUBSET (Nodes \X Routes),
           ByPrecedence(S, N), ByPrecedence(P, M)
    PROVE  S = P
<1> DEFINE Same(r) == \A n : <<n, r>> \in S <=> <<n, r>> \in P
           D == {r \in Routes : ~Same(r)}
           R == {p \in Routes \X Routes : AuditOrder(p[2], p[1])}
<1>1. \A a, b \in Routes : <<a, b>> \in R <=> AuditOrder(b, a)
    OBVIOUS
<1>2. ASSUME D # {} PROVE FALSE
    <2> HIDE DEF R
    <2>1. Orders(R, D)
        <3>1. \A a, b \in Routes : a # b => AuditOrder(a, b) \/ AuditOrder(b, a)
            BY PrecedenceTotal
        <3>2. \A a, b, d \in Routes : AuditOrder(a, b) /\ AuditOrder(b, d) => AuditOrder(a, d)
            BY PlacementAssumption DEF AuditOrder, OlderRoute
        <3>3. D \subseteq Routes
            OBVIOUS
        <3> HIDE DEF D
        <3> QED
            BY <1>1, <3>1, <3>2, <3>3 DEF Orders
    <2>2. IsFiniteSet(D) /\ D \subseteq Routes
        BY PlacementAssumption, FS_Subset
    <2>3. PICK m \in D : \A a \in D \ {m} : <<a, m>> \in R
        <3> HIDE DEF D
        <3> QED
            BY <1>2, <2>1, <2>2, LastElement
    <2>4. ASSUME NEW x \in Routes, AuditOrder(x, m) PROVE Same(x)
        <3>1. ~AuditOrder(m, x) /\ x # m
            BY <2>2, <2>3, <2>4, PrecedenceTotal
        <3>2. x \notin D
            BY <1>1, <2>2, <2>3, <3>1
        <3> QED
            BY <3>2
    <2>5. ASSUME NEW n \in Nodes PROVE <<n, m>> \in S <=> <<n, m>> \in P
        <3>1. m \in Routes /\ (Valid(spec[m].match) => N[m] = M[m])
            BY <2>2
        <3>2. (\E x \in Routes : /\ AuditOrder(x, m) /\ RouteConflict(x, m) /\ \E p \in N[m] : <<p, x>> \in S)
                <=> \E x \in Routes : /\ AuditOrder(x, m) /\ RouteConflict(x, m) /\ \E p \in N[m] : <<p, x>> \in P
            BY <2>4
        <3>3. <<n, m>> \in S <=>
                /\ n \in N[m] /\ Valid(spec[m].match) /\ ~staticChainConflict(m, N[m])
                /\ ~ \E x \in Routes : AuditOrder(x, m) /\ RouteConflict(x, m) /\ \E p \in N[m] : <<p, x>> \in S
            BY <3>1 DEF ByPrecedence
        <3>4. <<n, m>> \in P <=>
                /\ n \in M[m] /\ Valid(spec[m].match) /\ ~staticChainConflict(m, M[m])
                /\ ~ \E x \in Routes : AuditOrder(x, m) /\ RouteConflict(x, m) /\ \E p \in M[m] : <<p, x>> \in P
            BY <3>1 DEF ByPrecedence
        <3>5. CASE ~Valid(spec[m].match)
            BY <3>3, <3>4, <3>5
        <3>6. CASE Valid(spec[m].match)
            <4>1. N[m] = M[m]
                BY <3>1, <3>6
            <4> QED
                BY <3>2, <3>3, <3>4, <4>1
        <3> QED
            BY <3>5, <3>6
    <2>6. \A n : <<n, m>> \in S \union P => n \in Nodes
        OBVIOUS
    <2>7. Same(m)
        BY <2>5, <2>6
    <2> QED
        BY <2>3, <2>7
<1>3. \A r \in Routes : Same(r)
    BY <1>2
<1> HIDE DEF Same
<1>4. \A n \in Nodes, r \in Routes : <<n, r>> \in S <=> <<n, r>> \in P
    BY <1>3 DEF Same
<1> QED
    BY <1>4

\* Whatever the audit reported is the placement by precedence on the nodes it sees.
ReportRight ==
    \A s \in report : s \in SUBSET (Nodes \X Routes) /\ ByPrecedence(s, AuditedNodes)

\* Applying the manifest makes it younger than the rest, where the audit had it.
LEMMA AuditOrderStays ==
    ASSUME PlacementInv, OneManifest, [Next]_vars, NEW a \in Routes, NEW b \in Routes
    PROVE  AuditOrder(a, b)' <=> AuditOrder(a, b)
<1>1. created \in [Routes -> 0..2] /\ a \in Nat /\ b \in Nat
    BY PlacementAssumption DEF PlacementInv
<1>2. CASE created' = created
    BY <1>2 DEF AuditOrder, OlderRoute
<1>3. ASSUME NEW r \in Routes, Apply(r) PROVE AuditOrder(a, b)' <=> AuditOrder(a, b)
    <2>1. created[r] = 0 /\ created' = [created EXCEPT ![r] = 2]
        BY <1>3 DEF Apply
    <2>2. \A x \in Routes : x # r => created[x] = 1 /\ created'[x] = 1
        BY <1>1, <2>1 DEF OneManifest
    <2>3. created'[r] = 2
        BY <1>1, <2>1
    <2> QED
        BY <1>1, <2>1, <2>2, <2>3 DEF AuditOrder, OlderRoute
<1> QED
    BY <1>2, <1>3 DEF Next, Audit, Reconcile, vars

\* A placement by precedence stays one.
LEMMA PrecedenceStays ==
    ASSUME PlacementInv, OneManifest, [Next]_vars, NEW S, ByPrecedence(S, AuditedNodes)
    PROVE  ByPrecedence(S, AuditedNodes)'
<1>1. UNCHANGED <<spec, listeners>>
    BY DEF Next, Audit, Apply, Reconcile, vars
<1>2. \A a, b \in Routes : AuditOrder(a, b)' <=> AuditOrder(a, b)
    BY AuditOrderStays
<1>3. \A r : routeNodes(r)' = routeNodes(r)
    BY <1>1, Unchanging
<1>4. \A r, x : RouteConflict(r, x)' <=> RouteConflict(r, x)
    BY <1>1, Unchanging
<1>5. \A r, N : staticChainConflict(r, N)' <=> staticChainConflict(r, N)
    BY <1>1, Unchanging
<1> QED
    BY <1>1, <1>2, <1>3, <1>4, <1>5 DEF ByPrecedence, AuditedNodes

\* Every step keeps the report right.
LEMMA ReportStep == PlacementInv /\ SettleInv /\ ReportRight /\ [Next]_vars => ReportRight'
<1> SUFFICES ASSUME PlacementInv, SettleInv, ReportRight, [Next]_vars, NEW s \in report'
             PROVE  s \in SUBSET (Nodes \X Routes) /\ ByPrecedence(s, AuditedNodes)'
    BY DEF ReportRight
<1>1. s \in report \/ s = AuditServed
    BY DEF Next, Audit, Apply, Reconcile, vars
<1>2. s \in SUBSET (Nodes \X Routes) /\ ByPrecedence(s, AuditedNodes)
    BY <1>1, AuditTypes, AuditByPrecedence DEF ReportRight
<1> QED
    BY <1>2, PrecedenceStays DEF SettleInv

\* If both look on the same nodes, RDS settles on what the audit reported.
LEMMA AuditSettles == PlacementInv /\ SettleInv /\ ReportRight => AuditAgrees
<1> SUFFICES ASSUME PlacementInv, SettleInv, ReportRight, NodesAgree, queue = {},
                    \A r \in Routes : created[r] # 0, NEW served \in report
             PROVE  RouteConfigs = served
    BY DEF AuditAgrees
<1>1. ByPrecedence(RouteConfigs, ServedNodes)
    BY InvSettles DEF SettlesByPrecedence
<1>2. served \in SUBSET (Nodes \X Routes) /\ ByPrecedence(served, AuditedNodes)
    BY DEF ReportRight
<1>3. RouteConfigs \in SUBSET (Nodes \X Routes) /\ created \in [Routes -> 0..2]
    BY DEF SettleInv, PlacementInv
<1>4. \A r \in Routes : Valid(spec[r].match) => ServedNodes[r] = AuditedNodes[r]
    BY DEF NodesAgree, ServedNodes, AuditedNodes
<1> QED
    BY <1>1, <1>2, <1>3, <1>4, PrecedenceUnique

\* Once RDS has settled it serves exactly what the audit said, also for a
\* manifest that was audited before it was applied, as long as both look for the
\* Routes on the same nodes.
THEOREM AuditExact == Spec => []AuditAgrees
<1>1. Init => ReportRight
    BY DEF Init, ReportRight
<1> QED
    BY <1>1, PlacementInit, PlacementStep, SettleInit, SettleStep, ReportStep, AuditSettles, PTL DEF Spec

\* Every Listener that a Route refers to exists, and there is one.
ListenersThere ==
    /\ \E l \in Names : listeners[l] # {}
    /\ \A r \in Routes : \A name \in ToSet(spec[r].refs) : listeners[name] # {}

On(node, l) == \E x \in listeners[l] : node \in x.nodes

\* A reference to a Listener that exists is a hit if it is on the node.
LEMMA KnownRef ==
    ASSUME NEW s \in Scans, NEW l \in Names, NEW node, listeners[l] # {}
    PROVE  LET t == ScanRef(s, l, node) IN
           /\ t.hit <=> s.hit \/ On(node, l)
           /\ s.exists => t.exists
           /\ (s.hit => s.exists) => (t.hit => t.exists)
<1> DEFINE li == UNION {x.nodes : x \in listeners[l]}
           t == ScanRef(s, l, node)
           new == [li |-> li, exists |-> s.exists \/ listeners[l] # {}, hit |-> node \in li]
<1>1. t = IF s.hit THEN s ELSE new
    BY DEF ScanRef
<1>2. new.exists = TRUE
    <2>1. new.exists = (s.exists \/ listeners[l] # {})
        BY Zenon
    <2>2. (s.exists \/ listeners[l] # {}) = TRUE
        BY Zenon
    <2> QED
        BY <2>1, <2>2, Zenon
<1>3. new.hit = (node \in li)
    BY Zenon
<1>4. node \in li <=> On(node, l)
    BY DEF On
<1> HIDE DEF t, new, li
<1>5. CASE s.hit
    <2>1. t = s
        BY <1>1, <1>5
    <2> QED
        BY <1>5, <2>1 DEF t
<1>6. CASE ~s.hit
    <2>1. t = new
        BY <1>1, <1>6
    <2> QED
        BY <1>2, <1>3, <1>4, <1>6, <2>1 DEF t
<1> QED
    BY <1>5, <1>6

\* A pass over Listeners that exist hits exactly if one of them is on the node.
LEMMA KnownPass ==
    ASSUME NEW scan \in Scans, NEW node, NEW refs \in Seq(Names),
           \A i \in 1..Len(refs) : listeners[refs[i]] # {}
    PROVE  LET s == ScanRefs(refs, node, scan) IN
           /\ s.hit <=> \E i \in 1..Len(refs) : On(node, refs[i])
           /\ s.hit => s.exists
           /\ scan.exists => s.exists
<1> DEFINE k == Len(refs)
<1>1. k \in Nat /\ \A i \in 1..k : refs[i] \in Names
    OBVIOUS
<1>2. PICK c : /\ ScanRefs(refs, node, scan) = c[k] /\ c[0] = [scan EXCEPT !.hit = FALSE]
               /\ \A i \in 1..k : c[i] = ScanRef(c[i - 1], refs[i], node)
               /\ \A i \in 0..k : c[i] \in Scans
    BY PassRuns
<1> DEFINE Has(i) == /\ c[i].hit <=> \E j \in 1..i : On(node, refs[j])
                     /\ c[i].hit => c[i].exists
                     /\ scan.exists => c[i].exists
           T == {i \in 0..k : Has(i)}
<1>3. 0 \in T
    <2>1. c[0].hit = FALSE /\ c[0].exists = scan.exists
        BY <1>2 DEF Scans
    <2> QED
        BY <1>1, <2>1
<1> HIDE DEF k
<1>4. ASSUME NEW i \in 1..k, i - 1 \in T PROVE i \in T
    <2>1. Has(i - 1) /\ i - 1 \in 0..k /\ i \in 0..k
        BY <1>1, <1>4
    <2>2. c[i] = ScanRef(c[i - 1], refs[i], node) /\ c[i - 1] \in Scans
        BY <1>2, <2>1
    <2>3. refs[i] \in Names /\ listeners[refs[i]] # {}
        BY <1>1 DEF k
    <2>4. /\ c[i].hit <=> c[i - 1].hit \/ On(node, refs[i])
          /\ c[i - 1].exists => c[i].exists
          /\ (c[i - 1].hit => c[i - 1].exists) => (c[i].hit => c[i].exists)
        BY <2>2, <2>3, KnownRef
    <2>5. \A j : j \in 1..i <=> j \in 1..(i - 1) \/ j = i
        BY <1>1
    <2> QED
        BY <2>1, <2>4, <2>5
<1> HIDE DEF T
<1>5. 0..k \subseteq T
    BY <1>1, <1>3, <1>4, Induction
<1>6. k \in 0..k
    BY <1>1
<1>7. Has(k)
    BY <1>5, <1>6 DEF T
<1> QED
    BY <1>2, <1>7 DEF k

\* With its Listeners there, RDS finds a Route's nodes as the audit does: no
\* failed Get leaves the variable of an earlier one behind.
LEMMA KnownNodes == ASSUME PlacementInv, ListenersThere PROVE NodesAgree
<1> SUFFICES ASSUME NEW r \in Routes PROVE getNodesForRoute(r) = routeNodes(r)
    BY DEF NodesAgree
<1> DEFINE nodes == Sorted(spec[r].nodes, <)
           refs == spec[r].refs
           k == Len(nodes)
<1>1. PICK c : /\ refs \in Seq(Names) /\ k \in Nat /\ ToSet(nodes) = spec[r].nodes /\ DOMAIN nodes = 1..k
               /\ Passing(c, r)
               /\ getNodesForRoute(r) = IF c[k].scan.exists THEN c[k].matched ELSE {}
    BY NodesRun
<1>2. /\ c[0] = [scan |-> [li |-> {Default}, exists |-> FALSE, hit |-> FALSE], matched |-> {}]
      /\ \A i \in 1..k : c[i] = ScanNode(c[i - 1], nodes[i], refs)
      /\ \A i \in 0..k : c[i] \in [scan: Scans, matched: SUBSET spec[r].nodes]
    BY <1>1 DEF Passing
<1> DEFINE Hits(n) == \E name \in ToSet(refs) : On(n, name)
           Has(i) == /\ c[i].matched = {nodes[j] : j \in {a \in 1..i : Hits(nodes[a])}}
                     /\ c[i].matched # {} => c[i].scan.exists
           T == {i \in 0..k : Has(i)}
<1>3. \A n : n \in routeNodes(r) <=> n \in spec[r].nodes /\ Hits(n)
    BY DEF routeNodes, ListenersThere, On
<1>4. (\A i \in 1..Len(refs) : listeners[refs[i]] # {}) /\ ToSet(refs) = {refs[i] : i \in 1..Len(refs)}
    <2>1. DOMAIN refs = 1..Len(refs)
        <3>1. refs \in Seq(Names)
            BY <1>1
        <3> HIDE DEF refs
        <3> QED
            BY <3>1
    <2>2. ToSet(refs) = {refs[i] : i \in 1..Len(refs)}
        BY <2>1 DEF ToSet
    <2> QED
        BY <2>2 DEF ListenersThere
<1> HIDE DEF nodes, k, refs
<1>5. 0 \in T
    <2>1. c[0].matched = {}
        BY <1>2
    <2>2. 1..0 = {}
        OBVIOUS
    <2> QED
        BY <1>1, <2>1, <2>2
<1>6. ASSUME NEW i \in 1..k, i - 1 \in T PROVE i \in T
    <2> DEFINE s == c[i - 1].scan
               t == ScanRefs(refs, nodes[i], s)
    <2>1. Has(i - 1) /\ i - 1 \in 0..k /\ i \in 0..k
        BY <1>1, <1>6
    <2>2. s \in Scans /\ c[i] = ScanNode(c[i - 1], nodes[i], refs)
        BY <1>2, <2>1
    <2>3. (t.hit <=> Hits(nodes[i])) /\ (t.hit => t.exists) /\ (s.exists => t.exists)
        <3> HIDE DEF s
        <3>1. /\ t.hit <=> \E j \in 1..Len(refs) : On(nodes[i], refs[j])
              /\ (t.hit => t.exists) /\ (s.exists => t.exists)
            BY <1>1, <1>4, <2>2, KnownPass
        <3> QED
            BY <1>4, <3>1
    <2>4. /\ c[i].scan = t
          /\ c[i].matched = IF t.hit THEN c[i - 1].matched \union {nodes[i]} ELSE c[i - 1].matched
        BY <2>2 DEF ScanNode
    <2>5. \A j : j \in 1..i <=> j \in 1..(i - 1) \/ j = i
        BY <1>1
    <2> HIDE DEF s, t, Hits
    <2>6. c[i].matched = {nodes[j] : j \in {a \in 1..i : Hits(nodes[a])}}
        BY <2>1, <2>3, <2>4, <2>5
    <2>7. c[i].matched # {} => c[i].scan.exists
        BY <2>1, <2>3, <2>4 DEF s
    <2> QED
        BY <2>1, <2>6, <2>7
<1> HIDE DEF T
<1>7. 0..k \subseteq T
    BY <1>1, <1>5, <1>6, Induction
<1>8. Has(k)
    <2>1. k \in 0..k
        BY <1>1
    <2> QED
        BY <1>7, <2>1 DEF T
<1> HIDE DEF Hits
<1>9. getNodesForRoute(r) = c[k].matched
    BY <1>1, <1>8
<1>10. \A n : n \in spec[r].nodes <=> \E j \in 1..k : n = nodes[j]
    BY <1>1 DEF ToSet
<1> QED
    BY <1>3, <1>8, <1>9, <1>10

\* What the audit said, once RDS has settled.
AuditRight ==
    queue = {} /\ (\A r \in Routes : created[r] # 0) => \A served \in report : RouteConfigs = served

\* Once RDS has settled it serves exactly what the audit said, for any Routes,
\* nodes and Listeners, if the Listeners that the Routes name exist: then both
\* look for every Route on the same nodes.
THEOREM AuditOnKnownListeners == Spec => [](ListenersThere => AuditRight)
<1>1. Init => ReportRight
    BY DEF Init, ReportRight
<1>2. PlacementInv /\ SettleInv /\ ReportRight => (ListenersThere => AuditRight)
    BY KnownNodes, AuditSettles DEF AuditAgrees, AuditRight
<1> QED
    BY <1>1, <1>2, PlacementInit, PlacementStep, SettleInit, SettleStep, ReportStep, PTL DEF Spec
=============================================================================

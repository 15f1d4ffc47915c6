--------------------------- MODULE FilterChainMatch ---------------------------
(***************************************************************************)
(* Package fcm: can two filter chain matches share one Envoy listener?     *)
(*                                                                         *)
(* A name is the sequence of its labels, as strings.Split(name, ".") gives *)
(* it: "a.com" is <<"a", "com">>, "a.com." ends in the label "", and the   *)
(* empty name is <<"">>.  An address is its family ("none" if it does not *)
(* parse) and its bits.  Lists                                             *)
(* are sequences in a match, where a key listed twice is an error, and     *)
(* sets of keys once compiled.                                             *)
(***************************************************************************)
EXTENDS Naturals, Sequences, SequencesExt

CONSTANTS
    Lower,     \* asciiLower of every label
    Partial,   \* labels that hold a "*" among other characters
    Width      \* bits of an address of each family

ASSUME LabelAssumption ==
    /\ \A l \in DOMAIN Lower : Lower[l] \in DOMAIN Lower /\ Lower[Lower[l]] = Lower[l]
    /\ {"*", ""} \union Partial \subseteq DOMAIN Lower
    /\ \A l \in DOMAIN Lower : Lower[l] = "*" <=> l = "*"
    /\ Lower[""] = ""
    /\ DOMAIN Width = {"v4", "v6", "none"} /\ \A f \in DOMAIN Width : Width[f] \in Nat

\* The fields of a match that hold one value, and those that hold a list.
Scalars == {"transportProtocol", "sourceType"}
Lists == {"alpn", "sourcePorts", "prefixRanges", "directSource", "source"}
Ranges == {"prefixRanges", "directSource", "source"}

\* The match of a chain that sets nothing; a nil match is compiled as this one.
CatchAll ==
    [destinationPort |-> <<>>, transportProtocol |-> "", sourceType |-> "ANY",
     serverNames |-> <<>>, alpn |-> <<>>, sourcePorts |-> <<>>,
     prefixRanges |-> <<>>, directSource |-> <<>>, source |-> <<>>, suffix |-> FALSE]

-----------------------------------------------------------------------------
(* Normalisation *)

\* The keys of unset lists: every name, every port, every address of a family.
anyNames == {<<"">>}
anyPorts == {0}
anyAddresses == {[family |-> "v4", bits |-> <<>>], [family |-> "v6", bits |-> <<>>]}

AnyKey(field) == CASE field = "sourcePorts" -> anyPorts
                   [] field \in Ranges -> anyAddresses
                   [] OTHER -> {""}

\* Names in lower case; "*.example.com" is filed under ".example.com".
NameKey(name) ==
    [i \in DOMAIN name |-> IF i = 1 /\ name[1] = "*" THEN "" ELSE Lower[name[i]]]

\* The prefix length is clamped to the address and the address masked.
RangeKey(range) ==
    [family |-> range.family,
     bits |-> SubSeq(range.bits, 1,
                     IF range.len < Len(range.bits) THEN range.len ELSE Len(range.bits))]

Keys(field, list) ==
    [i \in DOMAIN list |-> IF field \in Ranges THEN RangeKey(list[i]) ELSE list[i]]

compileServerNames(names) == [i \in DOMAIN names |-> NameKey(names[i])]

\* unique: no key twice, and an empty list is the key for "any".
Unique(keys) == IsInjective(keys)
OrAny(keys, any) == IF keys = <<>> THEN any ELSE ToSet(keys)

\* A "*" may only be the first of several labels.
WildcardsOK(name) ==
    \A i \in DOMAIN name :
        /\ name[i] \notin Partial
        /\ name[i] = "*" => i = 1 /\ Len(name) > 1

\* What ValidateAll and CompileProto reject.
Valid(m) ==
    /\ \A p \in ToSet(m.destinationPort) \union ToSet(m.sourcePorts) : p \in 1..65535
    /\ \A f \in Ranges : \A r \in ToSet(m[f]) : r.len <= 128 /\ r.family \in {"v4", "v6"}
    /\ ~m.suffix
    /\ \A n \in ToSet(m.serverNames) : WildcardsOK(n)
    /\ Unique(compileServerNames(m.serverNames))
    /\ \A f \in Lists : Unique(Keys(f, m[f]))

\* CompileProto of a match that is valid.
Compile(m) ==
    [f \in {"destinationPort", "serverNames"} \union Scalars \union Lists |->
        CASE f = "destinationPort" -> IF m[f] = <<>> THEN 0 ELSE Head(m[f])
          [] f = "serverNames" -> OrAny(compileServerNames(m[f]), anyNames)
          [] f \in Scalars -> m[f]
          [] OTHER -> OrAny(Keys(f, m[f]), AnyKey(f))]

-----------------------------------------------------------------------------
(* Comparison *)

shareKey(a, b) == a \intersect b # {}

\* A wildcard key covers the names with exactly one label more.
covers(pattern, domain) ==
    /\ Len(pattern) > 1 /\ Head(pattern) = ""
    /\ Len(domain) > 1 /\ Head(domain) # ""
    /\ pattern = <<"">> \o Tail(domain)

sameButTrailingDot(x, y) == x = Append(y, "") \/ y = Append(x, "")

\* One of the names shadows the other.
Overlap(x, y) ==
    /\ x # <<"">> /\ y # <<"">>
    /\ covers(x, y) \/ covers(y, x) \/ sameButTrailingDot(x, y)

compareServerNames(a, b) ==
    IF shareKey(a, b) THEN "duplicate"
    ELSE IF \E x \in a, y \in b : Overlap(x, y) THEN "shadow"
    ELSE "none"

\* Mutant of Compare: lists collide only if they are equal.
CompareEqualLists(m, o) ==
    IF /\ m.destinationPort = o.destinationPort
       /\ \A f \in Scalars \union Lists : m[f] = o[f]
    THEN compareServerNames(m.serverNames, o.serverNames)
    ELSE "none"

\* Matcher.Compare, for compiled matches.
Compare(m, o) ==
    IF /\ m.destinationPort = o.destinationPort
       /\ \A f \in Scalars : m[f] = o[f]
       /\ \A f \in Lists : shareKey(m[f], o[f])
    THEN compareServerNames(m.serverNames, o.serverNames)
    ELSE "none"

-----------------------------------------------------------------------------
(* Set: the matchers placed on one listener, by server name. *)

EmptySet == {}

Add(placed, m) == placed \union (m.serverNames \X {m})

\* Mutant of HasDuplicate: a shadow counts, among the matchers of a name's wildcard too.
HasShadow(placed, m) == \E e \in placed : Compare(m, e[2]) # "none"

HasDuplicate(placed, m) ==
    \E e \in placed : e[1] \in m.serverNames /\ Compare(m, e[2]) = "duplicate"

-----------------------------------------------------------------------------
(* Envoy files a chain once for every combination of its keys, and rejects *)
(* a listener, or picks by declaration order, if two chains share one.     *)
(* What it makes of each field is written down here from what the comments *)
(* of the package say of Envoy, without the package's own normal form.     *)

\* Names in lower case; a wildcard is filed under what follows the "*".
EnvoyName(name) ==
    LET lower == [i \in DOMAIN name |-> Lower[name[i]]]
    IN IF Head(lower) = "*" THEN [lower EXCEPT ![1] = ""] ELSE lower

\* The prefix length no longer than the address, the bits beyond it cleared.
EnvoyRange(range) ==
    LET len == IF range.len > Width[range.family] THEN Width[range.family] ELSE range.len
    IN [family |-> range.family, len |-> len,
        address |-> [i \in 1..Width[range.family] |-> IF i > len THEN 0 ELSE range.bits[i]]]

\* 0.0.0.0/0 and ::/0, for a list that is not set.
Everywhere == {[family |-> f, len |-> 0, bits |-> [i \in 1..Width[f] |-> 0]] : f \in {"v4", "v6"}}
RangesOf(list) == IF list = <<>> THEN Everywhere ELSE ToSet(list)
EnvoyRanges(list) == {EnvoyRange(range) : range \in RangesOf(list)}

\* The values of a list, or the value for "any".
EnvoyValues(list, any) == IF list = <<>> THEN {any} ELSE ToSet(list)
EnvoyNames(list) == {EnvoyName(name) : name \in EnvoyValues(list, <<"">>)}

Filed(m) ==
    {<<EnvoyValues(m.destinationPort, 0), dst, name, m.transportProtocol, alpn, direct,
       m.sourceType, src, port>> :
        dst \in EnvoyRanges(m.prefixRanges), name \in EnvoyNames(m.serverNames),
        alpn \in EnvoyValues(m.alpn, ""), direct \in EnvoyRanges(m.directSource),
        src \in EnvoyRanges(m.source), port \in EnvoyValues(m.sourcePorts, 0)}

\* The matches there can be: one port at most, names of known labels, addresses
\* as wide as their family's.
WellFormed(m) ==
    /\ Len(m.destinationPort) \in {0, 1} /\ m.destinationPort \in Seq(Nat)
    /\ \A name \in ToSet(m.serverNames) : name \in Seq(DOMAIN Lower) \ {<<>>}
    /\ \A f \in Lists \union {"serverNames"} : m[f] \in Seq(ToSet(m[f]))
    /\ \A f \in Ranges : \A range \in ToSet(m[f]) :
         /\ range.family \in DOMAIN Width /\ range.len \in Nat
         /\ range.bits \in [1..Width[range.family] -> {0, 1}]

=============================================================================

----------------------------- MODULE CppValues -----------------------------
(***************************************************************************)
(* The addresses and 64-byte values of include/qrvmc/qrvmc.hpp, and what    *)
(* their operators make of a std::map keyed by them.  A value is the        *)
(* sequence of its bytes; it is compared in words.                          *)
(***************************************************************************)
EXTENDS Integers, Sequences

CONSTANTS
    Base,       \* the number of bytes there are, 256
    WordBytes,  \* the bytes that are loaded at once, 8
    Words       \* the words of a value, 8

ASSUME CppValuesAssumption ==
    Base \in Nat \ {0} /\ WordBytes \in Nat \ {0} /\ Words \in Nat \ {0}

Bytes == [1 .. Words * WordBytes -> 0 .. Base - 1]
ZeroBytes == [i \in 1 .. Words * WordBytes |-> 0]

----------------------------------------------------------------------------
\* The word i of a value: its bytes, the most significant one first, or last.
load64be(data, i) ==
    LET loaded[n \in 0 .. WordBytes] ==
          IF n = 0 THEN 0 ELSE loaded[n - 1] * Base + data[i * WordBytes + n]
    IN  loaded[WordBytes]
load64le(data, i) ==
    LET loaded[n \in 0 .. WordBytes] ==
          IF n = 0 THEN 0 ELSE loaded[n - 1] * Base + data[(i + 1) * WordBytes - (n - 1)]
    IN  loaded[WordBytes]

\* operator== of addresses and of bytes64.
Equal(a, b) == \A i \in 0 .. Words - 1 : load64le(a, i) = load64le(b, i)

\* Mutant of Less: the words after the first are not compared.
LessFirstWord(a, b) == load64be(a, 0) < load64be(b, 0)

\* operator< of addresses and of bytes64: the first word that differs decides.
Less(a, b) ==
    \E i \in 0 .. Words - 1 :
      /\ load64be(a, i) < load64be(b, i)
      /\ \A j \in 0 .. i - 1 : load64be(a, j) = load64be(b, j)

----------------------------------------------------------------------------
\* find(): the entry whose key is neither less nor greater.
Found(map, key) == {k \in DOMAIN map : ~Less(k, key) /\ ~Less(key, k)}

\* What the entry found has, or what an absent entry means.
Lookup(map, key, absent) ==
    IF Found(map, key) = {} THEN absent ELSE map[CHOOSE k \in Found(map, key) : TRUE]

\* map[key] = value: into the entry found, or into a new one.
Insert(map, key, value) ==
    LET keys == Found(map, key)
        at == IF keys = {} THEN key ELSE CHOOSE k \in keys : TRUE
    IN  [k \in DOMAIN map \cup {at} |-> IF k = at THEN value ELSE map[k]]
=============================================================================

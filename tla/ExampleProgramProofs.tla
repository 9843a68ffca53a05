----------------------- MODULE ExampleProgramProofs ------------------------
(***************************************************************************)
(* examples/example.c gives back what it made, on every way through main().*)
(* The storage of its host, nested maps keyed by byte arrays that are      *)
(* compared in words, is the map of HostStorage, for values of any length; *)
(* so what main() reports is what the VM wrote.                            *)
(***************************************************************************)
EXTENDS ExampleProgram, WellFoundedInduction, TLAPS

\* Where main() has a VM, a context, a result that is not given back.
HasVM == phase \notin {"start", "exited"}
HasContext == phase \in {"execute", "report", "release", "destroy_context"}
HasResult == phase \in {"report", "release"}

Phases == {"start", "context", "execute", "report", "release", "destroy_context", "destroy",
           "exited"}

\* What was made and not given back is what the phase has, once each.
IInv ==
    /\ phase \in Phases
    /\ made \in [Objects -> Nat] /\ gone \in [Objects -> Nat]
    /\ made["vm"] = gone["vm"] + (IF HasVM THEN 1 ELSE 0)
    /\ made["context"] = gone["context"] + (IF HasContext THEN 1 ELSE 0)
    /\ made["result"] = gone["result"] + (IF HasResult THEN 1 ELSE 0)

LEMMA HeldIsGivenBack == IInv => CleansUp
<1> SUFFICES ASSUME IInv PROVE CleansUp
  OBVIOUS
<1>1. \A object \in Objects : gone[object] <= made[object]
  BY DEF IInv, Objects
<1>2. phase = "execute" \/ Live("result") => Live("vm") /\ Live("context")
  BY DEF IInv, Live, HasVM, HasContext, HasResult, Phases, Objects
<1>3. phase = "exited" => made = gone
  <2> SUFFICES ASSUME phase = "exited" PROVE made = gone
    OBVIOUS
  <2>1. \A object \in Objects : made[object] = gone[object]
    BY DEF IInv, HasVM, HasContext, HasResult, Objects
  <2> QED BY <2>1 DEF IInv
<1> QED BY <1>1, <1>2, <1>3 DEF CleansUp

LEMMA StepHolds == IInv /\ [Next]_vars => IInv'
<1> SUFFICES ASSUME IInv, [Next]_vars PROVE IInv'
  OBVIOUS
<1> USE DEF IInv, Phases, HasVM, HasContext, HasResult, Objects
<1>1. CASE CreateFails
  BY <1>1 DEF CreateFails, Return, lifetimes
<1>2. CASE CreateMismatched
  BY <1>2 DEF CreateMismatched, Return
<1>3. CASE GetVM
  BY <1>3 DEF GetVM, Make
<1>4. ASSUME NEW error \in LoaderErrors, LoadFails(error) PROVE IInv'
  BY <1>4 DEF LoadFails, Return, lifetimes
<1>5. CASE CreateContext
  BY <1>5 DEF CreateContext, Make
<1>6. CASE ContextFails
  BY <1>6 DEF ContextFails, GiveBack, Return
<1>7. CASE Request
  BY <1>7 DEF Request, lifetimes
<1>8. ASSUME NEW status \in StatusCodes, Execute(status) PROVE IInv'
  BY <1>8 DEF Execute, Make
<1>9. CASE ReportFailure
  BY <1>9 DEF ReportFailure, lifetimes
<1>10. CASE ReportSuccess
  BY <1>10 DEF ReportSuccess, lifetimes
<1>11. CASE Release
  BY <1>11 DEF Release, GiveBack
<1>12. CASE DestroyContext
  BY <1>12 DEF DestroyContext, GiveBack
<1>13. CASE Destroy
  BY <1>13 DEF Destroy, GiveBack
<1>14. CASE UNCHANGED vars
  BY <1>14 DEF vars
<1> QED
  BY <1>1, <1>2, <1>3, <1>4, <1>5, <1>6, <1>7, <1>8, <1>9, <1>10, <1>11, <1>12, <1>13, <1>14
     DEF Next

\* Whatever the VM does and whichever step fails, the program gives back, once, all that it
\* made, and keeps the VM and the context while there is a result (examples/example.c).
THEOREM AlwaysCleansUp == Spec => []CleansUp
<1>1. Init => IInv
  BY DEF Init, IInv, Phases, HasVM, HasContext, HasResult, Objects
<1> QED BY <1>1, StepHolds, HeldIsGivenBack, PTL DEF Spec

----------------------------------------------------------------------------
\* A set of numbers has a least one, unless it is empty.
LEMMA Least ==
    ASSUME NEW D, D \subseteq Nat, D # {}
    PROVE  \E m \in D : \A n \in D : m <= n
<1> DEFINE less == OpToRel(<, Nat)
<1>1. IsWellFoundedOn(less, Nat)
  BY NatLessThanWellFounded
<1>2. PICK m \in D : \A n \in D : <<n, m>> \notin less
  <2> HIDE DEF less
  <2> QED BY <1>1, WFMin
<1>3. \A n \in D : n < m => <<n, m>> \in less
  BY DEF OpToRel
<1> HIDE DEF less
<1>4. ASSUME NEW n \in D
      PROVE  m <= n
  <2>1. ~(n < m) /\ m \in Nat /\ n \in Nat
    BY <1>2, <1>3
  <2> QED BY <2>1
<1> QED BY <1>4

\* So one with zero, and with the successor of each number it has, has all numbers: otherwise a
\* least one would be missing.
LEMMA Induction ==
    ASSUME NEW S, 0 \in S, \A n \in Nat : n \in S => n + 1 \in S
    PROVE  Nat \subseteq S
<1> SUFFICES ASSUME Nat \ S # {} PROVE FALSE
  OBVIOUS
<1> PICK n \in Nat \ S : \A m \in Nat \ S : n <= m
  BY Least
<1>1. n - 1 \in Nat /\ n - 1 \in S
  OBVIOUS
<1> QED BY <1>1

----------------------------------------------------------------------------
\* The order of addresses and values (include/qrvmc/qrvmc.hpp).

\* What load64be() has after each byte of a word.
Loads(data, i, g) ==
    g = [n \in 0 .. WordBytes |->
           IF n = 0 THEN 0 ELSE g[n - 1] * Base + data[i * WordBytes + n]]
Loaded(data, i) == CHOOSE g : Loads(data, i, g)

LEMMA LoadIs == \A data, i : load64be(data, i) = Loaded(data, i)[WordBytes]
BY DEF load64be, Loads, Loaded

LEMMA LoadedExists ==
    ASSUME NEW data, NEW i
    PROVE  Loads(data, i, Loaded(data, i))
<1> DEFINE next(n, v) == v * Base + data[i * WordBytes + n]
           Upto(n, g) == g = [k \in 0 .. n |-> IF k = 0 THEN 0 ELSE next(k, g[k - 1])]
           S == {n \in Nat : \E g : Upto(n, g)}
<1>1. 0 \in S
  <2> DEFINE g == [k \in 0 .. 0 |-> 0]
  <2>1. Upto(0, g)
    OBVIOUS
  <2> QED BY <2>1
<1>2. \A n \in Nat : n \in S => n + 1 \in S
  <2> SUFFICES ASSUME NEW n \in Nat, n \in S PROVE n + 1 \in S
    OBVIOUS
  <2> PICK g : Upto(n, g)
    OBVIOUS
  <2> DEFINE h == [k \in 0 .. n + 1 |-> IF k = n + 1 THEN next(n + 1, g[n]) ELSE g[k]]
  <2> HIDE DEF next
  <2>1. \A k \in 0 .. n : g[k] = IF k = 0 THEN 0 ELSE next(k, g[k - 1])
    OBVIOUS
  <2>2. \A k \in 0 .. n + 1 : h[k] = IF k = 0 THEN 0 ELSE next(k, h[k - 1])
    <3> SUFFICES ASSUME NEW k \in 0 .. n + 1
                 PROVE  h[k] = IF k = 0 THEN 0 ELSE next(k, h[k - 1])
      OBVIOUS
    <3>1. CASE k = n + 1
      BY <3>1
    <3>2. CASE k # n + 1
      <4>1. k \in 0 .. n /\ (k # 0 => k - 1 \in 0 .. n)
        BY <3>2
      <4>2. h[k] = g[k] /\ (k # 0 => h[k - 1] = g[k - 1])
        BY <3>2, <4>1
      <4> HIDE DEF h
      <4> QED BY <2>1, <4>1, <4>2
    <3> QED BY <3>1, <3>2
  <2>3. Upto(n + 1, h)
    <3>1. h = [k \in 0 .. n + 1 |-> h[k]]
      OBVIOUS
    <3> HIDE DEF h
    <3> QED BY <2>2, <3>1
  <2> HIDE DEF h, Upto
  <2> QED BY <2>3
<1> HIDE DEF S
<1>3. WordBytes \in S
  <2>1. Nat \subseteq S
    BY <1>1, <1>2, Induction
  <2> QED BY <2>1, CppValuesAssumption
<1>4. \E g : Loads(data, i, g)
  BY <1>3 DEF S, Loads
<1> QED BY <1>4 DEF Loaded

LEMMA LoadedStep ==
    ASSUME NEW data, NEW i
    PROVE  /\ Loaded(data, i)[0] = 0
           /\ \A n \in 1 .. WordBytes :
                Loaded(data, i)[n] = Loaded(data, i)[n - 1] * Base + data[i * WordBytes + n]
<1> DEFINE g == Loaded(data, i)
           next(n) == g[n - 1] * Base + data[i * WordBytes + n]
<1>1. g = [n \in 0 .. WordBytes |-> IF n = 0 THEN 0 ELSE next(n)]
  BY LoadedExists DEF Loads
<1> HIDE DEF g, next
<1>2. g[0] = 0 /\ \A n \in 1 .. WordBytes : g[n] = next(n)
  BY <1>1, CppValuesAssumption
<1> QED BY <1>2 DEF g, next

\* The bytes of the words are those of the value.
LEMMA Fits ==
    ASSUME NEW i \in 0 .. Words - 1, NEW n \in 1 .. WordBytes
    PROVE  i * WordBytes + n \in 1 .. Words * WordBytes
<1> PICK w \in Nat, l \in Nat : w = WordBytes /\ l = Words
  BY CppValuesAssumption
<1> PICK d \in Nat : l = i + 1 + d
  <2>1. l - i - 1 \in Nat
    OBVIOUS
  <2> QED BY <2>1
<1>1. i * w \in Nat /\ d * w \in Nat
  OBVIOUS
<1>2. l * w = i * w + w + d * w
  OBVIOUS
<1>3. n \in 1 .. w
  OBVIOUS
<1>4. i * w + n \in 1 .. l * w
  BY <1>1, <1>2, <1>3
<1> QED BY <1>4

LEMMA ByteOf ==
    ASSUME NEW data \in Bytes, NEW i \in 0 .. Words - 1, NEW n \in 1 .. WordBytes
    PROVE  data[i * WordBytes + n] \in 0 .. Base - 1
BY Fits DEF Bytes

LEMMA LoadedTyped ==
    ASSUME NEW data \in Bytes, NEW i \in 0 .. Words - 1
    PROVE  \A n \in 0 .. WordBytes : Loaded(data, i)[n] \in Nat
<1> DEFINE g == Loaded(data, i)
           S == {n \in Nat : n <= WordBytes => g[n] \in Nat}
<1>1. 0 \in S
  BY LoadedStep
<1>2. \A n \in Nat : n \in S => n + 1 \in S
  <2> SUFFICES ASSUME NEW n \in Nat, n \in S, n + 1 <= WordBytes PROVE g[n + 1] \in Nat
    OBVIOUS
  <2>1. n + 1 \in 1 .. WordBytes /\ g[n] \in Nat
    BY CppValuesAssumption
  <2>2. g[n + 1] = g[n] * Base + data[i * WordBytes + (n + 1)]
    BY <2>1, LoadedStep
  <2>3. data[i * WordBytes + (n + 1)] \in Nat
    <3>1. data[i * WordBytes + (n + 1)] \in 0 .. Base - 1
      BY <2>1, ByteOf
    <3> QED BY <3>1, CppValuesAssumption
  <2>4. g[n] * Base \in Nat
    BY <2>1, CppValuesAssumption
  <2> HIDE DEF g
  <2> QED BY <2>2, <2>3, <2>4
<1> HIDE DEF S
<1>3. Nat \subseteq S
  BY <1>1, <1>2, Induction
<1> QED BY <1>3, CppValuesAssumption DEF S

\* Two numbers with the same last digit and the same rest are the same, and only they.
LEMMA DigitsDiffer ==
    ASSUME NEW B \in Nat, NEW u \in Nat, NEW v \in Nat, NEW c \in 0 .. B - 1, NEW d \in 0 .. B - 1,
           u * B + c = v * B + d
    PROVE  u = v /\ c = d
<1>1. ASSUME NEW m \in Nat, NEW k \in Nat, m < k
      PROVE  m * B + B <= k * B
  <2> PICK e \in Nat : k = m + 1 + e
    <3>1. k - m - 1 \in Nat
      BY <1>1
    <3> QED BY <3>1
  <2>1. k * B = m * B + B + e * B /\ e * B \in Nat /\ m * B \in Nat
    OBVIOUS
  <2> QED BY <2>1
<1>2. u * B \in Nat /\ v * B \in Nat
  OBVIOUS
<1>3. ~(u < v)
  <2> SUFFICES ASSUME u < v PROVE FALSE
    OBVIOUS
  <2>1. u * B + B <= v * B
    BY <1>1
  <2> QED BY <1>2, <2>1
<1>4. ~(v < u)
  <2> SUFFICES ASSUME v < u PROVE FALSE
    OBVIOUS
  <2>1. v * B + B <= u * B
    BY <1>1
  <2> QED BY <1>2, <2>1
<1>5. u = v
  BY <1>3, <1>4
<1> QED BY <1>2, <1>5

\* Words that load the same have the same bytes.
LEMMA LoadedSame ==
    ASSUME NEW a \in Bytes, NEW b \in Bytes, NEW i \in 0 .. Words - 1,
           load64be(a, i) = load64be(b, i)
    PROVE  \A n \in 1 .. WordBytes : a[i * WordBytes + n] = b[i * WordBytes + n]
<1> DEFINE g == Loaded(a, i)
           h == Loaded(b, i)
           same(n) == \A m \in 1 .. n : a[i * WordBytes + m] = b[i * WordBytes + m]
           S == {n \in Nat : n <= WordBytes => (g[n] = h[n] => same(n))}
<1>1. 0 \in S
  OBVIOUS
<1>2. \A n \in Nat : n \in S => n + 1 \in S
  <2> SUFFICES ASSUME NEW n \in Nat, n \in S, n + 1 <= WordBytes, g[n + 1] = h[n + 1]
               PROVE  same(n + 1)
    <3> HIDE DEF same, g, h
    <3> QED OBVIOUS
  <2>1. n + 1 \in 1 .. WordBytes /\ n \in 0 .. WordBytes
    BY CppValuesAssumption
  <2>2. g[n] = h[n] => same(n)
    <3> HIDE DEF same, g, h
    <3> QED BY <2>1
  <2> HIDE DEF S, same
  <2> PICK c \in 0 .. Base - 1, d \in 0 .. Base - 1 :
        c = a[i * WordBytes + (n + 1)] /\ d = b[i * WordBytes + (n + 1)]
    BY <2>1, ByteOf
  <2> PICK u \in Nat, v \in Nat : u = g[n] /\ v = h[n]
    BY <2>1, LoadedTyped
  <2>3. g[n + 1] = u * Base + c /\ h[n + 1] = v * Base + d
    BY <2>1, LoadedStep
  <2>4. u = v /\ c = d
    <3>1. u * Base + c = v * Base + d
      BY <2>3
    <3> PICK B \in Nat : B = Base
      BY CppValuesAssumption
    <3>2. u * B + c = v * B + d /\ c \in 0 .. B - 1 /\ d \in 0 .. B - 1
      BY <3>1
    <3> HIDE DEF g, h
    <3> QED BY ONLY <3>2, u \in Nat, v \in Nat, B \in Nat, DigitsDiffer
  <2>5. \A m \in 1 .. n + 1 : m = n + 1 \/ m \in 1 .. n
    OBVIOUS
  <2> HIDE DEF g, h
  <2>6. same(n)
    BY <2>2, <2>4
  <2> QED BY <2>4, <2>5, <2>6 DEF same
<1>3. same(WordBytes)
  <2> HIDE DEF S
  <2>1. WordBytes \in S
    <3>1. Nat \subseteq S
      BY <1>1, <1>2, Induction
    <3> QED BY <3>1, CppValuesAssumption
  <2>2. g[WordBytes] = h[WordBytes]
    BY LoadIs
  <2> HIDE DEF same, g, h
  <2> QED BY <2>1, <2>2, CppValuesAssumption DEF S
<1> QED BY <1>3

\* Every byte of a value is in one of its words.
LEMMA InSomeWord ==
    ASSUME NEW k \in 1 .. Words * WordBytes
    PROVE  \E i \in 0 .. Words - 1, n \in 1 .. WordBytes : k = i * WordBytes + n
<1> PICK w \in Nat \ {0}, l \in Nat : w = WordBytes /\ l = Words
  BY CppValuesAssumption
<1> DEFINE S == {m \in Nat : \E i \in Nat, n \in 1 .. w : m + 1 = i * w + n}
<1>1. 0 \in S
  <2>1. 0 + 1 = 0 * w + 1 /\ 1 \in 1 .. w
    OBVIOUS
  <2> QED BY <2>1
<1>2. \A m \in Nat : m \in S => m + 1 \in S
  <2> SUFFICES ASSUME NEW m \in Nat, m \in S PROVE m + 1 \in S
    OBVIOUS
  <2> PICK i \in Nat, n \in 1 .. w : m + 1 = i * w + n
    OBVIOUS
  <2>1. CASE n < w
    <3> PICK o \in 1 .. w : o = n + 1
      BY <2>1
    <3>1. (m + 1) + 1 = i * w + o /\ m + 1 \in Nat
      OBVIOUS
    <3> QED BY <3>1
  <2>2. CASE n = w
    <3> PICK j \in Nat : j = i + 1
      OBVIOUS
    <3>1. 1 \in 1 .. w /\ j * w = i * w + w
      OBVIOUS
    <3>2. (m + 1) + 1 = j * w + 1 /\ m + 1 \in Nat
      BY <2>2, <3>1
    <3> QED BY <3>1, <3>2
  <2> QED BY <2>1, <2>2
<1> HIDE DEF S
<1>3. k - 1 \in S /\ (k - 1) + 1 = k
  <2>1. Nat \subseteq S
    BY <1>1, <1>2, Induction
  <2>2. k \in 1 .. l * w
    OBVIOUS
  <2>3. k - 1 \in Nat /\ (k - 1) + 1 = k
    BY <2>2
  <2> QED BY <2>1, <2>3
<1> PICK i \in Nat, n \in 1 .. w : k = i * w + n
  BY <1>3 DEF S
<1>4. i < l
  <2> SUFFICES ASSUME i >= l PROVE FALSE
    OBVIOUS
  <2> PICK d \in Nat : i = l + d
    <3>1. i - l \in Nat
      OBVIOUS
    <3> QED BY <3>1
  <2>1. i * w = l * w + d * w /\ d * w \in Nat /\ l * w \in Nat
    OBVIOUS
  <2>2. k <= l * w
    OBVIOUS
  <2> QED BY <2>1, <2>2
<1>5. i \in 0 .. Words - 1 /\ k = i * WordBytes + n
  BY <1>4
<1> QED BY <1>5

\* operator< tells apart exactly the values that differ, in any byte.
LEMMA LessDecides ==
    ASSUME NEW a \in Bytes, NEW b \in Bytes
    PROVE  ~Less(a, b) /\ ~Less(b, a) <=> a = b
<1>1. \A i \in 0 .. Words - 1 : load64be(a, i) \in Nat /\ load64be(b, i) \in Nat
  BY LoadIs, LoadedTyped, CppValuesAssumption
<1>2. a = b => ~Less(a, b) /\ ~Less(b, a)
  BY <1>1 DEF Less
<1>3. ASSUME ~Less(a, b), ~Less(b, a)
      PROVE  a = b
  <2> DEFINE D == {i \in 0 .. Words - 1 : load64be(a, i) # load64be(b, i)}
  <2>1. D = {}
    <3> SUFFICES ASSUME D # {} PROVE FALSE
      OBVIOUS
    <3>1. D \subseteq Nat
      OBVIOUS
    <3> PICK m \in D : \A i \in D : m <= i
      <4> HIDE DEF D
      <4> QED BY <3>1, Least
    <3>2. \A j \in 0 .. m - 1 : load64be(a, j) = load64be(b, j)
      <4>1. m \in 0 .. Words - 1 /\ Words \in Nat
        BY CppValuesAssumption
      <4>2. ASSUME NEW j \in 0 .. m - 1
            PROVE  j \in 0 .. Words - 1 /\ ~(m <= j)
        BY <4>1
      <4> QED BY <4>2
    <3>3. load64be(a, m) < load64be(b, m) \/ load64be(b, m) < load64be(a, m)
      BY <1>1
    <3>4. Less(a, b) \/ Less(b, a)
      BY <3>2, <3>3 DEF Less
    <3> QED BY <1>3, <3>4
  <2>2. ASSUME NEW k \in 1 .. Words * WordBytes
        PROVE  a[k] = b[k]
    <3> PICK i \in 0 .. Words - 1, n \in 1 .. WordBytes : k = i * WordBytes + n
      BY InSomeWord
    <3>1. load64be(a, i) = load64be(b, i)
      BY <2>1
    <3>2. a[i * WordBytes + n] = b[i * WordBytes + n]
      BY <3>1, LoadedSame
    <3> QED BY <3>2
  <2> HIDE DEF D
  <2> DEFINE I == 1 .. Words * WordBytes
  <2>3. a = [k \in I |-> a[k]] /\ b = [k \in I |-> b[k]]
    BY DEF Bytes
  <2> HIDE DEF I
  <2>4. \A k \in I : a[k] = b[k]
    BY <2>2 DEF I
  <2> QED BY <2>3, <2>4
<1> QED BY <1>2, <1>3

\* So a std::map keyed by them is a function: find() finds the entry of the key itself.
LEMMA LookupIs ==
    ASSUME NEW map, DOMAIN map \subseteq Bytes, NEW key \in Bytes, NEW absent
    PROVE  Lookup(map, key, absent) = IF key \in DOMAIN map THEN map[key] ELSE absent
<1>1. Found(map, key) = DOMAIN map \cap {key}
  BY LessDecides DEF Found
<1> QED BY <1>1 DEF Lookup

With(map, key, value) == [k \in DOMAIN map \cup {key} |-> IF k = key THEN value ELSE map[k]]

LEMMA InsertIs ==
    ASSUME NEW map, DOMAIN map \subseteq Bytes, NEW key \in Bytes, NEW value
    PROVE  Insert(map, key, value) = With(map, key, value)
<1>1. Found(map, key) = DOMAIN map \cap {key}
  BY LessDecides DEF Found
<1>2. (IF Found(map, key) = {} THEN key ELSE CHOOSE k \in Found(map, key) : TRUE) = key
  BY <1>1
<1> QED BY <1>2, Zenon DEF Insert, With

----------------------------------------------------------------------------
\* The storage of the host (examples/example_host.cpp).
Storages == UNION {[K -> Values] : K \in SUBSET Key}
Accounts == [balance : Values, codesize : Nat, codehash : Values, storage : Storages]

\* The nested maps have the keys they are asked for, and values.
Maps == UNION {[A -> Accounts] : A \in SUBSET Address}
MapsTyped == accounts \in Maps

\* The value that is stored in a map, without the lookups.
Has(m, addr, key) == addr \in DOMAIN m /\ key \in DOMAIN m[addr].storage
ValueIn(m, addr, key) == IF Has(m, addr, key) THEN m[addr].storage[key] ELSE ZeroBytes

LEMMA EmptyTyped == EmptyAccount \in Accounts /\ DOMAIN EmptyAccount.storage = {}
<1> DEFINE none == [k \in {} |-> ZeroBytes]
<1>1. none \in [{} -> Values] /\ {} \in SUBSET Key /\ DOMAIN none = {}
  OBVIOUS
<1>2. none \in Storages
  BY <1>1 DEF Storages
<1>3. EmptyAccount = [balance |-> ZeroBytes, codesize |-> 0, codehash |-> ZeroBytes,
                      storage |-> none]
  BY DEF EmptyAccount
<1> HIDE DEF none
<1>4. ZeroBytes \in Values
  BY ExampleHostAssumption
<1> QED BY <1>1, <1>2, <1>3, <1>4 DEF Accounts

LEMMA AccountIs ==
    ASSUME NEW m \in Maps, NEW addr \in Address
    PROVE  /\ Lookup(m, addr, EmptyAccount) = IF addr \in DOMAIN m THEN m[addr] ELSE EmptyAccount
           /\ Lookup(m, addr, EmptyAccount) \in Accounts
<1> PICK A \in SUBSET Address : m \in [A -> Accounts]
  BY DEF Maps
<1>1. DOMAIN m = A /\ DOMAIN m \subseteq Bytes /\ addr \in Bytes
  BY ExampleHostAssumption
<1>2. Lookup(m, addr, EmptyAccount) = IF addr \in DOMAIN m THEN m[addr] ELSE EmptyAccount
  BY <1>1, LookupIs
<1> QED BY <1>1, <1>2, EmptyTyped

LEMMA ValueInIs ==
    ASSUME NEW m \in Maps, NEW addr \in Address, NEW key \in Key
    PROVE  /\ Lookup(Lookup(m, addr, EmptyAccount).storage, key, ZeroBytes) = ValueIn(m, addr, key)
           /\ ValueIn(m, addr, key) \in Values
<1> DEFINE s == Lookup(m, addr, EmptyAccount).storage
<1>1. s \in Storages
  BY AccountIs DEF Accounts
<1> PICK K \in SUBSET Key : s \in [K -> Values]
  BY <1>1 DEF Storages
<1>2. DOMAIN s = K /\ DOMAIN s \subseteq Bytes /\ key \in Bytes
  BY ExampleHostAssumption
<1>3. Lookup(s, key, ZeroBytes) = IF key \in DOMAIN s THEN s[key] ELSE ZeroBytes
  <2> HIDE DEF s
  <2> QED BY <1>2, LookupIs
<1>4. (IF key \in DOMAIN s THEN s[key] ELSE ZeroBytes) \in Values
  BY <1>2, ExampleHostAssumption
<1>5. (IF key \in DOMAIN s THEN s[key] ELSE ZeroBytes) = ValueIn(m, addr, key)
  <2>1. CASE addr \in DOMAIN m
    BY <2>1, AccountIs DEF Has, ValueIn
  <2>2. CASE addr \notin DOMAIN m
    BY <2>2, AccountIs, EmptyTyped DEF Has, ValueIn
  <2> QED BY <2>1, <2>2
<1> QED BY <1>3, <1>4, <1>5

LEMMA StoredIs ==
    ASSUME MapsTyped, NEW addr \in Address, NEW key \in Key
    PROVE  StoredValue(addr, key) = ValueIn(accounts, addr, key)
BY ValueInIs DEF MapsTyped, StoredValue, AccountAt

\* What set_storage() makes of the maps: one value more, or another one.
LEMMA StoredMakes ==
    ASSUME MapsTyped, NEW addr \in Address, NEW key \in Key, NEW value \in Values
    PROVE  /\ Stored(addr, key, value) \in Maps
           /\ \A a \in Address, k \in Key :
                ValueIn(Stored(addr, key, value), a, k) =
                  IF a = addr /\ k = key THEN value ELSE ValueIn(accounts, a, k)
<1> DEFINE s == AccountAt(addr).storage
           t == Insert(s, key, value)
           account == [AccountAt(addr) EXCEPT !.storage = t]
           new == Stored(addr, key, value)
<1> PICK A \in SUBSET Address : accounts \in [A -> Accounts]
  BY DEF MapsTyped, Maps
<1>1. /\ DOMAIN accounts = A /\ DOMAIN accounts \subseteq Bytes
      /\ addr \in Bytes /\ key \in Bytes
  BY ExampleHostAssumption
<1>2. /\ AccountAt(addr) \in Accounts /\ s \in Storages
      /\ AccountAt(addr) = IF addr \in A THEN accounts[addr] ELSE EmptyAccount
  <2>1. AccountAt(addr) \in Accounts
        /\ AccountAt(addr) = IF addr \in DOMAIN accounts THEN accounts[addr] ELSE EmptyAccount
    BY AccountIs DEF AccountAt, MapsTyped
  <2> QED BY <1>1, <2>1 DEF Accounts
<1> PICK K \in SUBSET Key : s \in [K -> Values]
  BY <1>2 DEF Storages
<1>3. DOMAIN s = K /\ DOMAIN s \subseteq Bytes
  BY ExampleHostAssumption
<1>4. t = [k \in K \cup {key} |-> IF k = key THEN value ELSE s[k]]
  <2> HIDE DEF s
  <2>1. t = With(s, key, value)
    BY <1>1, <1>3, InsertIs
  <2> HIDE DEF t
  <2> QED BY <1>3, <2>1 DEF With
<1>5. t \in [K \cup {key} -> Values] /\ K \cup {key} \in SUBSET Key
  <2> HIDE DEF s, t
  <2> QED BY <1>4
<1>6. account \in Accounts /\ account.storage = t
  <2>1. t \in Storages
    <3> HIDE DEF t
    <3> QED BY <1>5 DEF Storages
  <2> HIDE DEF t
  <2> QED BY <1>2, <2>1 DEF Accounts
<1>7. new = [a \in A \cup {addr} |-> IF a = addr THEN account ELSE accounts[a]]
  <2>1. new = Insert(accounts, addr, account)
    BY DEF Stored
  <2> HIDE DEF account, new
  <2>2. new = With(accounts, addr, account)
    BY <1>1, <2>1, InsertIs
  <2> QED BY <1>1, <2>2 DEF With
<1>8. new \in [A \cup {addr} -> Accounts] /\ A \cup {addr} \in SUBSET Address
  <2> HIDE DEF account, new
  <2> QED BY <1>6, <1>7
<1>9. ASSUME NEW a \in Address, NEW k \in Key
      PROVE  ValueIn(new, a, k) = IF a = addr /\ k = key THEN value ELSE ValueIn(accounts, a, k)
  <2> HIDE DEF s, t, account, new
  <2>1. DOMAIN new = A \cup {addr} /\ DOMAIN t = K \cup {key} /\ DOMAIN s = K
    BY <1>3, <1>4, <1>7
  <2>2. CASE a # addr
    <3>1. a \in A => new[a] = accounts[a]
      BY <1>7, <2>2
    <3>2. Has(new, a, k) <=> Has(accounts, a, k)
      BY <1>1, <2>1, <2>2, <3>1 DEF Has
    <3>3. Has(accounts, a, k) => a \in A
      BY <1>1 DEF Has
    <3> QED BY <2>2, <3>1, <3>2, <3>3 DEF ValueIn
  <2>3. CASE a = addr
    <3>1. new[a].storage = t /\ a \in DOMAIN new
      BY <1>6, <1>7, <2>1, <2>3
    <3>2. ValueIn(new, a, k) = IF k \in K \cup {key} THEN t[k] ELSE ZeroBytes
      BY <2>1, <3>1 DEF ValueIn, Has
    <3>3. CASE k = key
      BY <1>4, <2>3, <3>2, <3>3
    <3>4. CASE k # key
      <4>1. ValueIn(new, a, k) = IF k \in K THEN s[k] ELSE ZeroBytes
        BY <1>4, <3>2, <3>4
      <4>2. CASE addr \in A
        <5>1. s = accounts[addr].storage
          BY <1>2, <4>2 DEF s
        <5> QED BY <1>1, <2>1, <2>3, <3>4, <4>1, <4>2, <5>1 DEF ValueIn, Has
      <4>3. CASE addr \notin A
        <5>1. K = {}
          BY <1>2, <2>1, <4>3, EmptyTyped DEF s
        <5> QED BY <1>1, <2>3, <3>4, <4>1, <4>3, <5>1 DEF ValueIn, Has
      <4> QED BY <4>2, <4>3
    <3> QED BY <3>3, <3>4
  <2> QED BY <2>2, <2>3
<1>10. new \in Maps
  <2> HIDE DEF new
  <2> QED BY <1>8 DEF Maps
<1> QED BY <1>9, <1>10

----------------------------------------------------------------------------
\* The map of slots that HostStorage keeps, made of the nested maps.
ViewOf(m) == [slot \in Slot |-> ValueIn(m, slot[1], slot[2])]

LEMMA ViewIs ==
    /\ MapsTyped => StorageView = ViewOf(accounts) /\ ViewOf(accounts) \in [Slot -> Values]
    /\ MapsTyped' => StorageView' = ViewOf(accounts')
<1>1. \A slot \in Slot : slot[1] \in Address /\ slot[2] \in Key
  BY DEF Slot
<1>2. ASSUME NEW m \in Maps
      PROVE  /\ \A slot \in Slot : Lookup(Lookup(m, slot[1], EmptyAccount).storage, slot[2], ZeroBytes)
                                     = ValueIn(m, slot[1], slot[2])
             /\ ViewOf(m) \in [Slot -> Values]
  BY <1>1, ValueInIs DEF ViewOf
<1>3. MapsTyped => StorageView = ViewOf(accounts) /\ ViewOf(accounts) \in [Slot -> Values]
  BY <1>2 DEF MapsTyped, StorageView, StoredValue, AccountAt, ViewOf
<1>4. MapsTyped' => StorageView' = ViewOf(accounts')
  BY <1>2 DEF MapsTyped, StorageView, StoredValue, AccountAt, ViewOf
<1> QED BY <1>3, <1>4

LEMMA ViewStored ==
    ASSUME MapsTyped, NEW addr \in Address, NEW key \in Key, NEW value \in Values
    PROVE  ViewOf(Stored(addr, key, value)) = [ViewOf(accounts) EXCEPT ![<<addr, key>>] = value]
<1> DEFINE new == Stored(addr, key, value)
<1>1. \A slot \in Slot : /\ slot[1] \in Address /\ slot[2] \in Key
                         /\ slot = <<addr, key>> <=> slot[1] = addr /\ slot[2] = key
  BY DEF Slot
<1>2. \A slot \in Slot : ValueIn(new, slot[1], slot[2]) =
        IF slot = <<addr, key>> THEN value ELSE ValueIn(accounts, slot[1], slot[2])
  BY <1>1, StoredMakes
<1> HIDE DEF new
<1> DEFINE v == ViewOf(accounts)
           w == ViewOf(new)
           at == <<addr, key>>
<1>3. v = [slot \in Slot |-> v[slot]] /\ w = [slot \in Slot |-> w[slot]]
  BY DEF ViewOf
<1>4. \A slot \in Slot : w[slot] = IF slot = at THEN value ELSE v[slot]
  BY <1>2 DEF ViewOf
<1> HIDE DEF v, w, at
<1>5. w = [v EXCEPT ![at] = value]
  BY <1>3, <1>4
<1> QED BY <1>5 DEF v, w, at, new

\* The steps of a host, for its storage.
LEMMA AskOther ==
    ASSUME NEW method, method \notin {"get_storage", "set_storage"}, NEW slot,
           NEW status, NEW word, NEW number,
           reply' = Reply(method, slot, status, word, number)
    PROVE  LastStorageCall' = Storage!NotStorage
BY DEF Reply, LastStorageCall, Storage!NotStorage

LEMMA StorageRead ==
    ASSUME MapsTyped, NEW addr \in Address, NEW key \in Key, GetStorage(addr, key)
    PROVE  /\ MapsTyped' /\ Storage!Next
           /\ accounts' = accounts
           /\ reply'.method = "get_storage" /\ reply'.word = StoredValue(addr, key)
<1>1. /\ accounts' = accounts
      /\ reply' = Reply("get_storage", <<addr, key>>, "none", StoredValue(addr, key), 0)
  BY DEF GetStorage, Answer
<1>2. MapsTyped' /\ StorageView' = StorageView
  BY <1>1, ViewIs DEF MapsTyped
<1>3. <<addr, key>> \in Slot /\ StorageView[<<addr, key>>] = StoredValue(addr, key)
  BY DEF Slot, StorageView
<1>4. LastStorageCall' = [method |-> "get_storage", slot |-> <<addr, key>>,
                          value |-> StorageView[<<addr, key>>]]
  BY <1>1, <1>3 DEF Reply, LastStorageCall
<1>5. Storage!Read(<<addr, key>>)
  BY <1>2, <1>4 DEF Storage!Read
<1>6. Storage!Next
  BY <1>3, <1>5 DEF Storage!Next
<1> QED BY <1>1, <1>2, <1>6 DEF Reply

LEMMA StorageWritten ==
    ASSUME MapsTyped, NEW addr \in Address, NEW key \in Key, NEW value \in Values,
           SetStorage(addr, key, value)
    PROVE  /\ MapsTyped' /\ Storage!Next /\ accounts' = Stored(addr, key, value)
           /\ reply'.method = "set_storage" /\ reply'.slot = <<addr, key>> /\ reply'.word = value
<1> DEFINE status == IF Equal(StoredValue(addr, key), value) THEN "ASSIGNED" ELSE "MODIFIED"
<1>1. /\ accounts' = Stored(addr, key, value)
      /\ reply' = Reply("set_storage", <<addr, key>>, status, value, 0)
  BY DEF SetStorage, Answer
<1> HIDE DEF status
<1>2. MapsTyped'
  BY <1>1, StoredMakes DEF MapsTyped
<1>3. StorageView' = [StorageView EXCEPT ![<<addr, key>>] = value]
  BY <1>1, <1>2, ViewIs, ViewStored
<1>4. LastStorageCall' = [method |-> "set_storage", slot |-> <<addr, key>>, value |-> value]
  BY <1>1 DEF Reply, LastStorageCall
<1>5. Storage!Write(<<addr, key>>, value) /\ <<addr, key>> \in Slot
  BY <1>3, <1>4 DEF Storage!Write, Slot
<1>6. Storage!Next
  BY <1>5 DEF Storage!Next
<1> QED BY <1>1, <1>2, <1>6 DEF Reply

\* What a step that is none of the two does.
Asks ==
    /\ accounts' = accounts /\ LastStorageCall' = Storage!NotStorage
    /\ reply'.method \notin {"get_storage", "set_storage"}

LEMMA AskAsks ==
    ASSUME NEW method, method \notin {"get_storage", "set_storage"},
           NEW status, NEW word, NEW number, Ask(method, status, word, number)
    PROVE  Asks
<1>1. accounts' = accounts /\ reply' = Reply(method, NoSlot, status, word, number)
  BY DEF Ask, Answer
<1> QED BY <1>1, AskOther DEF Asks, Reply

LEMMA HostSteps ==
    ASSUME HostNext
    PROVE  \/ Asks
           \/ \E addr \in Address, key \in Key : GetStorage(addr, key)
           \/ \E addr \in Address, key \in Key, value \in Values : SetStorage(addr, key, value)
<1>1. ASSUME NEW addr \in Address, AccountExists(addr) PROVE Asks
  BY <1>1, AskAsks DEF AccountExists, AskStatus
<1>2. ASSUME NEW addr \in Address, GetBalance(addr) PROVE Asks
  BY <1>2, AskAsks DEF GetBalance, AskWord
<1>3. ASSUME NEW addr \in Address, GetCodeSize(addr) PROVE Asks
  BY <1>3, AskAsks DEF GetCodeSize, AskNumber
<1>4. ASSUME NEW addr \in Address, GetCodeHash(addr) PROVE Asks
  BY <1>4, AskAsks DEF GetCodeHash, AskWord
<1>5. ASSUME NEW addr \in Address, NEW request \in Buffers, CopyCode(addr, request) PROVE Asks
  BY <1>5, AskAsks DEF CopyCode, AskNumber
<1>6. CASE Call
  BY <1>6, AskAsks DEF Call, AskStatus
<1>7. CASE GetTxContext
  BY <1>7, AskAsks DEF GetTxContext, AskNumber
<1>8. CASE EmitLog
  BY <1>8, AskAsks DEF EmitLog, AskStatus
<1>9. CASE AccessAccount \/ AccessStorage
  BY <1>9, AskAsks DEF AccessAccount, AccessStorage, AskStatus
<1>10. ASSUME NEW number \in Blocks, GetBlockHash(number) PROVE Asks
  BY <1>10, AskAsks DEF GetBlockHash, AskWord
<1> QED BY <1>1, <1>2, <1>3, <1>4, <1>5, <1>6, <1>7, <1>8, <1>9, <1>10 DEF HostNext

LEMMA HostRefines ==
    ASSUME MapsTyped, HostNext
    PROVE  MapsTyped' /\ Storage!Next
<1>1. CASE Asks
  <2>1. MapsTyped' /\ StorageView' = StorageView
    BY <1>1, ViewIs DEF Asks, MapsTyped
  <2>2. Storage!Next
    BY <1>1, <2>1 DEF Asks, Storage!Next, Storage!Other
  <2> QED BY <2>1, <2>2
<1> QED BY <1>1, HostSteps, StorageRead, StorageWritten

----------------------------------------------------------------------------
\* What was asked to be printed is what the host has; what was told is true.
Told ==
    /\ exit = 0 <=> result = <<SUCCESS>>
    /\ exit % 256 = 0 <=> \E status \in StatusCodes : result = <<status>> /\ status % 256 = 0
    /\ result = <<SUCCESS>> <=> printed = <<written>>
    /\ result # <<SUCCESS>> <=> printed = <<>>

Reports ==
    /\ phase \in Phases
    /\ MapsTyped /\ written = ValueIn(accounts, Recipient, ZeroBytes)
    /\ phase \in {"start", "context", "execute"} => result = <<>> /\ printed = <<>>
    /\ phase = "report" => printed = <<>> /\ \E status \in StatusCodes : result = <<status>>
    /\ phase \in {"release", "destroy_context", "destroy", "exited"} => Told

\* The exit statuses of the program's own failures: no multiple of 256.
LEMMA NotZero ==
    ASSUME NEW n \in -255 .. 255, n # 0
    PROVE  n % 256 # 0
<1>1. CASE n > 0
  BY <1>1
<1>2. CASE n < 0
  <2>1. n + 256 \in 1 .. 255 /\ n = (n + 256) + 256 * (-1)
    BY <1>2
  <2> QED BY <1>2, <2>1
<1> QED BY <1>1, <1>2

LEMMA FailureTold ==
    ASSUME result' = <<>>, printed' = <<>>, exit' \in -255 .. 255, exit' # 0
    PROVE  Told'
<1>1. exit' % 256 # 0
  BY NotZero
<1>2. result' # <<SUCCESS>> /\ \A status \in StatusCodes : result' # <<status>>
  OBVIOUS
<1>3. printed' # <<written'>>
  OBVIOUS
<1> QED BY <1>1, <1>2, <1>3 DEF Told

LEMMA RequestReports ==
    ASSUME Reports, Request
    PROVE  Reports' /\ Storage!Next
<1>1. /\ phase = "execute" /\ phase' = phase /\ result' = result /\ printed' = printed /\ HostNext
      /\ written' = IF reply'.method = "set_storage" /\ IsPrinted(reply'.slot)
                    THEN reply'.word ELSE written
      /\ MapsTyped /\ Recipient \in Address /\ ZeroBytes \in Key
  BY ExampleProgramAssumption DEF Request, output, Reports
<1>2. MapsTyped' /\ Storage!Next
  BY <1>1, HostRefines
<1>3. written' = ValueIn(accounts', Recipient, ZeroBytes)
  <2>1. CASE Asks
    BY <1>1, <2>1 DEF Asks, Reports
  <2>2. ASSUME NEW addr \in Address, NEW key \in Key, GetStorage(addr, key)
        PROVE  written' = ValueIn(accounts', Recipient, ZeroBytes)
    BY <1>1, <2>2, StorageRead DEF Reports
  <2>3. ASSUME NEW addr \in Address, NEW key \in Key, NEW value \in Values,
               SetStorage(addr, key, value)
        PROVE  written' = ValueIn(accounts', Recipient, ZeroBytes)
    <3>1. /\ accounts' = Stored(addr, key, value)
          /\ reply'.method = "set_storage" /\ reply'.slot = <<addr, key>> /\ reply'.word = value
      BY <1>1, <2>3, StorageWritten
    <3>2. ValueIn(Stored(addr, key, value), Recipient, ZeroBytes) =
            IF Recipient = addr /\ ZeroBytes = key THEN value
            ELSE ValueIn(accounts, Recipient, ZeroBytes)
      BY <1>1, StoredMakes
    <3>3. IsPrinted(<<addr, key>>) <=> Recipient = addr /\ ZeroBytes = key
      BY DEF IsPrinted
    <3>4. written' = IF Recipient = addr /\ ZeroBytes = key THEN value ELSE written
      BY <1>1, <3>1, <3>3
    <3> QED BY <3>1, <3>2, <3>4 DEF Reports
  <2> QED BY <1>1, <2>1, <2>2, <2>3, HostSteps
<1> QED BY <1>1, <1>2, <1>3 DEF Reports

LEMMA ReportSuccessReports ==
    ASSUME Reports, ReportSuccess
    PROVE  Reports' /\ Storage!Next
<1>1. /\ phase = "report" /\ phase' = "release" /\ result = <<SUCCESS>> /\ result' = result
      /\ printed' = <<reply'.word>> /\ exit' = 0 /\ written' = written
      /\ GetStorage(Recipient, ZeroBytes) /\ MapsTyped /\ Recipient \in Address /\ ZeroBytes \in Key
  BY ExampleProgramAssumption DEF ReportSuccess, Reports
<1>2. /\ MapsTyped' /\ Storage!Next
      /\ accounts' = accounts /\ reply'.word = ValueIn(accounts, Recipient, ZeroBytes)
  BY <1>1, StorageRead, StoredIs
<1>3. Told'
  <2>1. printed' = <<written'>> /\ printed' # <<>>
    BY <1>1, <1>2 DEF Reports
  <2>2. 0 % 256 = 0
    OBVIOUS
  <2>3. PICK status \in StatusCodes : result = <<status>>
    BY <1>1 DEF Reports
  <2>4. status = 0
    BY <1>1, <2>3 DEF SUCCESS
  <2>5. \E code \in StatusCodes : result' = <<code>> /\ code % 256 = 0
    BY <1>1, <2>2, <2>3, <2>4
  <2> QED BY <1>1, <2>1, <2>2, <2>5 DEF Told
<1> QED BY <1>1, <1>2, <1>3 DEF Reports, Phases

\* Every other step leaves the host alone.
LEMMA OtherReports ==
    ASSUME Reports, [Next]_vars, ~Request, ~ReportSuccess
    PROVE  Reports' /\ UNCHANGED hostVars
<1>1. hostVars' = hostVars /\ written' = written
  BY DEF Next, vars, CreateFails, CreateMismatched, GetVM, LoadFails, CreateContext, ContextFails,
         Execute, ReportFailure, Release, DestroyContext, Destroy
<1>2. accounts' = accounts
  BY <1>1 DEF hostVars
<1>3. MapsTyped' /\ written' = ValueIn(accounts', Recipient, ZeroBytes)
  BY <1>1, <1>2 DEF MapsTyped, Reports
<1> USE <1>3 DEF Reports, Phases
<1>4. CASE CreateFails
  <2>1. Told'
    BY <1>4, FailureTold DEF CreateFails, Return, VM_CREATION_FAILURE
  <2> QED BY <1>1, <1>4, <2>1 DEF CreateFails, Return
<1>5. CASE CreateMismatched
  <2>1. Told'
    BY <1>5, FailureTold DEF CreateMismatched, Return, ABI_VERSION_MISMATCH
  <2> QED BY <1>1, <1>5, <2>1 DEF CreateMismatched, Return
<1>6. ASSUME NEW error \in LoaderErrors, LoadFails(error)
      PROVE  Reports' /\ UNCHANGED hostVars
  <2>1. error \in -255 .. 255 /\ error # 0
    BY ExampleProgramAssumption
  <2>2. Told'
    BY <1>6, <2>1, FailureTold DEF LoadFails, Return
  <2> QED BY <1>1, <1>6, <2>2 DEF LoadFails, Return
<1>7. CASE ContextFails
  <2>1. Told'
    BY <1>7, FailureTold DEF ContextFails, Return, OUT_OF_MEMORY
  <2> QED BY <1>1, <1>7, <2>1 DEF ContextFails, Return
<1>8. CASE GetVM \/ CreateContext
  BY <1>1, <1>8 DEF GetVM, CreateContext, output
<1>9. ASSUME NEW status \in StatusCodes, Execute(status)
      PROVE  Reports' /\ UNCHANGED hostVars
  BY <1>1, <1>9 DEF Execute, output
<1>10. CASE ReportFailure
  <2>1. PICK status \in StatusCodes : result = <<status>>
    BY <1>10 DEF ReportFailure
  <2>2. status # 0 /\ status \in Int
    BY <1>10, <2>1, ExampleProgramAssumption DEF ReportFailure, SUCCESS
  <2>3. exit' = status /\ result' = <<status>> /\ printed' = <<>>
    BY <1>10, <2>1 DEF ReportFailure
  <2>4. result' # <<SUCCESS>> /\ \A code \in StatusCodes : result' = <<code>> <=> code = status
    BY <2>2, <2>3 DEF SUCCESS
  <2>5. exit' % 256 = 0 <=> \E code \in StatusCodes : result' = <<code>> /\ code % 256 = 0
    BY <2>1, <2>3, <2>4
  <2>6. printed' # <<written'>>
    BY <2>3
  <2>7. Told'
    BY <2>2, <2>3, <2>4, <2>5, <2>6 DEF Told
  <2> QED BY <1>1, <1>10, <2>7 DEF ReportFailure
<1>11. CASE Release \/ DestroyContext \/ Destroy
  <2>1. Told'
    BY <1>1, <1>11 DEF Release, DestroyContext, Destroy, output, Told
  <2> QED BY <1>1, <1>11, <2>1 DEF Release, DestroyContext, Destroy, output
<1>12. CASE UNCHANGED vars
  <2>1. Told' <=> Told
    BY <1>12 DEF vars, Told
  <2> QED BY <1>1, <1>12, <2>1 DEF vars
<1> QED BY <1>4, <1>5, <1>6, <1>7, <1>8, <1>9, <1>10, <1>11, <1>12 DEF Next

LEMMA ReportsInitially == Init => Reports /\ Storage!Init
<1> SUFFICES ASSUME Init PROVE Reports /\ Storage!Init
  OBVIOUS
<1>1. accounts = [addr \in {} |-> EmptyAccount] /\ reply = NoReply
  BY DEF Init, HostInit
<1>2. MapsTyped /\ DOMAIN accounts = {}
  <2>1. accounts \in [{} -> Accounts] /\ {} \in SUBSET Address
    BY <1>1
  <2> QED BY <1>1, <2>1 DEF MapsTyped, Maps
<1>3. ValueIn(accounts, Recipient, ZeroBytes) = ZeroBytes
  BY <1>2 DEF ValueIn, Has
<1>4. Reports
  BY <1>2, <1>3 DEF Init, Reports, Phases
<1>5. StorageView \in [Slot -> Values]
  BY <1>2, ViewIs
<1>6. LastStorageCall = Storage!NotStorage
  BY <1>1 DEF NoReply, Reply, LastStorageCall, Storage!NotStorage
<1> QED BY <1>4, <1>5, <1>6 DEF Storage!Init

LEMMA ReportsStep ==
    ASSUME Reports, [Next]_vars
    PROVE  Reports' /\ [Storage!Next]_<<StorageView, LastStorageCall>>
<1>1. CASE Request
  BY <1>1, RequestReports
<1>2. CASE ReportSuccess
  BY <1>2, ReportSuccessReports
<1>3. CASE ~Request /\ ~ReportSuccess
  <2>1. Reports' /\ accounts' = accounts /\ reply' = reply
    BY <1>3, OtherReports DEF hostVars
  <2>2. StorageView' = StorageView
    BY <2>1, ViewIs DEF Reports
  <2>3. LastStorageCall' = LastStorageCall
    BY <2>1 DEF LastStorageCall
  <2> QED BY <2>1, <2>2, <2>3
<1> QED BY <1>1, <1>2, <1>3

\* However many bytes and words values have, and whatever addresses and keys are used: the
\* nested std::maps of the host, searched by operator<, are the storage a VM expects.
THEOREM StorageImplemented == Spec => ImplementsHostStorage
BY ReportsInitially, ReportsStep, PTL DEF Spec, ImplementsHostStorage, Storage!Spec

\* For any VM, whatever codes it returns: main() returns zero exactly for a success, and then what
\* is printed is what the VM last wrote to the slot.  Its last byte, which is the exit status of
\* the process, is zero too for the failures of the VM that are multiples of 256, and for no other.
THEOREM AlwaysReportsTruly == Spec => []ReportsTruly
<1>1. Reports => ReportsTruly
  BY DEF Reports, ReportsTruly, Told
<1> QED BY <1>1, ReportsInitially, ReportsStep, PTL DEF Spec
=============================================================================

-------------------------- MODULE OwnershipProofs ---------------------------
(***************************************************************************)
(* Proofs about who owns what.  Ownership: nothing is released twice or     *)
(* never, for any number of results, structs and VM objects.                *)
(* RecordedCalls: a host owns the copies its record points to, and read     *)
(* through these pointers it is a value.                                    *)
(***************************************************************************)
EXTENDS Ownership, RecordedCalls, TLAPS

\* The types of the classes Result and VM; a result that does not exist releases nothing.
THEOREM TypeCorrect == Spec => []TypeOK
<1>1. Init => TypeOK
  BY OwnershipAssumption DEF Init, TypeOK, Holders
<1>2. TypeOK /\ [Next]_vars => TypeOK'
  <2> SUFFICES ASSUME TypeOK, [Next]_vars PROVE TypeOK'
    OBVIOUS
  <2> USE DEF TypeOK
  <2>1. ASSUME NEW x \in Holders, x \notin exists, Make(x), UNCHANGED machines PROVE TypeOK'
    BY <2>1 DEF Make, machines
  <2>2. ASSUME NEW x \in Holders, NEW y \in Holders, x \in exists, x # y, HandOver(x, y),
               exists' = exists \cup {y} \/ exists' = (exists \ {x}) \cup {y}, UNCHANGED machines,
               buffers' \subseteq buffers
        PROVE TypeOK'
    BY <2>2 DEF HandOver, machines
  <2>3. ASSUME NEW x \in Holders, Release(x) PROVE TypeOK'
    BY <2>3 DEF Release, machines
  <2>4. CASE VMStep
    <3>1. ASSUME NEW v \in VMs, ConstructVM(v) \/ DestroyVM(v) PROVE TypeOK'
      BY <3>1 DEF ConstructVM, DestroyVM, results
    <3>2. ASSUME NEW v \in VMs, NEW w \in VMs, MoveConstructVM(w, v) \/ MoveAssignVM(w, v)
          PROVE TypeOK'
      BY <3>2 DEF MoveConstructVM, MoveAssignVM, results
    <3> QED BY <2>4, <3>1, <3>2 DEF VMStep
  <2>5. CASE ResultStep
    <3>1. ASSUME NEW o \in Results, ConstructResult(o) \/ Release(o) PROVE TypeOK'
      BY <3>1, <2>1, <2>3 DEF ConstructResult, Holders
    <3>2. ASSUME NEW s \in Structs, MakeStruct(s) \/ Release(s) PROVE TypeOK'
      BY <3>2, <2>1, <2>3 DEF MakeStruct, Holders
    <3>3. ASSUME NEW o \in Results, NEW v \in VMs, Execute(v, o) PROVE TypeOK'
      BY <3>3, <2>1 DEF Execute, Holders
    <3>4. ASSUME NEW o \in Results, NEW s \in Structs, TakeStruct(s, o) \/ ReleaseRaw(o, s)
          PROVE TypeOK'
      BY <3>4, <2>2 DEF TakeStruct, ReleaseRaw, Holders
    <3>5. ASSUME NEW o \in Results, NEW p \in Results, MoveConstruct(p, o) \/ MoveAssign(p, o)
          PROVE TypeOK'
      BY <3>5, <2>2 DEF MoveConstruct, MoveAssign, Holders
    <3> QED BY <2>5, <3>1, <3>2, <3>3, <3>4, <3>5 DEF ResultStep
  <2>6. CASE UNCHANGED vars
    BY <2>6 DEF vars
  <2> QED BY <2>4, <2>5, <2>6 DEF Next
<1> QED BY <1>1, <1>2, PTL DEF Spec

----------------------------------------------------------------------------
\* One lemma per way in which results change: they are shared by several actions.
LEMMA MakeKeeps ==
    ASSUME TypeOK, ReleasedOnce, NEW x \in Holders, x \notin exists, Make(x)
    PROVE  ReleasedOnce'
<1>1. release[x] = FALSE
  BY DEF TypeOK
<1>2. CASE \E b \in Buffers \ buffers :
             /\ data' = [data EXCEPT ![x] = b]
             /\ release' = [release EXCEPT ![x] = TRUE]
             /\ buffers' = buffers \cup {b}
  BY <1>1, <1>2 DEF TypeOK, ReleasedOnce, Owns
<1>3. CASE \E releases \in BOOLEAN :
             /\ data' = [data EXCEPT ![x] = None]
             /\ release' = [release EXCEPT ![x] = releases]
             /\ UNCHANGED buffers
  BY <1>1, <1>3, OwnershipAssumption DEF TypeOK, ReleasedOnce, Owns
<1> QED BY <1>2, <1>3 DEF Make

\* The fields of x replace those of y, whose own output is released.
LEMMA HandOverKeeps ==
    ASSUME TypeOK, ReleasedOnce, NEW x \in Holders, NEW y \in Holders, x # y,
           HandOver(x, y), buffers' = buffers \ Released(y)
    PROVE  ReleasedOnce'
<1>1. /\ \A z \in Holders : release'[z] <=> \/ z = y /\ release[x]
                                            \/ z # x /\ z # y /\ release[z]
      /\ \A z \in Holders : data'[z] = IF z = y THEN data[x] ELSE data[z]
  BY DEF HandOver, TypeOK
<1>2. ASSUME NEW b \in buffers' PROVE \E z \in Holders : Owns(z, b)'
  <2>1. PICK z \in Holders : Owns(z, b)
    BY <1>2 DEF ReleasedOnce
  <2>2. z # y
    BY <2>1, <1>2 DEF Owns, Released
  <2> QED BY <2>1, <2>2, <1>1 DEF Owns
<1>3. ASSUME NEW z \in Holders, release'[z] PROVE data'[z] \in buffers' \cup {None}
  BY <1>1, <1>3 DEF ReleasedOnce, Released
<1>4. ASSUME NEW u \in Holders, NEW z \in Holders, release'[u], release'[z],
             data'[u] = data'[z], data'[u] # None
      PROVE  u = z
  BY <1>1, <1>4 DEF ReleasedOnce
<1> QED BY <1>2, <1>3, <1>4 DEF ReleasedOnce

LEMMA ReleaseKeeps ==
    ASSUME TypeOK, ReleasedOnce, NEW x \in Holders, Release(x)
    PROVE  ReleasedOnce'
<1>1. /\ \A z \in Holders : release'[z] <=> z # x /\ release[z]
      /\ data' = data
  BY DEF Release, TypeOK
<1> QED BY <1>1 DEF Release, Released, ReleasedOnce, Owns

\* What does not exist has nothing to release.
LEMMA NothingReleased ==
    ASSUME TypeOK, NEW x \in Holders, x \notin exists
    PROVE  buffers \ Released(x) = buffers
BY DEF TypeOK, Released

\* Result in qrvmc.hpp releases each output exactly once (see ReleasedOnce).
THEOREM OutputsReleasedOnce == Spec => []ReleasedOnce
<1>1. Init => ReleasedOnce
  BY DEF Init, ReleasedOnce
<1>2. TypeOK /\ ReleasedOnce /\ [Next]_vars => ReleasedOnce'
  <2> SUFFICES ASSUME TypeOK, ReleasedOnce, [Next]_vars PROVE ReleasedOnce'
    OBVIOUS
  <2>1. CASE ResultStep
    <3>1. ASSUME NEW o \in Results, ConstructResult(o) \/ Release(o) PROVE ReleasedOnce'
      BY <3>1, MakeKeeps, ReleaseKeeps DEF ConstructResult, Holders
    <3>2. ASSUME NEW s \in Structs, MakeStruct(s) \/ Release(s) PROVE ReleasedOnce'
      BY <3>2, MakeKeeps, ReleaseKeeps DEF MakeStruct, Holders
    <3>3. ASSUME NEW o \in Results, NEW v \in VMs, Execute(v, o) PROVE ReleasedOnce'
      BY <3>3, MakeKeeps DEF Execute, Holders
    <3>4. ASSUME NEW o \in Results, NEW s \in Structs, TakeStruct(s, o) \/ ReleaseRaw(o, s)
          PROVE ReleasedOnce'
      BY <3>4, HandOverKeeps, NothingReleased DEF TakeStruct, ReleaseRaw, Holders
    <3>5. ASSUME NEW o \in Results, NEW p \in Results, MoveConstruct(p, o) \/ MoveAssign(p, o)
          PROVE ReleasedOnce'
      BY <3>5, HandOverKeeps, NothingReleased DEF MoveConstruct, MoveAssign, Holders
    <3> QED BY <2>1, <3>1, <3>2, <3>3, <3>4, <3>5 DEF ResultStep
  <2>2. CASE VMStep \/ UNCHANGED vars
    <3>1. UNCHANGED <<data, release, buffers>>
      BY <2>2 DEF VMStep, ConstructVM, DestroyVM, MoveConstructVM, MoveAssignVM, results, vars
    <3> QED BY <3>1 DEF ReleasedOnce, Owns
  <2> QED BY <2>1, <2>2 DEF Next
<1> QED BY <1>1, <1>2, TypeCorrect, PTL DEF Spec

\* Outputs of existing results are released by assignments of other results only (see
\* OutputKept): MoveAssign is the one step that can free what an existing result owns.
THEOREM OutputsKept == Spec => OutputKept
<1> DEFINE Lost(x) == x \in exists \cap exists' /\ release[x] /\ data[x] \notin buffers' \cup {None}
           Replaced(x) == \E y \in exists \ {x} : data'[x] = data[y] /\ release'[x] = release[y]
<1>1. ASSUME TypeOK, ReleasedOnce, [Next]_vars, NEW x, Lost(x) PROVE Replaced(x)
  <2>1. x \in Holders /\ data[x] \in buffers \ buffers'
    BY <1>1 DEF TypeOK, ReleasedOnce
  <2>2. ASSUME NEW y \in Holders, buffers' = buffers \ Released(y) PROVE x = y
    BY <2>1, <2>2, <1>1 DEF Released, ReleasedOnce
  <2>3. ASSUME NEW y \in Holders PROVE ~Release(y)
    BY <2>2, <2>3, <1>1 DEF Release
  <2>4. ASSUME NEW p \in Results, NEW o \in Results, MoveAssign(p, o) PROVE Replaced(x)
    <3>1. x = o
      BY <2>2, <2>4 DEF MoveAssign, Holders
    <3>2. data'[o] = data[p] /\ release'[o] = release[p]
      BY <1>1, <2>4 DEF MoveAssign, HandOver, TypeOK, Holders
    <3> QED BY <3>1, <3>2, <2>4 DEF MoveAssign
  <2>5. ASSUME NEW y \in Holders PROVE ~Make(y)
    BY <2>1 DEF Make
  <2> QED BY <1>1, <2>1, <2>3, <2>4, <2>5
          DEF Next, ResultStep, VMStep, ConstructResult, MakeStruct, Execute, TakeStruct, ReleaseRaw,
              MoveConstruct, ConstructVM, DestroyVM, MoveConstructVM, MoveAssignVM, results, vars,
              Holders
<1>2. TypeOK /\ ReleasedOnce /\ [Next]_vars =>
        [\A x \in exists \cap exists' :
           release[x] /\ data[x] \notin buffers' \cup {None} =>
             \E y \in exists \ {x} : data'[x] = data[y] /\ release'[x] = release[y]]_vars
  BY <1>1
<1> QED BY <1>2, TypeCorrect, OutputsReleasedOnce, PTL DEF Spec, OutputKept

----------------------------------------------------------------------------
\* VM in qrvmc.hpp destroys each instance exactly once (see DestroyedOnce).
THEOREM InstancesDestroyedOnce == Spec => []DestroyedOnce
<1>1. Init => DestroyedOnce
  BY DEF Init, DestroyedOnce
<1>2. TypeOK /\ DestroyedOnce /\ [Next]_vars => DestroyedOnce'
  <2> SUFFICES ASSUME TypeOK, DestroyedOnce, [Next]_vars PROVE DestroyedOnce'
    OBVIOUS
  <2> USE DEF TypeOK, DestroyedOnce
  <2>1. ASSUME NEW v \in VMs, ConstructVM(v) PROVE DestroyedOnce'
    <3>1. instance[v] = None
      BY <2>1 DEF ConstructVM
    <3> QED BY <2>1, <3>1, OwnershipAssumption DEF ConstructVM
  <2>2. ASSUME NEW v \in VMs, DestroyVM(v) PROVE DestroyedOnce'
    BY <2>2, OwnershipAssumption DEF DestroyVM
  <2>3. ASSUME NEW v \in VMs, NEW w \in VMs, MoveConstructVM(w, v) PROVE DestroyedOnce'
    <3>1. instance[v] = None
      BY <2>3 DEF MoveConstructVM
    <3> QED BY <2>3, <3>1, OwnershipAssumption DEF MoveConstructVM
  <2>4. ASSUME NEW v \in VMs, NEW w \in VMs, MoveAssignVM(w, v) PROVE DestroyedOnce'
    BY <2>4, OwnershipAssumption DEF MoveAssignVM
  <2>5. CASE ResultStep \/ UNCHANGED vars
    <3>1. UNCHANGED <<instance, instances>>
      BY <2>5 DEF ResultStep, ConstructResult, MakeStruct, Execute, TakeStruct, ReleaseRaw,
                  MoveConstruct, MoveAssign, Release, machines, vars
    <3> QED BY <3>1
  <2> QED BY <2>1, <2>2, <2>3, <2>4, <2>5 DEF Next, VMStep
<1> QED BY <1>1, <1>2, TypeCorrect, PTL DEF Spec

----------------------------------------------------------------------------
\* RecordedCalls.

\* Users who erase single entries of recorded_calls use inputs too long for a string's own
\* storage only, as in the run records: the others are those of the run records_erased.
ErasersUseLong == erases => ErasersInputs \subseteq Long

\* One host: its strings are in use, each in a place of its own, and its pointers lead to them;
\* users who do not erase have recorded a call for each string, within the reserved room.
HostInv(h) ==
    /\ calls[h] \in Seq(Places \cup {Null})
    /\ inputs[h] \in Seq(Places)
    /\ capacity[h] \in Nat
    /\ IsInjective(inputs[h])
    /\ Strings(inputs[h]) \subseteq DOMAIN memory
    /\ Strings(calls[h]) \subseteq Strings(inputs[h]) \cup {Null}
    /\ ~erases /\ calls[h] # <<>> =>
         Len(inputs[h]) <= Len(calls[h]) /\ MaxRecorded <= capacity[h]

Disjoint(g, h) == Strings(inputs[g]) \cap Strings(inputs[h]) = {}

\* No two hosts share a string, and the strings of users who erase never move.
RecordsInv ==
    /\ ErasersUseLong
    /\ DOMAIN inputs = DOMAIN calls /\ DOMAIN capacity = DOMAIN calls
    /\ \A h \in DOMAIN calls : HostInv(h)
    /\ \A g, h \in DOMAIN calls : g # h => Disjoint(g, h)
    /\ DOMAIN memory \subseteq Places
    /\ erases => \A b \in DOMAIN memory : memory[b] \in Long

\* A step leaves the host x alone, and the strings it has.
Untouched(x) ==
    /\ x \in DOMAIN calls
    /\ calls'[x] = calls[x] /\ inputs'[x] = inputs[x] /\ capacity'[x] = capacity[x]
    /\ \A b \in Strings(inputs[x]) : b \in DOMAIN memory' /\ memory'[b] = memory[b]

\* What is to be shown of a step that changes the hosts in S.
LEMMA InvStays ==
    ASSUME RecordsInv, NEW S, erases' = erases,
           DOMAIN inputs' = DOMAIN calls', DOMAIN capacity' = DOMAIN calls',
           \A x \in DOMAIN calls' \ S : Untouched(x),
           \A x \in DOMAIN calls' \cap S : HostInv(x)',
           \A x \in DOMAIN calls' \cap S : \A y \in DOMAIN calls' : x # y => Disjoint(x, y)',
           DOMAIN memory' \subseteq Places,
           erases => \A b \in DOMAIN memory' : memory'[b] \in Long
    PROVE  RecordsInv'
<1>1. ASSUME NEW h \in DOMAIN calls' PROVE HostInv(h)'
  <2>1. CASE h \in S
    BY <2>1
  <2>2. CASE h \notin S
    <3>1. HostInv(h) /\ Untouched(h)
      BY <2>2 DEF RecordsInv, Untouched
    <3> QED BY <3>1 DEF HostInv, Untouched
  <2> QED BY <2>1, <2>2
<1>2. ASSUME NEW g \in DOMAIN calls', NEW h \in DOMAIN calls', g # h PROVE Disjoint(g, h)'
  <2>1. CASE g \in S \/ h \in S
    BY <1>2, <2>1 DEF Disjoint
  <2>2. CASE g \notin S /\ h \notin S
    BY <1>2, <2>2 DEF Untouched, RecordsInv, Disjoint
  <2> QED BY <2>1, <2>2
<1>3. ErasersUseLong'
  BY DEF RecordsInv, ErasersUseLong
<1> QED BY <1>1, <1>2, <1>3 DEF RecordsInv

\* What a record reads like, with a given memory behind its pointers.
ReadIn(m, pointer) ==
    CASE pointer = Null -> Empty
      [] pointer \in DOMAIN m -> m[pointer]
      [] OTHER -> "garbage"
RecordIn(m, record) == [k \in DOMAIN record |-> ReadIn(m, record[k])]
Shows == [h \in DOMAIN calls |-> RecordIn(memory, calls[h])]

\* CallLog about this: Log in RecordedCalls, in other words.
Promise == INSTANCE CallLog WITH log <- Shows

\* Strings that stay read the same.
LEMMA SameRead ==
    ASSUME NEW m, NEW n, Null \notin DOMAIN m, Null \notin DOMAIN n,
           NEW record, NEW strings, Strings(record) \subseteq strings \cup {Null},
           \A b \in strings : b \in DOMAIN m /\ b \in DOMAIN n /\ n[b] = m[b]
    PROVE  RecordIn(n, record) = RecordIn(m, record)
<1>1. ASSUME NEW k \in DOMAIN record PROVE ReadIn(n, record[k]) = ReadIn(m, record[k])
  <2> DEFINE b == record[k]
  <2>1. b = Null \/ b \in strings
    BY DEF Strings, Range
  <2>2. CASE b = Null
    <3>1. ReadIn(m, Null) = Empty /\ ReadIn(n, Null) = Empty
      BY Zenon DEF ReadIn
    <3> QED BY <2>2, <3>1
  <2>3. CASE b # Null /\ b \in strings
    <3>1. b \in DOMAIN m /\ b \in DOMAIN n /\ n[b] = m[b]
      BY <2>3
    <3>2. ReadIn(n, b) = n[b]
      BY <2>3, <3>1, Zenon DEF ReadIn
    <3>3. ReadIn(m, b) = m[b]
      BY <2>3, <3>1, Zenon DEF ReadIn
    <3> QED BY <3>1, <3>2, <3>3
  <2> QED BY <2>1, <2>2, <2>3
<1> QED BY <1>1, Zenon DEF RecordIn

LEMMA UntouchedShows ==
    ASSUME RecordsInv, RecordsInv', NEW x, Untouched(x)
    PROVE  RecordIn(memory', calls'[x]) = RecordIn(memory, calls[x])
<1>1. /\ Strings(calls[x]) \subseteq Strings(inputs[x]) \cup {Null}
      /\ \A b \in Strings(inputs[x]) :
           b \in DOMAIN memory /\ b \in DOMAIN memory' /\ memory'[b] = memory[b]
  BY DEF RecordsInv, HostInv, Untouched
<1>2. calls'[x] = calls[x]
  BY DEF Untouched
<1>3. Null \notin DOMAIN memory /\ Null \notin DOMAIN memory'
  BY RecordedCallsAssumption DEF RecordsInv
<1> QED BY <1>1, <1>2, <1>3, SameRead

\* A step of one host is one of CallLog on its record, whatever that has become.
LEMMA LogBecomes ==
    ASSUME RecordsInv, RecordsInv', NEW h, DOMAIN calls' = DOMAIN calls \cup {h},
           \A x \in DOMAIN calls \ {h} : Untouched(x)
    PROVE  Promise!Become(h, RecordIn(memory', calls'[h]))
<1>1. \A x \in DOMAIN calls' : RecordIn(memory', calls'[x]) =
                                 IF x = h THEN RecordIn(memory', calls'[h]) ELSE Shows[x]
  BY UntouchedShows DEF Shows
<1>2. DOMAIN Shows = DOMAIN calls
  BY DEF Shows
<1>3. Shows' = [x \in DOMAIN Shows \cup {h} |->
                  IF x = h THEN RecordIn(memory', calls'[h]) ELSE Shows[x]]
  BY <1>1, <1>2 DEF Shows
<1> QED BY <1>3 DEF Promise!Become

LEMMA LogShows ==
    DOMAIN Shows = DOMAIN calls /\ \A h \in DOMAIN calls : Shows[h] = RecordIn(memory, calls[h])
BY DEF Shows

----------------------------------------------------------------------------
\* What emplace_back() has before it, when the old copies were destroyed.
LEMMA KeptIs ==
    ASSUME RecordsInv, NEW h \in DOMAIN calls
    PROVE  /\ Kept(h) \in Seq(Places) /\ IsInjective(Kept(h)) /\ Room(h) \in Nat
           /\ Strings(Kept(h)) \subseteq Strings(inputs[h])
           /\ Strings(calls[h]) \subseteq Strings(Kept(h)) \cup {Null}
           /\ ~erases => Len(Kept(h)) <= Len(calls[h]) /\ MaxRecorded <= Room(h)
<1> HostInv(h)
  BY DEF RecordsInv
<1>1. CASE calls[h] = <<>>
  <2>1. Kept(h) = <<>> /\ Strings(<<>>) = {}
    BY <1>1 DEF Kept, Strings, Range
  <2>2. Room(h) \in Nat /\ MaxRecorded <= Room(h)
    BY <1>1, RecordedCallsAssumption DEF Room, Reserved, Max2, HostInv
  <2> QED BY <1>1, <2>1, <2>2 DEF IsInjective
<1>2. CASE calls[h] # <<>>
  BY <1>2 DEF Kept, Room, HostInv
<1> QED BY <1>1, <1>2

\* What is in memory once the old copies are destroyed.
Live(h) == DOMAIN memory \ (Strings(inputs[h]) \ Strings(Kept(h)))

\* Nothing moves: there is room, or the strings are long.
LEMMA Emplaced ==
    ASSUME RecordsInv, NEW h \in DOMAIN calls, Len(calls[h]) < MaxRecorded,
           NEW input, EmplaceBack(h, input)
    PROVE  \E b \in Places \ Live(h) :
             /\ calls' = [calls EXCEPT ![h] = Append(@, b)]
             /\ inputs' = [inputs EXCEPT ![h] = Append(Kept(h), b)]
             /\ \E n \in Nat : Room(h) <= n /\ capacity' = [capacity EXCEPT ![h] = n]
             /\ memory' = [c \in Live(h) \cup {b} |-> IF c = b THEN input ELSE memory[c]]
<1> HostInv(h)
  BY DEF RecordsInv
<1> DEFINE grows == Len(Kept(h)) = Room(h)
           moving == {i \in DOMAIN Kept(h) : grows /\ memory[Kept(h)[i]] \in Short}
           added == Len(Kept(h)) + 1
           dropped == Strings(inputs[h]) \ Strings(Kept(h))
           room == IF grows THEN Max2(1, 2 * Room(h)) ELSE Room(h)
<1>1. moving = {}
  <2>1. CASE erases
    <3>1. \A i \in DOMAIN Kept(h) : Kept(h)[i] \in DOMAIN memory
      BY KeptIs DEF HostInv, Strings, Range
    <3>2. \A i \in DOMAIN Kept(h) : memory[Kept(h)[i]] \notin Short
      BY <2>1, <3>1, RecordedCallsAssumption DEF RecordsInv
    <3> QED BY <3>2
  <2>2. CASE ~erases
    <3>1. PICK k \in Nat, c \in Nat, r \in Nat :
            k = Len(Kept(h)) /\ c = Len(calls[h]) /\ r = Room(h)
      BY KeptIs DEF HostInv
    <3>2. k <= c /\ c < MaxRecorded /\ MaxRecorded <= r /\ MaxRecorded \in Nat
      BY <2>2, <3>1, KeptIs, RecordedCallsAssumption
    <3>3. ~grows
      BY <3>1, <3>2
    <3> QED BY <3>3
  <2> QED BY <2>1, <2>2
<1>2. PICK place \in Placements(moving \cup {added}, DOMAIN Without(memory, dropped)) :
        /\ inputs' = [inputs EXCEPT ![h] =
                        [i \in 1 .. added |-> IF i \in DOMAIN place THEN place[i] ELSE Kept(h)[i]]]
        /\ memory' = [b \in (DOMAIN Without(memory, dropped)
                               \ {Kept(h)[i] : i \in moving}) \cup Strings(place) |->
                        IF b = place[added] THEN input
                        ELSE IF b \in Strings(place)
                             THEN memory[Kept(h)[CHOOSE i \in moving : place[i] = b]]
                             ELSE memory[b]]
        /\ capacity' = [capacity EXCEPT ![h] = room]
        /\ calls' = [calls EXCEPT ![h] = Append(@, place[added])]
  BY Zenon DEF EmplaceBack
<1> HIDE DEF moving, room
<1> DEFINE b == place[added]
<1>3. DOMAIN Without(memory, dropped) = Live(h)
  BY DEF Without, Live
<1>4. DOMAIN place = {added} /\ b \in Places \ Live(h) /\ Strings(place) = {b}
  BY <1>1, <1>2, <1>3 DEF Placements, Strings, Range
<1>5. [i \in 1 .. added |-> IF i \in DOMAIN place THEN place[i] ELSE Kept(h)[i]]
        = Append(Kept(h), b)
  <2>1. Kept(h) \in Seq(Places) /\ b \in Places
    BY <1>4, KeptIs
  <2>2. [i \in 1 .. added |-> IF i \in DOMAIN place THEN place[i] ELSE Kept(h)[i]]
          = [i \in 1 .. added |-> IF i = added THEN b ELSE Kept(h)[i]]
    BY <1>4
  <2> QED BY <2>1, <2>2
<1>6. memory' = [c \in Live(h) \cup {b} |-> IF c = b THEN input ELSE memory[c]]
  <2> HIDE DEF b
  <2>1. DOMAIN memory' = Live(h) \cup {b}
    BY <1>1, <1>2, <1>3, <1>4
  <2>2. \A c \in Live(h) \cup {b} : memory'[c] = IF c = b THEN input ELSE memory[c]
    BY <1>1, <1>2, <1>3, <1>4 DEF b
  <2> QED BY <1>1, <1>2, <1>3, <1>4, <2>1, <2>2
<1>7. room \in Nat /\ Room(h) <= room
  BY KeptIs DEF room, Max2
<1> QED BY <1>2, <1>4, <1>5, <1>6, <1>7

----------------------------------------------------------------------------
\* A step of one host: what is to be shown about it, and what follows for the record.
LEMMA OneHost ==
    ASSUME RecordsInv, NEW h, erases' = erases,
           DOMAIN calls' = DOMAIN calls \cup {h}, DOMAIN inputs' = DOMAIN calls \cup {h},
           DOMAIN capacity' = DOMAIN calls \cup {h},
           \A x \in DOMAIN calls \ {h} :
             calls'[x] = calls[x] /\ inputs'[x] = inputs[x] /\ capacity'[x] = capacity[x],
           \A x \in DOMAIN calls \ {h} : \A b \in Strings(inputs[x]) :
             b \notin Strings(inputs'[h]) /\ b \in DOMAIN memory' /\ memory'[b] = memory[b],
           HostInv(h)', DOMAIN memory' \subseteq Places,
           erases => \A b \in DOMAIN memory' : memory'[b] \in Long
    PROVE  RecordsInv' /\ Promise!Become(h, RecordIn(memory', calls'[h]))
<1>1. \A x \in DOMAIN calls \ {h} : Untouched(x)
  BY DEF Untouched
<1>2. \A x \in DOMAIN calls' \cap {h} : \A y \in DOMAIN calls' : x # y => Disjoint(x, y)'
  BY DEF Disjoint
<1>3. RecordsInv'
  <2> DEFINE S == {h}
  <2>1. /\ \A x \in DOMAIN calls' \ S : Untouched(x)
        /\ \A x \in DOMAIN calls' \cap S : HostInv(x)'
        /\ \A x \in DOMAIN calls' \cap S : \A y \in DOMAIN calls' : x # y => Disjoint(x, y)'
    BY <1>1, <1>2
  <2> HIDE DEF S
  <2> QED BY <2>1, InvStays
<1> QED BY <1>1, <1>3, LogBecomes

LEMMA AppendedStrings ==
    ASSUME NEW X, NEW s \in Seq(X), NEW b \in X
    PROVE  Strings(Append(s, b)) = Strings(s) \cup {b}
<1> DEFINE t == Append(s, b)
<1>1. /\ Len(s) \in Nat /\ DOMAIN s = 1 .. Len(s) /\ DOMAIN t = 1 .. Len(s) + 1
      /\ t[Len(s) + 1] = b /\ \A k \in 1 .. Len(s) : t[k] = s[k]
  OBVIOUS
<1> HIDE DEF t
<1>2. ASSUME NEW c \in Strings(t) PROVE c \in Strings(s) \cup {b}
  <2>1. PICK k \in 1 .. Len(s) + 1 : c = t[k]
    BY <1>1, <1>2 DEF Strings, Range
  <2>2. k = Len(s) + 1 \/ k \in 1 .. Len(s)
    BY <1>1
  <2> QED BY <1>1, <2>1, <2>2 DEF Strings, Range
<1>3. ASSUME NEW c \in Strings(s) PROVE c \in Strings(t)
  <2>1. PICK k \in 1 .. Len(s) : c = s[k]
    BY <1>1, <1>3 DEF Strings, Range
  <2>2. k \in DOMAIN t /\ c = t[k]
    BY <1>1, <2>1
  <2> QED BY <2>2 DEF Strings, Range
<1>4. b \in Strings(t)
  <2>1. Len(s) + 1 \in DOMAIN t
    BY <1>1
  <2> QED BY <1>1, <2>1 DEF Strings, Range
<1>5. Strings(t) = Strings(s) \cup {b}
  BY <1>2, <1>3, <1>4
<1> QED BY <1>5 DEF t

LEMMA AppendedInjective ==
    ASSUME NEW X, NEW s \in Seq(X), IsInjective(s), NEW b \in X, b \notin Strings(s)
    PROVE  IsInjective(Append(s, b))
<1> DEFINE t == Append(s, b)
<1>1. /\ Len(s) \in Nat /\ DOMAIN s = 1 .. Len(s) /\ DOMAIN t = 1 .. Len(s) + 1
      /\ t[Len(s) + 1] = b /\ \A k \in 1 .. Len(s) : t[k] = s[k]
  OBVIOUS
<1> HIDE DEF t
<1>2. \A k \in 1 .. Len(s) : s[k] # b
  BY <1>1 DEF Strings, Range
<1>3. ASSUME NEW j \in DOMAIN t, NEW k \in DOMAIN t, t[j] = t[k] PROVE j = k
  <2>1. (j = Len(s) + 1 \/ j \in 1 .. Len(s)) /\ (k = Len(s) + 1 \/ k \in 1 .. Len(s))
    BY <1>1
  <2>2. CASE j \in 1 .. Len(s) /\ k \in 1 .. Len(s)
    BY <1>1, <1>3, <2>2 DEF IsInjective
  <2>3. CASE ~(j \in 1 .. Len(s) /\ k \in 1 .. Len(s))
    BY <1>1, <1>2, <1>3, <2>1, <2>3
  <2> QED BY <2>2, <2>3
<1>4. IsInjective(t)
  BY <1>3 DEF IsInjective
<1> QED BY <1>4 DEF t

LEMMA RecordIs ==
    ASSUME NEW m, NEW X, NEW record \in Seq(X)
    PROVE  /\ RecordIn(m, record) \in Seq({ReadIn(m, p) : p \in X})
           /\ Len(RecordIn(m, record)) = Len(record)
           /\ \A k \in 1 .. Len(record) : RecordIn(m, record)[k] = ReadIn(m, record[k])
<1> HIDE DEF ReadIn
<1> QED BY DEF RecordIn

LEMMA RecordAppended ==
    ASSUME NEW m, NEW X, NEW record \in Seq(X), NEW p \in X
    PROVE  RecordIn(m, Append(record, p)) = Append(RecordIn(m, record), ReadIn(m, p))
<1> DEFINE R == {ReadIn(m, q) : q \in X}
           more == Append(record, p)
           n == Len(record)
           old == RecordIn(m, record)
           new == RecordIn(m, more)
           last == ReadIn(m, p)
<1>1. /\ n \in Nat /\ more \in Seq(X) /\ Len(more) = n + 1 /\ more[n + 1] = p
      /\ \A k \in 1 .. n : more[k] = record[k]
  OBVIOUS
<1>2. old \in Seq(R) /\ Len(old) = n /\ \A k \in 1 .. n : old[k] = ReadIn(m, record[k])
  BY RecordIs
<1> HIDE DEF more
<1>3. new \in Seq(R) /\ Len(new) = n + 1 /\ \A k \in 1 .. n + 1 : new[k] = ReadIn(m, more[k])
  <2> HIDE DEF R
  <2>1. /\ new \in Seq({ReadIn(m, q) : q \in X}) /\ Len(new) = Len(more)
        /\ \A k \in 1 .. Len(more) : new[k] = ReadIn(m, more[k])
    BY <1>1, RecordIs
  <2> QED BY <1>1, <2>1 DEF R
<1>4. last \in R
  OBVIOUS
<1> HIDE DEF R, n, old, new, last
<1> DEFINE other == Append(old, last)
<1>5. /\ other \in Seq(R) /\ Len(other) = n + 1 /\ other[n + 1] = last
      /\ \A k \in 1 .. n : other[k] = old[k]
  BY <1>1, <1>2, <1>4
<1> HIDE DEF other
<1>6. ASSUME NEW k \in 1 .. n + 1 PROVE new[k] = other[k]
  <2>1. CASE k = n + 1
    BY <2>1, <1>1, <1>3, <1>5 DEF last
  <2>2. CASE k \in 1 .. n
    BY <2>2, <1>1, <1>2, <1>3, <1>5
  <2>3. n \in Nat
    BY <1>1
  <2> QED BY <2>1, <2>2, <2>3
<1>7. new = other
  BY <1>3, <1>5, <1>6
<1> QED BY <1>7 DEF new, old, last, more, other

LEMMA RecordCut ==
    ASSUME NEW m, NEW X, NEW record \in Seq(X), NEW n \in 0 .. Len(record)
    PROVE  RecordIn(m, SubSeq(record, 1, n)) = SubSeq(RecordIn(m, record), 1, n)
<1> DEFINE R == {ReadIn(m, q) : q \in X}
           one == RecordIn(m, SubSeq(record, 1, n))
           other == SubSeq(RecordIn(m, record), 1, n)
<1>1. SubSeq(record, 1, n) \in Seq(X) /\ Len(SubSeq(record, 1, n)) = n
  OBVIOUS
<1>2. /\ RecordIn(m, record) \in Seq(R) /\ Len(RecordIn(m, record)) = Len(record)
      /\ \A k \in 1 .. Len(record) : RecordIn(m, record)[k] = ReadIn(m, record[k])
  BY RecordIs
<1>3. one \in Seq(R) /\ Len(one) = n
  BY <1>1, RecordIs
<1>4. other \in Seq(R) /\ Len(other) = n
  <2> HIDE DEF R
  <2> QED BY <1>2
<1>5. ASSUME NEW k \in 1 .. n PROVE one[k] = other[k]
  <2>1. one[k] = ReadIn(m, SubSeq(record, 1, n)[k])
    BY <1>1, RecordIs
  <2>2. SubSeq(record, 1, n)[k] = record[k]
    OBVIOUS
  <2>3. other[k] = RecordIn(m, record)[k]
    <3> HIDE DEF R
    <3> QED BY <1>2
  <2> QED BY <1>2, <2>1, <2>2, <2>3
<1> HIDE DEF one, other, R
<1>6. one = other
  BY <1>3, <1>4, <1>5
<1> QED BY <1>6 DEF one, other

----------------------------------------------------------------------------
\* The steps.

LEMMA HostsWith ==
    ASSUME RecordsInv, NEW h, NEW c, NEW i, NEW n, calls' = With(calls, h, c),
           inputs' = With(inputs, h, i), capacity' = With(capacity, h, n)
    PROVE  /\ DOMAIN calls' = DOMAIN calls \cup {h} /\ DOMAIN inputs' = DOMAIN calls \cup {h}
           /\ DOMAIN capacity' = DOMAIN calls \cup {h}
           /\ \A x \in DOMAIN calls \ {h} :
                calls'[x] = calls[x] /\ inputs'[x] = inputs[x] /\ capacity'[x] = capacity[x]
           /\ calls'[h] = c /\ inputs'[h] = i /\ capacity'[h] = n
<1>1. DOMAIN inputs = DOMAIN calls /\ DOMAIN capacity = DOMAIN calls
  BY DEF RecordsInv
<1>2. DOMAIN calls' = DOMAIN calls \cup {h} /\ calls'[h] = c
      /\ \A x \in DOMAIN calls \ {h} : calls'[x] = calls[x]
  BY DEF With
<1>3. DOMAIN inputs' = DOMAIN calls \cup {h} /\ inputs'[h] = i
      /\ \A x \in DOMAIN calls \ {h} : inputs'[x] = inputs[x]
  BY <1>1 DEF With
<1>4. DOMAIN capacity' = DOMAIN calls \cup {h} /\ capacity'[h] = n
      /\ \A x \in DOMAIN calls \ {h} : capacity'[x] = capacity[x]
  BY <1>1 DEF With
<1> QED BY <1>2, <1>3, <1>4

LEMMA ConstructIs ==
    ASSUME RecordsInv, erases' = erases, NEW h, Construct(h)
    PROVE  RecordsInv' /\ Promise!Start(h)
<1>1. /\ DOMAIN calls' = DOMAIN calls \cup {h} /\ DOMAIN inputs' = DOMAIN calls \cup {h}
      /\ DOMAIN capacity' = DOMAIN calls \cup {h}
      /\ \A x \in DOMAIN calls \ {h} :
           calls'[x] = calls[x] /\ inputs'[x] = inputs[x] /\ capacity'[x] = capacity[x]
      /\ calls'[h] = <<>> /\ inputs'[h] = <<>> /\ capacity'[h] = 0
  <2>1. PICK nothing, zero : nothing = <<>> /\ zero = 0
    OBVIOUS
  <2>2. /\ calls' = With(calls, h, nothing) /\ inputs' = With(inputs, h, nothing)
        /\ capacity' = With(capacity, h, zero)
    BY <2>1 DEF Construct
  <2> HIDE DEF With
  <2>3. /\ DOMAIN calls' = DOMAIN calls \cup {h} /\ DOMAIN inputs' = DOMAIN calls \cup {h}
        /\ DOMAIN capacity' = DOMAIN calls \cup {h}
        /\ \A x \in DOMAIN calls \ {h} :
             calls'[x] = calls[x] /\ inputs'[x] = inputs[x] /\ capacity'[x] = capacity[x]
        /\ calls'[h] = nothing /\ inputs'[h] = nothing /\ capacity'[h] = zero
    BY <2>2, HostsWith
  <2> QED BY <2>1, <2>3
<1>2. Strings(<<>>) = {}
  BY DEF Strings, Range
<1>3. HostInv(h)'
  BY <1>1, <1>2 DEF HostInv, IsInjective
<1>4. memory' = memory /\ h \notin DOMAIN calls
  BY DEF Construct, Exists
<1>5. \A x \in DOMAIN calls \ {h} : \A b \in Strings(inputs[x]) :
        b \notin Strings(inputs'[h]) /\ b \in DOMAIN memory' /\ memory'[b] = memory[b]
  BY <1>1, <1>2, <1>4 DEF RecordsInv, HostInv
<1>6. DOMAIN memory' \subseteq Places /\ (erases => \A b \in DOMAIN memory' : memory'[b] \in Long)
  BY <1>4 DEF RecordsInv
<1>7. RecordsInv' /\ Promise!Become(h, RecordIn(memory', calls'[h]))
  BY <1>1, <1>3, <1>5, <1>6, OneHost
<1>8. RecordIn(memory', calls'[h]) = <<>>
  BY <1>1 DEF RecordIn
<1> QED BY <1>4, <1>7, <1>8, LogShows DEF Promise!Start, Promise!Exists, Promise!Become

LEMMA LogRecord ==
    ASSUME NEW h \in DOMAIN calls, calls[h] \in Seq(Places \cup {Null}),
           Len(calls[h]) < MaxRecorded, NEW input \in Inputs,
           Promise!Become(h, Append(RecordIn(memory, calls[h]), input))
    PROVE  Promise!Record(h)
<1>1. Len(RecordIn(memory, calls[h])) = Len(calls[h])
  BY RecordIs
<1>2. Len(Shows[h]) < MaxRecorded /\ Promise!Become(h, Append(Shows[h], input))
  BY <1>1, LogShows DEF Promise!Become
<1> QED BY <1>2, LogShows DEF Promise!Record, Promise!Exists

LEMMA CallIs ==
    ASSUME RecordsInv, erases' = erases, NEW h, Call(h)
    PROVE  RecordsInv' /\ Promise!Record(h)
<1>1. h \in DOMAIN calls /\ HostInv(h) /\ Len(calls[h]) < MaxRecorded
  BY DEF Call, Exists, RecordsInv
<1>2. PICK input : /\ input \in IF erases THEN ErasersInputs ELSE Short \cup Long
                   /\ EmplaceBack(h, input)
  BY DEF Call
<1>3. input \in Inputs /\ (erases => input \in Long)
  BY <1>2, RecordedCallsAssumption DEF Inputs, ErasersUseLong, RecordsInv
<1>4. PICK b \in Places \ Live(h) :
             /\ calls' = [calls EXCEPT ![h] = Append(@, b)]
             /\ inputs' = [inputs EXCEPT ![h] = Append(Kept(h), b)]
             /\ \E n \in Nat : Room(h) <= n /\ capacity' = [capacity EXCEPT ![h] = n]
             /\ memory' = [c \in Live(h) \cup {b} |-> IF c = b THEN input ELSE memory[c]]
  BY <1>1, <1>2, Emplaced
<1>5. /\ DOMAIN calls' = DOMAIN calls /\ DOMAIN inputs' = DOMAIN calls
      /\ DOMAIN capacity' = DOMAIN calls
      /\ \A x \in DOMAIN calls \ {h} :
           calls'[x] = calls[x] /\ inputs'[x] = inputs[x] /\ capacity'[x] = capacity[x]
      /\ calls'[h] = Append(calls[h], b) /\ inputs'[h] = Append(Kept(h), b)
      /\ capacity'[h] \in Nat /\ Room(h) <= capacity'[h]
  BY <1>1, <1>4 DEF RecordsInv
<1>6. /\ DOMAIN memory' = Live(h) \cup {b} /\ memory'[b] = input
      /\ \A c \in Live(h) : c \in DOMAIN memory' /\ memory'[c] = memory[c] /\ c # b
  BY <1>4
<1>7. /\ Kept(h) \in Seq(Places) /\ IsInjective(Kept(h)) /\ Room(h) \in Nat
      /\ Strings(Kept(h)) \subseteq Strings(inputs[h])
      /\ Strings(calls[h]) \subseteq Strings(Kept(h)) \cup {Null}
      /\ ~erases => Len(Kept(h)) <= Len(calls[h]) /\ MaxRecorded <= Room(h)
  BY <1>1, KeptIs
<1>8. calls[h] \in Seq(Places \cup {Null}) /\ Strings(inputs[h]) \subseteq DOMAIN memory
  BY <1>1 DEF HostInv
<1>9. Strings(Kept(h)) \subseteq Live(h) /\ Live(h) \subseteq DOMAIN memory
  BY <1>7, <1>8 DEF Live
<1>10. /\ Strings(inputs'[h]) = Strings(Kept(h)) \cup {b}
       /\ Strings(calls'[h]) = Strings(calls[h]) \cup {b}
  <2>1. Strings(Append(Kept(h), b)) = Strings(Kept(h)) \cup {b}
    BY <1>4, <1>7, AppendedStrings
  <2>2. Strings(Append(calls[h], b)) = Strings(calls[h]) \cup {b}
    <3>1. b \in Places \cup {Null}
      BY <1>4
    <3> QED BY <3>1, <1>8, AppendedStrings
  <2> QED BY <1>5, <2>1, <2>2
<1>11. HostInv(h)'
  <2>1. calls'[h] \in Seq(Places \cup {Null}) /\ inputs'[h] \in Seq(Places)
    BY <1>4, <1>5, <1>7, <1>8
  <2>2. IsInjective(inputs'[h])
    BY <1>4, <1>5, <1>6, <1>7, <1>9, AppendedInjective
  <2>3. Strings(inputs'[h]) \subseteq DOMAIN memory'
        /\ Strings(calls'[h]) \subseteq Strings(inputs'[h]) \cup {Null}
    BY <1>6, <1>7, <1>9, <1>10
  <2>4. ~erases => Len(inputs'[h]) <= Len(calls'[h]) /\ MaxRecorded <= capacity'[h]
    <3>1. Len(inputs'[h]) = Len(Kept(h)) + 1 /\ Len(calls'[h]) = Len(calls[h]) + 1
      BY <1>4, <1>5, <1>7, <1>8
    <3>2. Len(Kept(h)) \in Nat /\ Len(calls[h]) \in Nat /\ MaxRecorded \in Nat
      BY <1>7, <1>8, RecordedCallsAssumption
    <3>3. ~erases => Len(Kept(h)) + 1 <= Len(calls[h]) + 1
      BY <1>7, <3>2
    <3>4. ~erases => MaxRecorded <= capacity'[h]
      BY <1>5, <1>7, <3>2
    <3> QED BY <3>1, <3>3, <3>4
  <2> QED BY <1>5, <2>1, <2>2, <2>3, <2>4 DEF HostInv
<1>12. \A x \in DOMAIN calls \ {h} : \A c \in Strings(inputs[x]) :
         c \notin Strings(inputs'[h]) /\ c \in DOMAIN memory' /\ memory'[c] = memory[c]
  <2>1. ASSUME NEW x \in DOMAIN calls \ {h}, NEW c \in Strings(inputs[x])
        PROVE  c \in Live(h) /\ c \notin Strings(Kept(h))
    <3>1. c \in DOMAIN memory /\ c \notin Strings(inputs[h])
      BY <1>1, <2>1 DEF RecordsInv, HostInv, Disjoint
    <3> QED BY <3>1, <1>7 DEF Live
  <2> QED BY <2>1, <1>6, <1>10
<1>13. DOMAIN memory' \subseteq Places /\ (erases => \A c \in DOMAIN memory' : memory'[c] \in Long)
  BY <1>3, <1>4, <1>6, <1>9 DEF RecordsInv
<1>14. RecordsInv' /\ Promise!Become(h, RecordIn(memory', calls'[h]))
  <2>1. DOMAIN calls = DOMAIN calls \cup {h}
    BY <1>1
  <2> QED BY <1>5, <1>11, <1>12, <1>13, <2>1, OneHost
<1>15. RecordIn(memory', calls'[h]) = Append(RecordIn(memory, calls[h]), input)
  <2>1. Null \notin DOMAIN memory /\ Null \notin DOMAIN memory'
    BY <1>13, RecordedCallsAssumption DEF RecordsInv
  <2>2. RecordIn(memory', calls[h]) = RecordIn(memory, calls[h])
    <3> DEFINE kept == Strings(Kept(h))
    <3>1. \A c \in kept : c \in DOMAIN memory /\ c \in DOMAIN memory' /\ memory'[c] = memory[c]
      BY <1>6, <1>9
    <3>2. Strings(calls[h]) \subseteq kept \cup {Null}
      BY <1>7
    <3> HIDE DEF kept
    <3> QED BY <2>1, <3>1, <3>2, SameRead
  <2>3. ReadIn(memory', b) = input
    <3>1. b # Null /\ b \in DOMAIN memory'
      BY <1>6, <1>4, RecordedCallsAssumption
    <3>2. ReadIn(memory', b) = memory'[b]
      BY <3>1, Zenon DEF ReadIn
    <3> QED BY <1>6, <3>2
  <2>4. b \in Places \cup {Null}
    BY <1>4
  <2> QED BY <1>5, <1>8, <2>2, <2>3, <2>4, RecordAppended
<1>16. Promise!Become(h, Append(RecordIn(memory, calls[h]), input))
  BY <1>14, <1>15 DEF Promise!Become
<1> QED BY <1>1, <1>3, <1>8, <1>14, <1>16, LogRecord

LEMMA WithoutInputIs ==
    ASSUME RecordsInv, erases' = erases, NEW h, CallWithoutInput(h)
    PROVE  RecordsInv' /\ Promise!Record(h)
<1>1. h \in DOMAIN calls /\ HostInv(h) /\ Len(calls[h]) < MaxRecorded
  BY DEF CallWithoutInput, Exists, RecordsInv
<1>2. /\ calls' = [calls EXCEPT ![h] = Append(@, Null)]
      /\ inputs' = [inputs EXCEPT ![h] = Kept(h)]
      /\ capacity' = [capacity EXCEPT ![h] = Room(h)]
      /\ memory' = Without(memory, Strings(inputs[h]) \ Strings(Kept(h)))
  BY DEF CallWithoutInput
<1>3. /\ DOMAIN calls' = DOMAIN calls /\ DOMAIN inputs' = DOMAIN calls
      /\ DOMAIN capacity' = DOMAIN calls
      /\ \A x \in DOMAIN calls \ {h} :
           calls'[x] = calls[x] /\ inputs'[x] = inputs[x] /\ capacity'[x] = capacity[x]
      /\ calls'[h] = Append(calls[h], Null) /\ inputs'[h] = Kept(h) /\ capacity'[h] = Room(h)
  BY <1>1, <1>2 DEF RecordsInv
<1>4. DOMAIN memory' = Live(h) /\ \A c \in Live(h) : memory'[c] = memory[c]
  BY <1>2 DEF Live, Without
<1>5. /\ Kept(h) \in Seq(Places) /\ IsInjective(Kept(h)) /\ Room(h) \in Nat
      /\ Strings(Kept(h)) \subseteq Strings(inputs[h])
      /\ Strings(calls[h]) \subseteq Strings(Kept(h)) \cup {Null}
      /\ ~erases => Len(Kept(h)) <= Len(calls[h]) /\ MaxRecorded <= Room(h)
  BY <1>1, KeptIs
<1>6. calls[h] \in Seq(Places \cup {Null}) /\ Strings(inputs[h]) \subseteq DOMAIN memory
  BY <1>1 DEF HostInv
<1>7. Strings(Kept(h)) \subseteq Live(h) /\ Live(h) \subseteq DOMAIN memory
  BY <1>5, <1>6 DEF Live
<1>8. Strings(calls'[h]) = Strings(calls[h]) \cup {Null}
  BY <1>3, <1>6, AppendedStrings
<1>9. HostInv(h)'
  <2>1. calls'[h] \in Seq(Places \cup {Null}) /\ Len(calls'[h]) = Len(calls[h]) + 1
    BY <1>3, <1>6
  <2>2. Strings(inputs'[h]) \subseteq DOMAIN memory'
        /\ Strings(calls'[h]) \subseteq Strings(inputs'[h]) \cup {Null}
    BY <1>3, <1>4, <1>5, <1>7, <1>8
  <2>3. ~erases => Len(inputs'[h]) <= Len(calls'[h]) /\ MaxRecorded <= capacity'[h]
    <3>1. Len(Kept(h)) \in Nat /\ Len(calls[h]) \in Nat
      BY <1>5, <1>6
    <3>2. ~erases => Len(Kept(h)) <= Len(calls[h]) + 1
      BY <1>5, <3>1
    <3> QED BY <1>3, <1>5, <2>1, <3>2
  <2> QED BY <1>3, <1>5, <2>1, <2>2, <2>3 DEF HostInv
<1>10. \A x \in DOMAIN calls \ {h} : \A c \in Strings(inputs[x]) :
         c \notin Strings(inputs'[h]) /\ c \in DOMAIN memory' /\ memory'[c] = memory[c]
  <2>1. ASSUME NEW x \in DOMAIN calls \ {h}, NEW c \in Strings(inputs[x])
        PROVE  c \in Live(h) /\ c \notin Strings(Kept(h))
    <3>1. c \in DOMAIN memory /\ c \notin Strings(inputs[h])
      BY <1>1, <2>1 DEF RecordsInv, HostInv, Disjoint
    <3> QED BY <3>1, <1>5 DEF Live
  <2> QED BY <2>1, <1>3, <1>4
<1>11. DOMAIN memory' \subseteq Places /\ (erases => \A c \in DOMAIN memory' : memory'[c] \in Long)
  BY <1>4, <1>7 DEF RecordsInv
<1>12. RecordsInv' /\ Promise!Become(h, RecordIn(memory', calls'[h]))
  <2>1. DOMAIN calls = DOMAIN calls \cup {h}
    BY <1>1
  <2> QED BY <1>3, <1>9, <1>10, <1>11, <2>1, OneHost
<1>13. RecordIn(memory', calls'[h]) = Append(RecordIn(memory, calls[h]), Empty)
  <2>1. Null \notin DOMAIN memory /\ Null \notin DOMAIN memory'
    BY <1>11, RecordedCallsAssumption DEF RecordsInv
  <2>2. RecordIn(memory', calls[h]) = RecordIn(memory, calls[h])
    <3> DEFINE kept == Strings(Kept(h))
    <3>1. \A c \in kept : c \in DOMAIN memory /\ c \in DOMAIN memory' /\ memory'[c] = memory[c]
      BY <1>4, <1>7
    <3>2. Strings(calls[h]) \subseteq kept \cup {Null}
      BY <1>5
    <3> HIDE DEF kept
    <3> QED BY <2>1, <3>1, <3>2, SameRead
  <2>3. ReadIn(memory', Null) = Empty
    BY <2>1, Zenon DEF ReadIn
  <2>4. Null \in Places \cup {Null}
    OBVIOUS
  <2> QED BY <1>3, <1>6, <2>2, <2>3, <2>4, RecordAppended
<1>14. Promise!Become(h, Append(RecordIn(memory, calls[h]), Empty))
  BY <1>12, <1>13 DEF Promise!Become
<1>15. Empty \in Inputs
  BY DEF Inputs
<1> QED BY <1>1, <1>6, <1>12, <1>14, <1>15, LogRecord

\* The user drops the last entries, or all.
LEMMA CutIs ==
    ASSUME RecordsInv, erases' = erases, NEW h \in DOMAIN calls, NEW n \in 0 .. Len(calls[h]),
           erases \/ n = 0, calls' = [calls EXCEPT ![h] = SubSeq(@, 1, n)],
           UNCHANGED <<inputs, capacity, memory>>
    PROVE  RecordsInv' /\ Promise!Forget(h)
<1>1. HostInv(h)
  BY DEF RecordsInv
<1>2. /\ DOMAIN calls' = DOMAIN calls /\ DOMAIN inputs' = DOMAIN calls
      /\ DOMAIN capacity' = DOMAIN calls
      /\ \A x \in DOMAIN calls \ {h} :
           calls'[x] = calls[x] /\ inputs'[x] = inputs[x] /\ capacity'[x] = capacity[x]
      /\ calls'[h] = SubSeq(calls[h], 1, n)
      /\ inputs'[h] = inputs[h] /\ capacity'[h] = capacity[h] /\ memory' = memory
  BY DEF RecordsInv
<1>3. /\ calls[h] \in Seq(Places \cup {Null}) /\ calls'[h] \in Seq(Places \cup {Null})
      /\ Len(calls'[h]) = n
      /\ \A k \in 1 .. n : calls'[h][k] = calls[h][k] /\ k \in 1 .. Len(calls[h])
  <2>1. calls[h] \in Seq(Places \cup {Null})
    BY <1>1 DEF HostInv
  <2> QED BY <1>2, <2>1
<1>4. Strings(calls'[h]) \subseteq Strings(calls[h])
  BY <1>3 DEF Strings, Range
<1>5. ~erases => calls'[h] = <<>>
  BY <1>3
<1>6. HostInv(h)'
  BY <1>1, <1>2, <1>3, <1>4, <1>5 DEF HostInv
<1>7. \A x \in DOMAIN calls \ {h} : \A c \in Strings(inputs[x]) :
        c \notin Strings(inputs'[h]) /\ c \in DOMAIN memory' /\ memory'[c] = memory[c]
  BY <1>2 DEF RecordsInv, HostInv, Disjoint
<1>8. DOMAIN memory' \subseteq Places /\ (erases => \A c \in DOMAIN memory' : memory'[c] \in Long)
  BY <1>2 DEF RecordsInv
<1>9. RecordsInv' /\ Promise!Become(h, RecordIn(memory', calls'[h]))
  <2>1. DOMAIN calls = DOMAIN calls \cup {h}
    OBVIOUS
  <2> QED BY <1>2, <1>6, <1>7, <1>8, <2>1, OneHost
<1>10. RecordIn(memory', calls'[h]) = SubSeq(Shows[h], 1, n) /\ n \in 0 .. Len(Shows[h])
  <2>1. Shows[h] = RecordIn(memory, calls[h])
    BY LogShows
  <2>2. Len(RecordIn(memory, calls[h])) = Len(calls[h])
    BY <1>3, RecordIs
  <2> QED BY <1>2, <1>3, <2>1, <2>2, RecordCut
<1>11. Promise!Become(h, SubSeq(Shows[h], 1, n))
  BY <1>9, <1>10 DEF Promise!Become
<1> QED BY <1>9, <1>10, <1>11, LogShows DEF Promise!Forget, Promise!Exists

LEMMA ClearIs ==
    ASSUME RecordsInv, erases' = erases, NEW h, Clear(h)
    PROVE  RecordsInv' /\ Promise!Forget(h)
<1>1. h \in DOMAIN calls /\ calls[h] \in Seq(Places \cup {Null})
  BY DEF Clear, Exists, RecordsInv, HostInv
<1>2. SubSeq(calls[h], 1, 0) = <<>> /\ 0 \in 0 .. Len(calls[h])
  BY <1>1
<1>3. calls' = [calls EXCEPT ![h] = SubSeq(@, 1, 0)] /\ UNCHANGED <<inputs, capacity, memory>>
  BY <1>2 DEF Clear
<1> QED BY <1>1, <1>2, <1>3, CutIs

LEMMA EraseIs ==
    ASSUME RecordsInv, erases' = erases, NEW h, Erase(h)
    PROVE  RecordsInv' /\ Promise!Forget(h)
<1>1. h \in DOMAIN calls /\ calls[h] \in Seq(Places \cup {Null}) /\ erases
  BY DEF Erase, Exists, RecordsInv, HostInv
<1>2. PICK n \in 1 .. Len(calls[h]) - 1 : calls' = [calls EXCEPT ![h] = SubSeq(@, 1, n)]
  BY DEF Erase
<1>3. n \in 0 .. Len(calls[h]) /\ UNCHANGED <<inputs, capacity, memory>>
  BY <1>1, <1>2 DEF Erase
<1> QED BY <1>1, <1>2, <1>3, CutIs

\* The pointers of the source, translated, show in the copy what they show in the source.
LEMMA CopyIs ==
    ASSUME RecordsInv, erases' = erases, NEW g \in DOMAIN calls, NEW h, NEW before,
           before = (IF h \in DOMAIN calls THEN inputs[h] ELSE <<>>), BecomeCopy(g, h, before)
    PROVE  RecordsInv' /\ Promise!Copy(g, h)
<1> DEFINE source == inputs[g]
           lost == Strings(before)
<1>1. HostInv(g)
  BY DEF RecordsInv
<1>2. PICK place \in Placements(DOMAIN source, DOMAIN memory) :
        /\ calls' = With(calls, h, Repointed(g, place))
        /\ inputs' = With(inputs, h, place)
        /\ capacity' = With(capacity, h, Reserved(Len(source)))
        /\ memory' = [b \in (DOMAIN memory \ lost) \cup Strings(place) |->
                        IF b \in Strings(place)
                        THEN memory[source[CHOOSE i \in DOMAIN place : place[i] = b]]
                        ELSE memory[b]]
  BY Zenon DEF BecomeCopy
<1>3. /\ DOMAIN calls' = DOMAIN calls \cup {h} /\ DOMAIN inputs' = DOMAIN calls \cup {h}
      /\ DOMAIN capacity' = DOMAIN calls \cup {h}
      /\ \A x \in DOMAIN calls \ {h} :
           calls'[x] = calls[x] /\ inputs'[x] = inputs[x] /\ capacity'[x] = capacity[x]
      /\ calls'[h] = Repointed(g, place) /\ inputs'[h] = place
      /\ capacity'[h] = Reserved(Len(source))
  BY <1>2, HostsWith
<1>4. /\ source \in Seq(Places) /\ IsInjective(source) /\ Strings(source) \subseteq DOMAIN memory
      /\ calls[g] \in Seq(Places \cup {Null})
      /\ Strings(calls[g]) \subseteq Strings(source) \cup {Null}
      /\ DOMAIN source = 1 .. Len(source) /\ Len(source) \in Nat
  BY <1>1 DEF HostInv
<1>5. /\ place \in [DOMAIN source -> Places \ DOMAIN memory] /\ IsInjective(place)
      /\ DOMAIN place = DOMAIN source
  BY <1>2 DEF Placements
<1>6. Strings(place) \subseteq Places \ DOMAIN memory
  BY <1>5 DEF Strings, Range
\* The i-th string of the copy is that of the source.
<1>7. ASSUME NEW i \in DOMAIN place
      PROVE  place[i] \in DOMAIN memory' /\ memory'[place[i]] = memory[source[i]]
  <2>1. place[i] \in Strings(place)
    BY DEF Strings, Range
  <2>2. (CHOOSE j \in DOMAIN place : place[j] = place[i]) = i
    BY <1>5 DEF IsInjective
  <2> QED BY <1>2, <2>1, <2>2
<1>8. ASSUME NEW k \in DOMAIN calls[g]
      PROVE  \/ calls[g][k] = Null /\ Repointed(g, place)[k] = Null
             \/ \E i \in DOMAIN place : calls[g][k] = source[i] /\ Repointed(g, place)[k] = place[i]
  <2> DEFINE p == calls[g][k]
  <2>1. p \in Strings(source) \/ p = Null
    BY <1>4 DEF Strings, Range
  <2>2. Repointed(g, place)[k] = IF p \in Strings(source)
                                 THEN place[CHOOSE i \in DOMAIN source : source[i] = p] ELSE p
    BY DEF Repointed
  <2>3. CASE p \in Strings(source)
    <3>1. \E i \in DOMAIN source : source[i] = p
      BY <2>3 DEF Strings, Range
    <3>2. (CHOOSE i \in DOMAIN source : source[i] = p) \in DOMAIN source
          /\ source[CHOOSE i \in DOMAIN source : source[i] = p] = p
      BY <3>1
    <3> QED BY <1>5, <2>2, <2>3, <3>2
  <2>4. CASE p \notin Strings(source)
    BY <2>1, <2>2, <2>4
  <2> QED BY <2>3, <2>4
<1>9. /\ calls'[h] \in Seq(Places \cup {Null}) /\ Len(calls'[h]) = Len(calls[g])
      /\ Strings(calls'[h]) \subseteq Strings(place) \cup {Null}
  <2>1. DOMAIN calls'[h] = DOMAIN calls[g] /\ calls'[h] = [k \in DOMAIN calls[g] |-> calls'[h][k]]
    BY <1>3 DEF Repointed
  <2>2. \A k \in DOMAIN calls[g] : calls'[h][k] \in Strings(place) \cup {Null}
    BY <1>3, <1>8 DEF Strings, Range
  <2>3. Strings(place) \subseteq Places
    BY <1>6
  <2>4. \A k \in 1 .. Len(calls[g]) : calls'[h][k] \in Places \cup {Null}
    BY <1>4, <2>2, <2>3
  <2>5. DOMAIN calls'[h] = 1 .. Len(calls[g]) /\ Len(calls[g]) \in Nat
    BY <1>4, <2>1
  <2>6. calls'[h] \in Seq(Places \cup {Null}) /\ Len(calls'[h]) = Len(calls[g])
    BY <2>1, <2>4, <2>5
  <2>7. Strings(calls'[h]) \subseteq Strings(place) \cup {Null}
    BY <2>1, <2>2 DEF Strings, Range
  <2> QED BY <2>6, <2>7
<1>10. place \in Seq(Places) /\ Len(place) = Len(source)
  <2> PICK n \in Nat : n = Len(source) /\ DOMAIN source = 1 .. n
    BY <1>4
  <2>1. DOMAIN place = 1 .. n /\ \A i \in 1 .. n : place[i] \in Places
    BY <1>5
  <2>2. place = [i \in 1 .. n |-> place[i]]
    BY <1>5
  <2>3. place \in Seq(Places) /\ Len(place) = n
    BY <2>1, <2>2
  <2> QED BY <2>3
<1>11. HostInv(h)'
  <2>1. Strings(place) \subseteq DOMAIN memory'
    BY <1>7 DEF Strings, Range
  <2>2. capacity'[h] \in Nat /\ MaxRecorded <= capacity'[h]
    BY <1>3, <1>4, RecordedCallsAssumption DEF Reserved, Max2
  <2>3. ~erases /\ calls'[h] # <<>> => Len(place) <= Len(calls'[h])
    <3>1. calls'[h] # <<>> => calls[g] # <<>>
      BY <1>4, <1>9
    <3> QED BY <3>1, <1>1, <1>9, <1>10 DEF HostInv
  <2> QED BY <1>3, <1>5, <1>9, <1>10, <2>1, <2>2, <2>3 DEF HostInv
<1>12. \A x \in DOMAIN calls \ {h} : \A c \in Strings(inputs[x]) :
         c \notin Strings(inputs'[h]) /\ c \in DOMAIN memory' /\ memory'[c] = memory[c]
  <2> SUFFICES ASSUME NEW x \in DOMAIN calls \ {h}, NEW c \in Strings(inputs[x])
               PROVE  c \notin Strings(place) /\ c \in DOMAIN memory' /\ memory'[c] = memory[c]
    BY <1>3
  <2>1. c \in DOMAIN memory
    BY DEF RecordsInv, HostInv
  <2>2. c \notin Strings(place)
    BY <2>1, <1>6
  <2>3. c \notin lost
    <3>1. CASE h \in DOMAIN calls
      BY <3>1 DEF RecordsInv, Disjoint
    <3>2. CASE h \notin DOMAIN calls
      BY <3>2 DEF Strings, Range
    <3> QED BY <3>1, <3>2
  <2> QED BY <1>2, <2>1, <2>2, <2>3
<1>13. DOMAIN memory' \subseteq Places /\ (erases => \A c \in DOMAIN memory' : memory'[c] \in Long)
  <2>1. DOMAIN memory' = (DOMAIN memory \ lost) \cup Strings(place)
    BY <1>2
  <2>2. ASSUME erases, NEW c \in DOMAIN memory' PROVE memory'[c] \in Long
    <3>1. CASE c \in Strings(place)
      <4>1. PICK i \in DOMAIN place : c = place[i]
        BY <3>1 DEF Strings, Range
      <4>2. source[i] \in DOMAIN memory
        BY <1>4, <1>5 DEF Strings, Range
      <4> QED BY <1>7, <2>2, <4>1, <4>2 DEF RecordsInv
    <3>2. CASE c \notin Strings(place)
      <4>1. c \in DOMAIN memory /\ memory'[c] = memory[c]
        BY <1>2, <2>1, <3>2
      <4> QED BY <2>2, <4>1 DEF RecordsInv
    <3> QED BY <3>1, <3>2
  <2> QED BY <1>6, <2>1, <2>2 DEF RecordsInv
<1>14. RecordsInv' /\ Promise!Become(h, RecordIn(memory', calls'[h]))
  BY <1>3, <1>11, <1>12, <1>13, OneHost
<1>15. RecordIn(memory', calls'[h]) = RecordIn(memory, calls[g])
  <2>1. ASSUME NEW k \in DOMAIN calls[g]
        PROVE  ReadIn(memory', calls'[h][k]) = ReadIn(memory, calls[g][k])
    <3>1. Null \notin DOMAIN memory /\ Null \notin DOMAIN memory'
      BY <1>13, RecordedCallsAssumption DEF RecordsInv
    <3>2. CASE calls[g][k] = Null /\ Repointed(g, place)[k] = Null
      <4>1. ReadIn(memory', Null) = Empty /\ ReadIn(memory, Null) = Empty
        BY <3>1, Zenon DEF ReadIn
      <4> QED BY <1>3, <3>2, <4>1
    <3>3. ASSUME NEW i \in DOMAIN place, calls[g][k] = source[i], Repointed(g, place)[k] = place[i]
          PROVE  ReadIn(memory', calls'[h][k]) = ReadIn(memory, calls[g][k])
      <4>1. source[i] \in DOMAIN memory /\ place[i] \in DOMAIN memory'
            /\ memory'[place[i]] = memory[source[i]]
        BY <1>4, <1>5, <1>7 DEF Strings, Range
      <4>2. \A m, p : p \in DOMAIN m /\ p # Null => ReadIn(m, p) = m[p]
        BY Zenon DEF ReadIn
      <4>3. ReadIn(memory', place[i]) = memory'[place[i]]
            /\ ReadIn(memory, source[i]) = memory[source[i]]
        BY <3>1, <4>1, <4>2
      <4> QED BY <1>3, <3>3, <4>1, <4>3
    <3> QED BY <1>8, <3>2, <3>3
  <2>2. DOMAIN calls'[h] = DOMAIN calls[g]
    BY <1>3 DEF Repointed
  <2> QED BY <2>1, <2>2, Zenon DEF RecordIn
<1>16. Promise!Become(h, Shows[g])
  BY <1>14, <1>15, LogShows DEF Promise!Become
<1> QED BY <1>14, <1>16, LogShows DEF Promise!Copy, Promise!Exists

LEMMA CopyConstructIs ==
    ASSUME RecordsInv, erases' = erases, NEW g, NEW h, CopyConstructHost(g, h)
    PROVE  RecordsInv' /\ Promise!Copy(g, h)
BY CopyIs DEF CopyConstructHost, Exists

LEMMA CopyAssignIs ==
    ASSUME RecordsInv, erases' = erases, NEW g, NEW h, CopyAssignHost(g, h)
    PROVE  RecordsInv' /\ Promise!Copy(g, h)
BY CopyIs DEF CopyAssignHost, Exists

LEMMA MoveIs ==
    ASSUME RecordsInv, erases' = erases, NEW g \in DOMAIN calls, NEW h, g # h,
           NEW lost, lost = (IF h \in DOMAIN calls THEN Strings(inputs[h]) ELSE {}),
           BecomeMoved(g, h), DOMAIN memory' = DOMAIN memory \ lost,
           \A b \in DOMAIN memory \ lost : memory'[b] = memory[b]
    PROVE  RecordsInv' /\ Promise!Move(g, h)
<1> PICK nothing, zero : nothing = <<>> /\ zero = 0
  OBVIOUS
<1>1. /\ DOMAIN calls' = DOMAIN calls \cup {h}
      /\ calls'[h] = calls[g] /\ calls'[g] = nothing
      /\ \A x \in DOMAIN calls \ {g, h} : calls'[x] = calls[x]
  BY DEF BecomeMoved, Take, With
<1>2. /\ DOMAIN inputs' = DOMAIN calls \cup {h}
      /\ inputs'[h] = inputs[g] /\ inputs'[g] = nothing
      /\ \A x \in DOMAIN calls \ {g, h} : inputs'[x] = inputs[x]
  BY DEF BecomeMoved, Take, With, RecordsInv
<1>3. /\ DOMAIN capacity' = DOMAIN calls \cup {h}
      /\ capacity'[h] = capacity[g] /\ capacity'[g] = zero
      /\ \A x \in DOMAIN calls \ {g, h} : capacity'[x] = capacity[x]
  BY DEF BecomeMoved, Take, With, RecordsInv
<1>4. Strings(nothing) = {} /\ nothing \in Seq(Places \cup {Null}) /\ nothing \in Seq(Places)
      /\ IsInjective(nothing) /\ zero \in Nat
  BY DEF Strings, Range, IsInjective
<1>5. ASSUME NEW x \in DOMAIN calls, x # h, NEW b \in Strings(inputs[x])
      PROVE  b \in DOMAIN memory' /\ memory'[b] = memory[b]
  <2>1. b \in DOMAIN memory
    BY DEF RecordsInv, HostInv
  <2>2. b \notin lost
    BY <1>5 DEF RecordsInv, Disjoint
  <2> QED BY <2>1, <2>2
<1>6. \A x \in DOMAIN calls \ {g, h} : Untouched(x)
  BY <1>1, <1>2, <1>3, <1>5 DEF Untouched
<1>7. HostInv(g)'
  BY <1>1, <1>2, <1>3, <1>4 DEF HostInv
<1>8. HostInv(h)'
  <2>1. HostInv(g)
    BY DEF RecordsInv
  <2>2. Strings(inputs[g]) \subseteq DOMAIN memory'
    BY <1>5
  <2> QED BY <1>1, <1>2, <1>3, <2>1, <2>2 DEF HostInv
<1>9. RecordsInv'
  <2> DEFINE S == {g, h}
  <2>1. \A x \in DOMAIN calls' \ S : Untouched(x)
    BY <1>1, <1>6
  <2>2. \A x \in DOMAIN calls' \cap S : HostInv(x)'
    BY <1>7, <1>8
  <2>3. \A x \in DOMAIN calls' \cap S : \A y \in DOMAIN calls' : x # y => Disjoint(x, y)'
    <3>1. ASSUME NEW y \in DOMAIN calls', y # g PROVE Disjoint(g, y)'
      BY <1>2, <1>4 DEF Disjoint
    <3>2. ASSUME NEW y \in DOMAIN calls', y # h PROVE Disjoint(h, y)'
      <4>1. CASE y = g
        BY <4>1, <1>2, <1>4 DEF Disjoint
      <4>2. CASE y # g
        <5>1. Disjoint(g, y) /\ inputs'[h] = inputs[g] /\ inputs'[y] = inputs[y]
          BY <1>1, <1>2, <3>2, <4>2 DEF RecordsInv
        <5> QED BY <5>1 DEF Disjoint
      <4> QED BY <4>1, <4>2
    <3> QED BY <3>1, <3>2
  <2>4. DOMAIN memory' \subseteq Places /\ (erases => \A b \in DOMAIN memory' : memory'[b] \in Long)
    BY DEF RecordsInv
  <2> HIDE DEF S
  <2> QED BY <1>1, <1>2, <1>3, <2>1, <2>2, <2>3, <2>4, InvStays
<1>10. \A x \in DOMAIN calls \ {g, h} : RecordIn(memory', calls'[x]) = Shows[x]
  BY <1>6, <1>9, UntouchedShows, LogShows
<1>11. RecordIn(memory', calls'[g]) = <<>>
  <2>1. RecordIn(memory', <<>>) = <<>>
    BY DEF RecordIn
  <2> QED BY <1>1, <2>1
<1>12. RecordIn(memory', calls'[h]) = Shows[g]
  <2> DEFINE strings == Strings(inputs[g])
  <2>1. \A b \in strings : b \in DOMAIN memory /\ b \in DOMAIN memory' /\ memory'[b] = memory[b]
    BY <1>5 DEF RecordsInv, HostInv
  <2>2. Strings(calls[g]) \subseteq strings \cup {Null}
    BY DEF RecordsInv, HostInv
  <2>3. Null \notin DOMAIN memory /\ Null \notin DOMAIN memory'
    BY <1>9, RecordedCallsAssumption DEF RecordsInv
  <2> HIDE DEF strings
  <2>4. RecordIn(memory', calls[g]) = RecordIn(memory, calls[g])
    BY <2>1, <2>2, <2>3, SameRead
  <2> QED BY <1>1, <2>4, LogShows
<1>13. Shows' = [x \in DOMAIN Shows \cup {h} |->
                   IF x = h THEN Shows[g] ELSE IF x = g THEN <<>> ELSE Shows[x]]
  <2>1. \A x \in DOMAIN calls' : RecordIn(memory', calls'[x]) =
          IF x = h THEN Shows[g] ELSE IF x = g THEN <<>> ELSE Shows[x]
    BY <1>1, <1>10, <1>11, <1>12
  <2>2. DOMAIN calls' = DOMAIN Shows \cup {h}
    BY <1>1, LogShows
  <2>3. Shows' = [x \in DOMAIN calls' |-> RecordIn(memory', calls'[x])]
    BY DEF Shows
  <2> QED BY <2>1, <2>2, <2>3
<1> QED BY <1>9, <1>13, LogShows DEF Promise!Move, Promise!Exists

LEMMA MoveConstructIs ==
    ASSUME RecordsInv, erases' = erases, NEW g, NEW h, MoveConstructHost(g, h)
    PROVE  RecordsInv' /\ Promise!Move(g, h)
<1>1. g \in DOMAIN calls /\ h \notin DOMAIN calls /\ BecomeMoved(g, h) /\ memory' = memory
  BY DEF MoveConstructHost, Exists
<1> PICK lost : lost = {}
  OBVIOUS
<1> QED BY <1>1, MoveIs

LEMMA MoveAssignIs ==
    ASSUME RecordsInv, erases' = erases, NEW g, NEW h, MoveAssignHost(g, h)
    PROVE  RecordsInv' /\ Promise!Move(g, h)
<1> DEFINE lost == Strings(inputs[h])
<1>1. g \in DOMAIN calls /\ h \in DOMAIN calls /\ g # h /\ BecomeMoved(g, h)
      /\ memory' = Without(memory, lost)
  BY DEF MoveAssignHost, Exists
<1>2. DOMAIN memory' = DOMAIN memory \ lost
      /\ \A b \in DOMAIN memory \ lost : memory'[b] = memory[b]
  BY <1>1 DEF Without
<1> QED BY <1>1, <1>2, MoveIs

LEMMA DestroyIs ==
    ASSUME RecordsInv, erases' = erases, NEW h, Destroy(h)
    PROVE  RecordsInv' /\ Promise!End(h)
<1> DEFINE lost == Strings(inputs[h])
<1>1. /\ h \in DOMAIN calls
      /\ DOMAIN calls' = DOMAIN calls \ {h} /\ DOMAIN inputs' = DOMAIN calls \ {h}
      /\ DOMAIN capacity' = DOMAIN calls \ {h} /\ DOMAIN memory' = DOMAIN memory \ lost
      /\ \A x \in DOMAIN calls \ {h} :
           calls'[x] = calls[x] /\ inputs'[x] = inputs[x] /\ capacity'[x] = capacity[x]
      /\ \A b \in DOMAIN memory \ lost : memory'[b] = memory[b]
  BY DEF Destroy, Exists, Without, RecordsInv
<1>2. \A x \in DOMAIN calls \ {h} : Untouched(x)
  BY <1>1 DEF Untouched, RecordsInv, HostInv, Disjoint
<1>3. RecordsInv'
  <2>1. DOMAIN memory' \subseteq Places /\ (erases => \A b \in DOMAIN memory' : memory'[b] \in Long)
    BY <1>1 DEF RecordsInv
  <2> DEFINE S == {h}
  <2>2. /\ \A x \in DOMAIN calls' \ S : Untouched(x)
        /\ DOMAIN calls' \cap S = {}
    BY <1>1, <1>2
  <2> HIDE DEF S
  <2> QED BY <1>1, <2>1, <2>2, InvStays
<1>4. Shows' = [x \in DOMAIN Shows \ {h} |-> Shows[x]]
  <2>1. \A x \in DOMAIN calls' : RecordIn(memory', calls'[x]) = Shows[x]
    BY <1>1, <1>2, <1>3, UntouchedShows, LogShows
  <2>2. DOMAIN calls' = DOMAIN Shows \ {h}
    BY <1>1, LogShows
  <2>3. Shows' = [x \in DOMAIN calls' |-> RecordIn(memory', calls'[x])]
    BY DEF Shows
  <2> QED BY <2>1, <2>2, <2>3
<1> QED BY <1>1, <1>3, <1>4, LogShows DEF Promise!End, Promise!Exists

----------------------------------------------------------------------------
LEMMA RecordsInitial ==
    ASSUME RecordsInit, ErasersUseLong
    PROVE  RecordsInv /\ Promise!Init
<1>1. DOMAIN calls = {} /\ DOMAIN inputs = {} /\ DOMAIN capacity = {} /\ DOMAIN memory = {}
  BY DEF RecordsInit
<1>2. Shows = <<>>
  BY <1>1 DEF Shows
<1> QED BY <1>1, <1>2 DEF RecordsInv, Promise!Init

LEMMA RecordsStep ==
    ASSUME RecordsInv, [RecordsNext]_recordVars
    PROVE  RecordsInv' /\ [Promise!Next]_Shows
<1>1. CASE RecordsNext
  <2> erases' = erases
    BY <1>1 DEF RecordsNext
  <2>1. ASSUME NEW h \in Hosts,
               Construct(h) \/ Call(h) \/ CallWithoutInput(h) \/ Clear(h) \/ Erase(h) \/ Destroy(h)
        PROVE  RecordsInv' /\ Promise!Next
    <3>1. CASE Construct(h)
      BY <3>1, ConstructIs DEF Promise!Next
    <3>2. CASE Call(h) \/ CallWithoutInput(h)
      BY <3>2, CallIs, WithoutInputIs DEF Promise!Next
    <3>3. CASE Clear(h) \/ Erase(h)
      BY <3>3, ClearIs, EraseIs DEF Promise!Next
    <3>4. CASE Destroy(h)
      BY <3>4, DestroyIs DEF Promise!Next
    <3> QED BY <2>1, <3>1, <3>2, <3>3, <3>4
  <2>2. ASSUME NEW g \in Hosts, NEW h \in Hosts,
               \/ CopyConstructHost(g, h) \/ CopyAssignHost(g, h)
               \/ MoveConstructHost(g, h) \/ MoveAssignHost(g, h)
        PROVE  RecordsInv' /\ Promise!Next
    <3>1. CASE CopyConstructHost(g, h) \/ CopyAssignHost(g, h)
      BY <3>1, CopyConstructIs, CopyAssignIs DEF Promise!Next
    <3>2. CASE MoveConstructHost(g, h) \/ MoveAssignHost(g, h)
      BY <3>2, MoveConstructIs, MoveAssignIs DEF Promise!Next
    <3> QED BY <2>2, <3>1, <3>2
  <2> QED BY <1>1, <2>1, <2>2 DEF RecordsNext, HostStep
<1>2. CASE UNCHANGED recordVars
  <2>1. UNCHANGED <<erases, calls, inputs, capacity, memory>>
    BY <1>2 DEF recordVars, hosts
  <2>2. \A x \in DOMAIN calls : Untouched(x)
    BY <2>1 DEF Untouched, RecordsInv, HostInv
  <2>3. RecordsInv'
    BY <2>1 DEF RecordsInv, HostInv, Disjoint, ErasersUseLong
  <2>4. UNCHANGED Shows
    BY <2>1 DEF Shows
  <2> QED BY <2>3, <2>4
<1> QED BY <1>1, <1>2

\* No pointer in a host's record dangles or leads to a string of another host: what the comment
\* in the copy constructor (mocked_host.hpp:100) promises of further calls; the run records_erased
\* shows that it needs the assumption.
THEOREM PointersStayValid == RecordsSpec /\ ErasersUseLong => []InputsValid
<1>1. RecordsInit /\ ErasersUseLong => RecordsInv
  BY RecordsInitial
<1>2. RecordsInv /\ [RecordsNext]_recordVars => RecordsInv'
  BY RecordsStep
<1>3. RecordsInv => InputsValid
  BY DEF RecordsInv, HostInv, InputsValid
<1> QED BY <1>1, <1>2, <1>3, PTL DEF RecordsSpec

\* Read through the pointers in its record, a host is a value, after any sequence of calls,
\* clears, copies, moves and assignments: MockedHost's copy constructor translates every
\* pointer, and call() never moves a string that one leads to.
THEOREM RecordsAreValues == RecordsSpec /\ ErasersUseLong => CopiesIndependent
<1>1. RecordsInit /\ ErasersUseLong => RecordsInv /\ Promise!Init
  BY RecordsInitial
<1>2. RecordsInv /\ [RecordsNext]_recordVars => RecordsInv' /\ [Promise!Next]_Shows
  BY RecordsStep
<1>3. RecordsSpec /\ ErasersUseLong => Promise!Spec
  BY <1>1, <1>2, PTL DEF RecordsSpec, Promise!Spec
\* The same in the words of RecordedCalls.
<1> DEFINE log == [h \in DOMAIN calls |-> [k \in DOMAIN calls[h] |-> Read(calls[h][k])]]
<1>4. Promise!Init => Log!Init
  BY DEF Promise!Init, Log!Init, Shows, RecordIn, ReadIn, Read
<1>5. [Promise!Next]_Shows => [Log!Next]_log
  BY DEF Shows, RecordIn, ReadIn, Read,
         Promise!Next, Promise!Exists, Promise!Become, Promise!Start, Promise!Record,
         Promise!Forget, Promise!Copy, Promise!Move, Promise!End,
         Log!Next, Log!Exists, Log!Become, Log!Start, Log!Record, Log!Forget, Log!Copy,
         Log!Move, Log!End
<1>6. Promise!Spec => Log!Spec
  BY <1>4, <1>5, PTL DEF Promise!Spec, Log!Spec
<1> QED BY <1>3, <1>6 DEF CopiesIndependent
=============================================================================

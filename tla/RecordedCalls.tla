--------------------------- MODULE RecordedCalls ----------------------------
(***************************************************************************)
(* include/qrvmc/mocked_host.hpp: the messages in recorded_calls point into *)
(* m_recorded_calls_inputs, the copies of their inputs that the host owns.  *)
(*                                                                          *)
(* A copy is a std::basic_string.  A short one is stored inside the vector  *)
(* of copies, so it moves when the vector reallocates; a long one keeps its *)
(* heap block.  Memory is the set of buffers that hold a string; freed      *)
(* buffers are used again.                                                  *)
(***************************************************************************)
EXTENDS Naturals, Sequences, Functions

CONSTANTS
    Hosts,        \* MockedHost objects, before, while and after they exist
    Short, Long,  \* inputs that fit a string's own storage, and others
    Empty,        \* the input without bytes
    Null,         \* the null pointer
    Places,       \* bound: places where a string can be
    MaxRecorded,  \* max_recorded_calls
    ErasersInputs \* bound: the inputs of users who erase some entries of recorded_calls and keep others

Inputs == Short \cup Long \cup {Empty}

ASSUME RecordedCallsAssumption ==
    /\ MaxRecorded \in Nat \ {0} /\ ErasersInputs \subseteq Short \cup Long
    /\ Empty \notin Short \cup Long /\ Short \cap Long = {} /\ Null \notin Places

VARIABLES
    erases,    \* whether the users are such
    calls,     \* host that exists -> the input_data pointers of its recorded_calls
    inputs,    \* host that exists -> where the strings of m_recorded_calls_inputs are
    capacity,  \* host that exists -> the capacity of that vector
    memory     \* buffer in use -> the string in it

hosts == <<calls, inputs, capacity>>
recordVars == <<erases, hosts, memory>>

Exists(h) == h \in DOMAIN calls
Strings(seq) == Range(seq)
With(f, h, value) == [x \in DOMAIN f \cup {h} |-> IF x = h THEN value ELSE f[x]]
Without(f, S) == [x \in DOMAIN f \ S |-> f[x]]

\* The ways to place strings, one for each index in S, outside the buffers in use.
Placements(S, used) == {place \in [S -> Places \ used] : IsInjective(place)}

Max2(m, n) == IF m > n THEN m ELSE n

----------------------------------------------------------------------------
Construct(h) ==
    /\ ~Exists(h)
    /\ calls' = With(calls, h, <<>>)
    /\ inputs' = With(inputs, h, <<>>)
    /\ capacity' = With(capacity, h, 0)
    /\ UNCHANGED memory

\* The vector's reserve(max_recorded_calls).  Mutant: without it.
NotReserved(n) == n
Reserved(n) == Max2(n, MaxRecorded)

\* The first call of an empty record: the old copies are destroyed and room is reserved.
\* Mutant: the old copies stay.
AllKept(h) == inputs[h]
Kept(h) == IF calls[h] = <<>> THEN <<>> ELSE inputs[h]
Room(h) == IF calls[h] = <<>> THEN Reserved(capacity[h]) ELSE capacity[h]

\* emplace_back() on the vector of copies: at its capacity it reallocates, and the short
\* strings move.
EmplaceBack(h, input) ==
    LET live == Without(memory, Strings(inputs[h]) \ Strings(Kept(h)))
        grows == Len(Kept(h)) = Room(h)
        moving == {i \in DOMAIN Kept(h) : grows /\ memory[Kept(h)[i]] \in Short}
        added == Len(Kept(h)) + 1
    IN \E place \in Placements(moving \cup {added}, DOMAIN live) :
         /\ inputs' = [inputs EXCEPT ![h] =
                         [i \in 1 .. added |-> IF i \in DOMAIN place THEN place[i] ELSE Kept(h)[i]]]
         /\ memory' = [b \in (DOMAIN live \ {Kept(h)[i] : i \in moving}) \cup Strings(place) |->
                         IF b = place[added] THEN input
                         ELSE IF b \in Strings(place)
                              THEN memory[Kept(h)[CHOOSE i \in moving : place[i] = b]]
                              ELSE memory[b]]
         /\ capacity' = [capacity EXCEPT ![h] = IF grows THEN Max2(1, 2 * Room(h)) ELSE Room(h)]
         /\ calls' = [calls EXCEPT ![h] = Append(@, place[added])]

\* call() with an input: the host copies it and points the message to the copy.  (Past the
\* limit a call is not recorded and changes nothing here.)
Call(h) ==
    /\ Exists(h) /\ Len(calls[h]) < MaxRecorded
    /\ \E input \in IF erases THEN ErasersInputs ELSE Short \cup Long : EmplaceBack(h, input)

\* call() with a null input or one of size zero: no pointer is kept.
CallWithoutInput(h) ==
    /\ Exists(h) /\ Len(calls[h]) < MaxRecorded
    /\ calls' = [calls EXCEPT ![h] = Append(@, Null)]
    /\ inputs' = [inputs EXCEPT ![h] = Kept(h)]
    /\ capacity' = [capacity EXCEPT ![h] = Room(h)]
    /\ memory' = Without(memory, Strings(inputs[h]) \ Strings(Kept(h)))

\* The user clears recorded_calls; the host does not know.
Clear(h) ==
    /\ Exists(h) /\ calls[h] # <<>>
    /\ calls' = [calls EXCEPT ![h] = <<>>]
    /\ UNCHANGED <<inputs, capacity, memory>>

\* The user erases the last entries only.
Erase(h) ==
    /\ erases /\ Exists(h)
    /\ \E n \in 1 .. Len(calls[h]) - 1 : calls' = [calls EXCEPT ![h] = SubSeq(@, 1, n)]
    /\ UNCHANGED <<inputs, capacity, memory>>

----------------------------------------------------------------------------
\* The loop of the copy constructor: a pointer to the source's i-th string becomes one to
\* the copy's.  Mutant: the pointers are copied.
PointersOf(g, place) == calls[g]
Repointed(g, place) ==
    [k \in DOMAIN calls[g] |->
       IF calls[g][k] \in Strings(inputs[g])
       THEN place[CHOOSE i \in DOMAIN inputs[g] : inputs[g][i] = calls[g][k]]
       ELSE calls[g][k]]

\* Host h becomes a copy of g: the strings are copied to new places.  An assignment copies
\* to a temporary, moves that to h, and so frees the strings h had last.
BecomeCopy(g, h, before) ==
    \E place \in Placements(DOMAIN inputs[g], DOMAIN memory) :
      /\ calls' = With(calls, h, Repointed(g, place))
      /\ inputs' = With(inputs, h, place)
      /\ capacity' = With(capacity, h, Reserved(Len(inputs[g])))
      /\ memory' = [b \in (DOMAIN memory \ Strings(before)) \cup Strings(place) |->
                      IF b \in Strings(place)
                      THEN memory[inputs[g][CHOOSE i \in DOMAIN place : place[i] = b]]
                      ELSE memory[b]]

CopyConstructHost(g, h) == Exists(g) /\ ~Exists(h) /\ BecomeCopy(g, h, <<>>)

\* Also to itself.
CopyAssignHost(g, h) == Exists(g) /\ Exists(h) /\ BecomeCopy(g, h, inputs[h])

\* Host h takes the vectors of g, which are left empty.
Take(f, g, h, nothing) == With(With(f, h, f[g]), g, nothing)

\* Mutant of BecomeMoved: the source keeps its vectors.
BecomeShared(g, h) ==
    /\ calls' = With(calls, h, calls[g])
    /\ inputs' = With(inputs, h, inputs[g])
    /\ capacity' = With(capacity, h, capacity[g])
BecomeMoved(g, h) ==
    /\ calls' = Take(calls, g, h, <<>>)
    /\ inputs' = Take(inputs, g, h, <<>>)
    /\ capacity' = Take(capacity, g, h, 0)

MoveConstructHost(g, h) == Exists(g) /\ ~Exists(h) /\ BecomeMoved(g, h) /\ UNCHANGED memory

MoveAssignHost(g, h) ==
    /\ Exists(g) /\ Exists(h) /\ g # h
    /\ BecomeMoved(g, h)
    /\ memory' = Without(memory, Strings(inputs[h]))

Destroy(h) ==
    /\ Exists(h)
    /\ calls' = Without(calls, {h})
    /\ inputs' = Without(inputs, {h})
    /\ capacity' = Without(capacity, {h})
    /\ memory' = Without(memory, Strings(inputs[h]))

RecordsInit == erases \in BOOLEAN /\ calls = <<>> /\ inputs = <<>> /\ capacity = <<>> /\ memory = <<>>

HostStep ==
    \/ \E h \in Hosts : Construct(h) \/ Call(h) \/ CallWithoutInput(h) \/ Clear(h) \/ Erase(h)
                          \/ Destroy(h)
    \/ \E g, h \in Hosts : CopyConstructHost(g, h) \/ CopyAssignHost(g, h) \/ MoveConstructHost(g, h)
                             \/ MoveAssignHost(g, h)

RecordsNext == HostStep /\ UNCHANGED erases

RecordsSpec == RecordsInit /\ [][RecordsNext]_recordVars

----------------------------------------------------------------------------
\* "Keep the guarantee that recording more calls will not invalidate pointers into
\* m_recorded_calls_inputs": every pointer in a host's record leads to a string that the
\* same host owns, after any sequence of calls, clears, copies and moves.
InputsValid ==
    \A h \in DOMAIN calls : Strings(calls[h]) \subseteq Strings(inputs[h]) \cup {Null}

\* What a user reads through the record.
Read(pointer) ==
    CASE pointer = Null -> Empty
      [] pointer \in DOMAIN memory -> memory[pointer]
      [] OTHER -> "garbage"

Log == INSTANCE CallLog WITH
    log <- [h \in DOMAIN calls |-> [k \in DOMAIN calls[h] |-> Read(calls[h][k])]]

\* Read through its pointers, a host is a value: it holds the inputs of its own calls in
\* order, and no step on another host, its source or a copy of it, changes them.
CopiesIndependent == Log!Spec
=============================================================================

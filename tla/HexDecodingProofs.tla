------------------------- MODULE HexDecodingProofs -------------------------
(***************************************************************************)
(* Proofs about HexDecoding: for texts of any length and arrays of any size *)
(* the output is at most half as long as the input and stays in the array,  *)
(* and exactly the texts that are accepted as a whole are decoded, to what  *)
(* their digits mean.                                                       *)
(***************************************************************************)
EXTENDS HexDecoding, WellFoundedInduction, SequenceTheorems, TLAPS

\* The decoder has consumed at most the characters the iterator has passed, and written a
\* byte for each two of them.
Paced ==
    /\ start + i <= base
    /\ 2 * Len(out) <= i
    /\ i % 2 = 1 => hi >= 0

\* Nothing was done before from_hex() begins; then the place of the first byte leaves room
\* for half of what is to be read.
Positioned ==
    /\ answer = "called" => start = 1 /\ base = 1 /\ i = 0 /\ out = <<>>
    /\ entry \in Fixed => offset <= Size
    /\ entry \in Fixed /\ answer = "scanning" => (End - start) \div 2 = Size - offset

Inv == TypeOK /\ Paced /\ Positioned /\ WritesInBounds

\* The steps, by what they do: give up, begin, take a character, or end.
Begins == \E p \in 1 .. End, place \in Nat :
    /\ answer = "called" /\ Scan(p, place)
    /\ entry \in Fixed => (End - p) \div 2 = Size - place
Takes(h, o) ==
    /\ Scanning /\ NextCharacter
    /\ hi' = h /\ out' = o
    /\ UNCHANGED <<entry, text, start, offset, answer>>

LEMMA TextLength ==
    ASSUME TypeOK
    PROVE  Len(text) \in Nat /\ End \in Nat /\ End = Len(text) + 1 /\ End - 1 = Len(text)
BY DEF TypeOK, End

LEMMA ScanIntoPlaced ==
    ASSUME Inv, NEW p \in 1 .. End, answer = "called", ScanInto(p)
    PROVE  Reject \/ Begins
<1> DEFINE n == (End - p) \div 2
<1>1. n \in Nat /\ End \in Nat
  BY TextLength DEF Inv
<1>2. CASE n > Size
  BY <1>2 DEF ScanInto
<1>3. CASE ~(n > Size)
  <2>1. Scan(p, Size - n)
    BY <1>3 DEF ScanInto
  <2>2. Size - n \in Nat /\ (End - p) \div 2 = Size - (Size - n)
    BY <1>1, <1>3, HexAssumption
  <2> QED BY <2>1, <2>2 DEF Begins
<1> QED BY <1>2, <1>3

LEMMA Entering ==
    ASSUME Inv, Enters
    PROVE  Reject \/ Begins
<1>1. End \in Nat /\ End = Len(text) + 1 /\ Len(text) \in Nat /\ text \in Seq(Char)
  BY TextLength DEF Inv, TypeOK
<1>2. CASE FromHex \/ ValidateHex \/ FromSpacedHex
  BY <1>1, <1>2 DEF FromHex, ValidateHex, FromSpacedHex, Begins, Fixed
<1>3. CASE FromHexT
  <2>1. 1 \in 1 .. End
    BY <1>1
  <2>2. HasPrefix(1, {x}) => 3 \in 1 .. End
    BY <1>1 DEF HasPrefix
  <2> QED BY <1>3, <2>1, <2>2, ScanIntoPlaced DEF FromHexT
<1>4. CASE FromPrefixedHex
  <2>1. 1 \in 1 .. End /\ (text # <<>> => 2 \in 1 .. End)
    BY <1>1
  <2> QED BY <1>4, <2>1, ScanIntoPlaced DEF FromPrefixedHex
<1> QED BY <1>2, <1>3, <1>4 DEF Enters

LEMMA BeginsKeeps ==
    ASSUME Inv, Begins
    PROVE  Inv'
<1>1. PICK p \in 1 .. End, place \in Nat :
        /\ answer = "called" /\ Scan(p, place)
        /\ entry \in Fixed => (End - p) \div 2 = Size - place
  BY DEF Begins
<1>2. /\ answer' = "scanning" /\ start' = p /\ offset' = place /\ ForwardFrom(p)
      /\ entry' = entry /\ text' = text /\ i' = i /\ hi' = hi /\ out' = out /\ End' = End
      /\ i = 0 /\ out = <<>> /\ End \in Nat
  BY <1>1, TextLength DEF Scan, Inv, Positioned, End
<1>3. base' \in p .. End
  BY <1>2 DEF ForwardFrom
<1>4. TypeOK'
  BY <1>2, <1>3 DEF Inv, TypeOK
<1>5. Paced'
  <2>1. i' = 0 /\ Len(out') = 0
    BY <1>2
  <2>2. p \in Int /\ base' \in Int /\ base' >= p /\ start' = p
    BY <1>1, <1>2, <1>3
  <2>3. i' % 2 # 1 /\ 2 * Len(out') <= i'
    BY <2>1
  <2> QED BY <2>1, <2>2, <2>3 DEF Paced
<1>6. Positioned' /\ WritesInBounds'
  <2>1. entry \in Fixed => place <= Size
    BY <1>1, <1>2, HexAssumption
  <2> QED BY <1>1, <1>2, <2>1 DEF Positioned, WritesInBounds
<1> QED BY <1>4, <1>5, <1>6 DEF Inv

\* Taking a character, with what the two nibbles have to satisfy.
LEMMA TakesKeeps ==
    ASSUME Inv, NEW h \in -1 .. 240, NEW o \in Seq(0 .. 255), Takes(h, o),
           (i + 1) % 2 = 1 => h >= 0,
           2 * Len(o) <= i + 1
    PROVE  Inv'
<1>1. /\ End \in Nat /\ End' = End /\ base \in start .. End /\ base # End
      /\ start \in 1 .. End /\ i \in Nat /\ answer = "scanning" /\ answer' = answer
      /\ entry' = entry /\ text' = text /\ start' = start /\ offset' = offset
      /\ hi' = h /\ out' = o /\ i' = i + 1
      /\ start + i <= base
  BY TextLength DEF Inv, TypeOK, Paced, Takes, Scanning, NextCharacter, End
<1>2. base' \in base + 1 .. End
  BY <1>1 DEF Takes, NextCharacter, ForwardFrom
<1>3. TypeOK'
  BY <1>1, <1>2 DEF Inv, TypeOK
<1>4. Paced'
  <2>1. /\ start' = start /\ i' = i + 1 /\ start + i <= base /\ base' >= base + 1
        /\ i \in Int /\ base \in Int /\ start \in Int /\ base' \in Int
    BY <1>1, <1>2
  <2>2. 2 * Len(out') <= i'
    BY <1>1
  <2>3. i' % 2 = 1 => hi' >= 0
    BY <1>1
  <2> QED BY <2>1, <2>2, <2>3 DEF Paced
<1>5. Positioned'
  BY <1>1 DEF Inv, Positioned
<1>6. WritesInBounds'
  <2>1. Len(o) \in Nat /\ 2 * Len(o) <= End - start
    BY <1>1, <1>2
  <2>2. Len(o) <= (End - start) \div 2
    BY <2>1, <1>1
  <2>3. entry \in Fixed => (End - start) \div 2 = Size - offset
    BY <1>1 DEF Inv, Positioned
  <2>4. offset \in Nat /\ Size \in Nat
    BY HexAssumption DEF Inv, TypeOK
  <2> QED BY <1>1, <2>1, <2>2, <2>3, <2>4 DEF WritesInBounds
<1> QED BY <1>3, <1>4, <1>5, <1>6 DEF Inv

LEMMA RejectKeeps ==
    ASSUME Inv, Reject
    PROVE  Inv'
<1> USE DEF Reject
<1>1. TypeOK' /\ WritesInBounds'
  BY DEF Inv, TypeOK, WritesInBounds, End
<1>2. Paced' /\ Positioned'
  BY DEF Inv, Paced, Positioned
<1> QED BY <1>1, <1>2 DEF Inv

LEMMA Keeps ==
    ASSUME Inv, [Next]_vars
    PROVE  Inv'
<1> USE DEF Scanning
<1>1. CASE Enters
  BY <1>1, Entering, BeginsKeeps, RejectKeeps
<1>2. hi \in -1 .. 240 /\ i \in Nat /\ out \in Seq(0 .. 255) /\ 2 * Len(out) <= i
      /\ (i % 2 = 1 => hi >= 0) /\ Len(out) \in Nat
  BY DEF Inv, TypeOK, Paced
<1>3. CASE SkipPrefix
  <2>1. Takes(hi, out) /\ i = 1
    BY <1>3 DEF SkipPrefix, Takes
  <2>2. (i + 1) % 2 # 1 /\ 2 * Len(out) <= i + 1
    BY <1>2, <2>1
  <2> QED BY <1>2, <2>1, <2>2, TakesKeeps
<1>4. CASE HighNibble
  <2>1. Value \in 0 .. 15
    BY <1>4 DEF HighNibble, Value, from_hex_digit
  <2>2. Takes(Value * 16, out)
    BY <1>4 DEF HighNibble, Takes
  <2>3. Value * 16 \in -1 .. 240 /\ Value * 16 >= 0
    BY <2>1
  <2>4. 2 * Len(out) <= i + 1
    BY <1>2
  <2> QED BY <1>2, <2>2, <2>3, <2>4, TakesKeeps
<1>5. CASE LowNibble
  <2>1. Value \in 0 .. 15 /\ i % 2 = 1
    BY <1>5 DEF LowNibble, Value, from_hex_digit
  <2>2. hi + Value \in 0 .. 255
    BY <1>2, <2>1
  <2> DEFINE o == Append(out, hi + Value)
  <2>3. o \in Seq(0 .. 255) /\ Len(o) = Len(out) + 1
    BY <1>2, <2>2
  <2>4. Takes(hi, o)
    BY <1>5 DEF LowNibble, Takes
  <2>5. 2 * Len(out) <= i - 1 /\ (i + 1) % 2 # 1
    BY <1>2, <2>1
  <2>6. 2 * Len(o) <= i + 1
    BY <1>2, <2>3, <2>5
  <2> HIDE DEF o
  <2> QED BY <1>2, <2>3, <2>4, <2>5, <2>6, TakesKeeps
<1>6. CASE InvalidDigit
  BY <1>6, RejectKeeps DEF InvalidDigit
<1>7. CASE Finish
  <2>1. answer' \in {"valid", "invalid"}
        /\ UNCHANGED <<entry, text, start, base, i, hi, offset, out>>
    BY <1>7 DEF Finish
  <2>2. TypeOK' /\ WritesInBounds'
    BY <2>1 DEF Inv, TypeOK, WritesInBounds, End
  <2>3. Paced' /\ Positioned'
    BY <2>1 DEF Inv, Paced, Positioned
  <2> QED BY <2>2, <2>3 DEF Inv
<1>8. CASE UNCHANGED vars
  <2> USE <1>8 DEF vars
  <2>1. TypeOK' /\ WritesInBounds'
    BY DEF Inv, TypeOK, WritesInBounds, End
  <2>2. Paced' /\ Positioned'
    BY DEF Inv, Paced, Positioned, End
  <2> QED BY <2>1, <2>2 DEF Inv
<1> QED BY <1>1, <1>3, <1>4, <1>5, <1>6, <1>7, <1>8 DEF Next

\* The invariant of from_hex() behind the theorems below: its pace, and its place in the array.
THEOREM HexInvariant == Spec => []Inv
<1>1. Init => Inv
  <2> SUFFICES ASSUME Init PROVE Inv
    OBVIOUS
  <2>1. text \in Seq(Char) /\ End \in Nat /\ End >= 1
    BY DEF Init, Texts, End
  <2>2. TypeOK
    BY <2>1 DEF Init, TypeOK
  <2>3. Paced /\ 0 % 2 # 1
    BY DEF Init, Paced
  <2>4. Positioned /\ WritesInBounds
    BY HexAssumption DEF Init, Positioned, WritesInBounds
  <2> QED BY <2>2, <2>3, <2>4 DEF Inv
<1> QED BY <1>1, Keeps, PTL DEF Spec

\* The types, with every byte made of two digits of the text.
THEOREM TypeCorrect == Spec => []TypeOK
BY HexInvariant, PTL DEF Inv

\* The output is never longer than half of the input, as promised at from_hex().
THEOREM AlwaysHalfAsLong == Spec => []HalfAsLong
<1>1. Inv => HalfAsLong
  <2> SUFFICES ASSUME Inv PROVE HalfAsLong
    OBVIOUS
  <2>1. /\ i \in Nat /\ base \in start .. End /\ start \in 1 .. End /\ Len(out) \in Nat
        /\ End \in Nat /\ End - 1 = Len(text) /\ start + i <= base /\ 2 * Len(out) <= i
    BY TextLength DEF Inv, TypeOK, Paced
  <2> QED BY <2>1 DEF HalfAsLong
<1> QED BY <1>1, HexInvariant, PTL

\* from_hex<T>() and from_prefixed_hex<T>() write only into the bytes of T.
THEOREM AlwaysInBounds == Spec => []WritesInBounds
BY HexInvariant, PTL DEF Inv

----------------------------------------------------------------------------
\* A set of numbers with zero, and with the successor of each number it has, has all numbers:
\* otherwise a least one would be missing.
LEMMA Induction ==
    ASSUME NEW S, 0 \in S, \A n \in Nat : n \in S => n + 1 \in S
    PROVE  Nat \subseteq S
<1> SUFFICES ASSUME ~(Nat \subseteq S) PROVE FALSE
  OBVIOUS
<1> DEFINE less == OpToRel(<, Nat)
           missing == Nat \ S
<1>1. IsWellFoundedOn(less, Nat)
  BY NatLessThanWellFounded
<1>2. PICK n \in missing : \A m \in missing : <<m, n>> \notin less
  <2> HIDE DEF less
  <2> QED BY <1>1, WFMin
<1>3. n \in Nat /\ n - 1 \in Nat /\ <<n - 1, n>> \in less
  BY DEF OpToRel
<1> HIDE DEF less
<1>4. n - 1 \in S
  BY <1>2, <1>3
<1> QED BY <1>3, <1>4

\* What the iterator shows of the first n characters of a text, as Significant computes it.
Shows(e, t, g) ==
    g = [n \in 0 .. Len(t) |->
           IF n = 0 THEN <<>>
           ELSE IF e = "from_spaced_hex" /\ IsSpace(t[n]) THEN g[n - 1] ELSE Append(g[n - 1], t[n])]
Shown(e, t) == CHOOSE g : Shows(e, t, g)

LEMMA ShownExists ==
    ASSUME NEW e, NEW t \in Seq(Char)
    PROVE  Shows(e, t, Shown(e, t))
<1> DEFINE next(n, s) == IF e = "from_spaced_hex" /\ IsSpace(t[n]) THEN s ELSE Append(s, t[n])
           Upto(n, g) == g = [k \in 0 .. n |-> IF k = 0 THEN <<>> ELSE next(k, g[k - 1])]
           S == {n \in Nat : \E g : Upto(n, g)}
<1>1. 0 \in S
  <2> DEFINE g == [k \in 0 .. 0 |-> <<>>]
  <2>1. Upto(0, g)
    OBVIOUS
  <2> QED BY <2>1
<1>2. \A n \in Nat : n \in S => n + 1 \in S
  <2> SUFFICES ASSUME NEW n \in Nat, n \in S PROVE n + 1 \in S
    OBVIOUS
  <2> PICK g : Upto(n, g)
    OBVIOUS
  <2> DEFINE h == [k \in 0 .. n + 1 |-> IF k = n + 1 THEN next(n + 1, g[n]) ELSE g[k]]
  <2> HIDE DEF next
  <2>1. \A k \in 0 .. n : g[k] = IF k = 0 THEN <<>> ELSE next(k, g[k - 1])
    OBVIOUS
  <2>2. \A k \in 0 .. n + 1 : h[k] = IF k = 0 THEN <<>> ELSE next(k, h[k - 1])
    <3> SUFFICES ASSUME NEW k \in 0 .. n + 1
                 PROVE  h[k] = IF k = 0 THEN <<>> ELSE next(k, h[k - 1])
      OBVIOUS
    <3>1. CASE k = n + 1
      BY <3>1
    <3>2. CASE k # n + 1
      <4>1. k \in 0 .. n /\ (k # 0 => k - 1 \in 0 .. n)
        BY <3>2
      <4>2. h[k] = g[k] /\ (k # 0 => h[k - 1] = g[k - 1])
        BY <3>2, <4>1
      <4> HIDE DEF h
      <4> QED BY <2>1, <4>1, <4>2
    <3> QED BY <3>1, <3>2
  <2>3. Upto(n + 1, h)
    <3>1. h = [k \in 0 .. n + 1 |-> h[k]]
      OBVIOUS
    <3> HIDE DEF h
    <3> QED BY <2>2, <3>1
  <2> HIDE DEF h, Upto
  <2> QED BY <2>3
<1> HIDE DEF S
<1>3. Len(t) \in S
  <2>1. Nat \subseteq S
    BY <1>1, <1>2, Induction
  <2> QED BY <2>1
<1>4. \E g : Shows(e, t, g)
  BY <1>3 DEF S, Shows
<1> QED BY <1>4 DEF Shown

\* Character by character.
LEMMA ShownStep ==
    ASSUME NEW e, NEW t \in Seq(Char)
    PROVE  /\ Shown(e, t)[0] = <<>>
           /\ \A n \in 1 .. Len(t) :
                Shown(e, t)[n] = IF e = "from_spaced_hex" /\ IsSpace(t[n]) THEN Shown(e, t)[n - 1]
                                 ELSE Append(Shown(e, t)[n - 1], t[n])
<1> DEFINE g == Shown(e, t)
           next(n) == IF e = "from_spaced_hex" /\ IsSpace(t[n]) THEN g[n - 1]
                      ELSE Append(g[n - 1], t[n])
<1>1. g = [n \in 0 .. Len(t) |-> IF n = 0 THEN <<>> ELSE next(n)]
  BY ShownExists DEF Shows
<1> HIDE DEF g, next
<1>2. Len(t) \in Nat
  OBVIOUS
<1>3. g[0] = <<>> /\ \A n \in 1 .. Len(t) : g[n] = next(n)
  BY <1>1, <1>2
<1> QED BY <1>3 DEF g, next

LEMMA ShownTyped ==
    ASSUME NEW e, NEW t \in Seq(Char), NEW n \in 0 .. Len(t)
    PROVE  /\ Shown(e, t)[n] \in Seq(Char)
           /\ e # "from_spaced_hex" =>
                Len(Shown(e, t)[n]) = n /\ \A k \in 1 .. n : Shown(e, t)[n][k] = t[k]
<1> DEFINE g == Shown(e, t)
           whole(m) == Len(g[m]) = m /\ \A k \in 1 .. m : g[m][k] = t[k]
           S == {m \in Nat : m <= Len(t) =>
                   g[m] \in Seq(Char) /\ (e # "from_spaced_hex" => whole(m))}
<1>1. 0 \in S
  <2>1. g[0] = <<>>
    BY ShownStep
  <2> HIDE DEF g
  <2>2. g[0] \in Seq(Char) /\ whole(0)
    BY <2>1
  <2> QED BY <2>2
<1>2. \A m \in Nat : m \in S => m + 1 \in S
  <2> SUFFICES ASSUME NEW m \in Nat, m \in S, m + 1 <= Len(t)
               PROVE  g[m + 1] \in Seq(Char) /\ (e # "from_spaced_hex" => whole(m + 1))
    OBVIOUS
  <2>1. m + 1 \in 1 .. Len(t) /\ m + 1 - 1 = m
    OBVIOUS
  <2>2. t[m + 1] \in Char
    BY <2>1, ElementOfSeq
  <2>3. g[m + 1] = IF e = "from_spaced_hex" /\ IsSpace(t[m + 1]) THEN g[m]
                   ELSE Append(g[m], t[m + 1])
    BY <2>1, ShownStep
  <2>4. g[m] \in Seq(Char) /\ (e # "from_spaced_hex" => whole(m))
    OBVIOUS
  <2> HIDE DEF g
  <2> QED BY <2>1, <2>2, <2>3, <2>4
<1> HIDE DEF S, g
<1>3. n \in S /\ n \in Nat /\ n <= Len(t)
  <2>1. Nat \subseteq S
    BY <1>1, <1>2, Induction
  <2> QED BY <2>1
<1> QED BY <1>3 DEF S, g

\* What is shown of more characters goes on from what is shown of fewer.
LEMMA ShownGrows ==
    ASSUME NEW e, NEW t \in Seq(Char), NEW p \in 0 .. Len(t), NEW q \in p .. Len(t)
    PROVE  /\ Len(Shown(e, t)[p]) <= Len(Shown(e, t)[q])
           /\ \A k \in 1 .. Len(Shown(e, t)[p]) : Shown(e, t)[q][k] = Shown(e, t)[p][k]
           /\ (e = "from_spaced_hex" /\ \A k \in p + 1 .. q : IsSpace(t[k])) =>
                Shown(e, t)[q] = Shown(e, t)[p]
<1> DEFINE g == Shown(e, t)
           spaces(m) == e = "from_spaced_hex" /\ \A k \in p + 1 .. p + m : IsSpace(t[k])
           grown(m) == /\ Len(g[p]) <= Len(g[p + m])
                       /\ \A k \in 1 .. Len(g[p]) : g[p + m][k] = g[p][k]
                       /\ spaces(m) => g[p + m] = g[p]
           S == {m \in Nat : p + m <= Len(t) => grown(m)}
<1>1. \A m \in 0 .. Len(t) : g[m] \in Seq(Char)
  BY ShownTyped
<1>2. 0 \in S
  BY <1>1
<1>3. \A m \in Nat : m \in S => m + 1 \in S
  <2> SUFFICES ASSUME NEW m \in Nat, m \in S, p + (m + 1) <= Len(t) PROVE grown(m + 1)
    <3> HIDE DEF grown
    <3> QED OBVIOUS
  <2> grown(m)
    <3> HIDE DEF grown
    <3> QED OBVIOUS
  <2> DEFINE n == p + m
  <2>1. n + 1 \in 1 .. Len(t) /\ n + 1 - 1 = n /\ p + (m + 1) = n + 1 /\ n \in 0 .. Len(t)
    OBVIOUS
  <2>2. g[n + 1] = IF e = "from_spaced_hex" /\ IsSpace(t[n + 1]) THEN g[n]
                   ELSE Append(g[n], t[n + 1])
    BY <2>1, ShownStep
  <2>3. spaces(m + 1) => spaces(m) /\ IsSpace(t[n + 1])
    OBVIOUS
  <2>4. /\ Len(g[p]) <= Len(g[n]) /\ (\A k \in 1 .. Len(g[p]) : g[n][k] = g[p][k])
        /\ spaces(m) => g[n] = g[p]
    OBVIOUS
  <2>5. g[p] \in Seq(Char) /\ g[n] \in Seq(Char)
    BY <1>1, <2>1
  <2>6. t[n + 1] \in Char
    BY <2>1, ElementOfSeq
  <2>7. CASE e = "from_spaced_hex" /\ IsSpace(t[n + 1])
    BY <2>1, <2>2, <2>3, <2>4, <2>7
  <2>8. CASE ~(e = "from_spaced_hex" /\ IsSpace(t[n + 1]))
    <3>1. g[n + 1] = Append(g[n], t[n + 1]) /\ ~spaces(m + 1)
      BY <2>2, <2>3, <2>8
    <3> HIDE DEF g, spaces, n
    <3>2. /\ Len(g[n + 1]) = Len(g[n]) + 1
          /\ \A k \in 1 .. Len(g[n]) : g[n + 1][k] = g[n][k]
      BY <2>5, <2>6, <3>1
    <3>3. Len(g[p]) <= Len(g[n + 1]) /\ \A k \in 1 .. Len(g[p]) : g[n + 1][k] = g[p][k]
      BY <2>4, <2>5, <3>2
    <3> QED BY <2>1, <3>1, <3>3
  <2> QED BY <2>7, <2>8
<1>4. q - p \in S /\ p + (q - p) = q
  <2> HIDE DEF S
  <2>1. Nat \subseteq S
    BY <1>2, <1>3, Induction
  <2> QED BY <2>1
<1>5. grown(q - p)
  <2> HIDE DEF grown
  <2> QED BY <1>4
<1> QED BY <1>4, <1>5
\* What Significant computes, by what is shown of the whole text.
LEMMA SignificantIs ==
    Significant = Shown(entry, text)[Len(text)]
BY DEF Significant, Shown, Shows, Skipped

\* Of the characters the digits are those with a value.
LEMMA DigitOrOther ==
    ASSUME NEW c \in Char
    PROVE  /\ c \in Digits <=> from_hex_digit(c) >= 0
           /\ c \in Digits => c \in 0 .. 15 /\ from_hex_digit(c) = c
           /\ c \in {x, X} => c \notin Digits
<1>1. c \in Digits => c \in 0 .. 15
  BY HexAssumption
<1>2. c \notin Digits => c \notin 0 .. 15
  BY HexAssumption DEF Char
<1>3. c \in {x, X} => c \notin 0 .. 15
  BY HexAssumption DEF Others
<1>4. /\ c \in 0 .. 15 => from_hex_digit(c) = c
      /\ c \notin 0 .. 15 => from_hex_digit(c) = -1
  BY DEF from_hex_digit
<1>5. c \in 0 .. 15 => c >= 0
  OBVIOUS
<1>6. ~(-1 >= 0)
  OBVIOUS
<1> QED BY <1>1, <1>2, <1>3, <1>4, <1>5, <1>6

LEMMA SignificantTyped ==
    ASSUME TypeOK
    PROVE  /\ Significant \in Seq(Char)
           /\ entry # "from_spaced_hex" => Significant = text
<1> DEFINE S == Significant
<1>1. text \in Seq(Char) /\ Len(text) \in 0 .. Len(text)
  BY DEF TypeOK
<1>2. S \in Seq(Char)
  BY <1>1, SignificantIs, ShownTyped
<1>3. ASSUME entry # "from_spaced_hex"
      PROVE  S = text
  <2>1. Len(S) = Len(text) /\ \A k \in 1 .. Len(text) : S[k] = text[k]
    BY <1>1, <1>3, SignificantIs, ShownTyped
  <2> HIDE DEF S
  <2> QED BY <1>1, <1>2, <2>1, SeqEqual
<1> QED BY <1>2, <1>3

\* What is removed as prefix, for each function.
LEMMA RemovedIs ==
    ASSUME NEW s
    PROVE  /\ entry = "from_prefixed_hex" =>
                Removed(s) = IF s # <<>> /\ s[1] = Prefix THEN 1 ELSE 0
           /\ entry # "from_prefixed_hex" =>
                Removed(s) = IF Len(s) >= 2 /\ s[1] = 0 /\ s[2] = x THEN 2 ELSE 0
BY Zenon DEF Removed

LEMMA BodyIs ==
    ASSUME TypeOK
    PROVE  /\ Removed(Significant) \in 0 .. Len(Significant)
           /\ Body \in Seq(Char)
           /\ Len(Body) = Len(Significant) - Removed(Significant)
           /\ \A k \in 1 .. Len(Body) : Body[k] = Significant[Removed(Significant) + k]
<1> DEFINE S == Significant
           r == Removed(S)
<1>1. S \in Seq(Char)
  BY SignificantTyped
<1> HIDE DEF S
<1>2. r \in 0 .. Len(S)
  <2>1. S # <<>> => Len(S) >= 1
    BY <1>1
  <2>2. r \in {0, 1, 2} /\ (r = 1 => S # <<>>) /\ (r = 2 => Len(S) >= 2)
    BY RemovedIs
  <2> QED BY <1>1, <2>1, <2>2
<1> HIDE DEF r
<1>3. Body = SubSeq(S, r + 1, Len(S))
  BY DEF Body, S, r
<1>4. Body \in Seq(Char) /\ Len(Body) = Len(S) - r /\ \A k \in 1 .. Len(Body) : Body[k] = S[r + k]
  BY <1>1, <1>2, <1>3
<1> QED BY <1>2, <1>4 DEF S, r

----------------------------------------------------------------------------
\* After n characters from the d-th one on, e of which were a prefix: all others are digits,
\* two of them for each byte of o, and h keeps the nibble of one without a second.
Reads(s, d, e, n, o, h) ==
    /\ \A k \in d + e + 1 .. d + n : s[k] \in Digits
    /\ Len(o) = IF n <= e THEN 0 ELSE (n - e) \div 2
    /\ \A k \in 1 .. Len(o) : o[k] = 16 * s[d + e + 2 * k - 1] + s[d + e + 2 * k]
    /\ n % 2 = 1 => h = 16 * s[d + n]

LEMMA ReadsHigh ==
    ASSUME NEW s, NEW d \in Nat, NEW e \in {0, 2}, NEW n \in Nat, NEW o, NEW h, NEW c \in Digits,
           Reads(s, d, e, n, o, h), n % 2 = 0, c = s[d + n + 1]
    PROVE  Reads(s, d, e, n + 1, o, 16 * c)
<1>1. \A k \in d + e + 1 .. d + (n + 1) : s[k] \in Digits
  <2>1. \A k \in d + e + 1 .. d + (n + 1) : k = d + n + 1 \/ k \in d + e + 1 .. d + n
    OBVIOUS
  <2> QED BY <2>1 DEF Reads
<1>2. (IF n + 1 <= e THEN 0 ELSE (n + 1 - e) \div 2) = IF n <= e THEN 0 ELSE (n - e) \div 2
  OBVIOUS
<1>3. d + (n + 1) = d + n + 1
  OBVIOUS
<1> QED BY <1>1, <1>2, <1>3 DEF Reads

LEMMA OddHalved ==
    ASSUME NEW n \in Nat, n % 2 = 1
    PROVE  2 * (n \div 2 + 1) = n + 1 /\ (n + 1) \div 2 = n \div 2 + 1
OBVIOUS

LEMMA ReadsLow ==
    ASSUME NEW s, NEW d \in Nat, NEW e \in {0, 2}, NEW n \in Nat, NEW o, NEW h, NEW a,
           Len(a) = Len(o) + 1, a[Len(o) + 1] = h + s[d + n + 1],
           \A k \in 1 .. Len(o) : a[k] = o[k],
           s[d + n + 1] \in Digits, Reads(s, d, e, n, o, h), n % 2 = 1, n > e
    PROVE  Reads(s, d, e, n + 1, a, h)
<1> DEFINE m == Len(o) + 1
<1>1. \A k \in d + e + 1 .. d + (n + 1) : s[k] \in Digits
  <2>1. \A k \in d + e + 1 .. d + (n + 1) : k = d + n + 1 \/ k \in d + e + 1 .. d + n
    OBVIOUS
  <2> QED BY <2>1 DEF Reads
<1>2. Len(o) = (n - e) \div 2 /\ Len(o) \in Nat
  BY DEF Reads
<1>3. 2 * m = n + 1 - e /\ m = (n + 1 - e) \div 2 /\ n + 1 > e
  <2>1. PICK q \in Nat : q = n - e /\ q + 1 = n + 1 - e
    OBVIOUS
  <2>2. q % 2 = 1
    BY <2>1
  <2>3. PICK l \in Nat : l = Len(o) /\ l = q \div 2
    BY <1>2, <2>1
  <2>4. 2 * (l + 1) = q + 1 /\ l + 1 = (q + 1) \div 2
    BY <2>2, <2>3, OddHalved
  <2> QED BY <2>1, <2>3, <2>4
<1>4. Len(a) = m /\ a[m] = h + s[d + n + 1] /\ \A k \in 1 .. Len(o) : a[k] = o[k]
  OBVIOUS
<1>5. d + e + 2 * m = d + n + 1 /\ d + e + 2 * m - 1 = d + n
  BY <1>2, <1>3
<1>6. h = 16 * s[d + n]
  BY DEF Reads
<1>7. \A k \in 1 .. Len(a) : a[k] = 16 * s[d + e + 2 * k - 1] + s[d + e + 2 * k]
  <2> SUFFICES ASSUME NEW k \in 1 .. Len(a)
               PROVE  a[k] = 16 * s[d + e + 2 * k - 1] + s[d + e + 2 * k]
    OBVIOUS
  <2>1. CASE k = m
    <3>1. a[k] = h + s[d + n + 1]
      BY <1>4, <2>1
    <3>2. /\ s[d + e + 2 * k - 1] = s[d + n]
          /\ s[d + e + 2 * k] = s[d + n + 1]
      BY <1>5, <2>1
    <3> QED BY <1>6, <3>1, <3>2
  <2>2. CASE k # m
    <3>1. k \in 1 .. Len(o)
      BY <1>2, <1>4, <2>2
    <3> QED BY <1>4, <3>1 DEF Reads
  <2> QED BY <2>1, <2>2
<1>8. Len(a) = IF n + 1 <= e THEN 0 ELSE (n + 1 - e) \div 2
  BY <1>3, <1>4
<1>9. (n + 1) % 2 # 1
  OBVIOUS
<1> QED BY <1>1, <1>7, <1>8, <1>9 DEF Reads

----------------------------------------------------------------------------
\* The iterator goes on to what it shows next: after the same number of characters.
LEMMA Forwarded ==
    ASSUME TypeOK, NEW p \in 1 .. End, ForwardFrom(p)
    PROVE  /\ base' \in p .. End
           /\ Len(Shown(entry, text)[base' - 1]) = Len(Shown(entry, text)[p - 1])
           /\ base' # End => ~Skipped(base')
<1> DEFINE g == Shown(entry, text)
<1>1. End \in Nat /\ End = Len(text) + 1 /\ Len(text) \in Nat /\ text \in Seq(Char)
  BY TextLength DEF TypeOK
<1>2. CASE entry = "from_spaced_hex"
  <2>1. PICK q \in p .. End :
          /\ q = base'
          /\ \A k \in p .. q - 1 : IsSpace(text[k])
          /\ q # End => ~IsSpace(text[q])
    BY <1>2 DEF ForwardFrom
  <2>2. PICK u \in 0 .. Len(text), v \in Int :
          v \in u .. Len(text) /\ u = p - 1 /\ v = q - 1 /\ u + 1 = p
    BY <1>1
  <2>3. \A k \in u + 1 .. v : IsSpace(text[k])
    BY <2>1, <2>2
  <2>4. Shown(entry, text)[v] = Shown(entry, text)[u]
    BY <1>1, <1>2, <2>2, <2>3, ShownGrows
  <2>5. g[q - 1] = g[p - 1]
    BY <2>2, <2>4
  <2> QED BY <1>2, <2>1, <2>5 DEF Skipped
<1>3. CASE entry # "from_spaced_hex"
  BY <1>1, <1>3 DEF ForwardFrom, Skipped
<1> QED BY <1>2, <1>3

\* What it shows there is the next of the significant characters, or there is none.
LEMMA ShowsNext ==
    ASSUME TypeOK, NEW n, n = Len(Shown(entry, text)[base - 1]), base # End => ~Skipped(base)
    PROVE  /\ n \in Nat
           /\ base = End => n = Len(Significant)
           /\ base # End => n < Len(Significant) /\ Significant[n + 1] = text[base]
           /\ base # End => text[base] \in Char /\ Len(Shown(entry, text)[base]) = n + 1
<1> DEFINE g == Shown(entry, text)
<1>1. /\ End \in Nat /\ End = Len(text) + 1 /\ Len(text) \in Nat /\ text \in Seq(Char)
      /\ base \in 1 .. End
  BY TextLength DEF TypeOK
<1>2. base - 1 \in 0 .. Len(text) /\ g[base - 1] \in Seq(Char)
  BY <1>1, ShownTyped
<1>3. n \in Nat
  BY <1>2
<1>4. base = End => n = Len(Significant)
  BY <1>1, SignificantIs
<1>5. ASSUME base # End
      PROVE  /\ n < Len(Significant) /\ Significant[n + 1] = text[base]
             /\ text[base] \in Char /\ Len(g[base]) = n + 1
  <2>1. base \in 1 .. Len(text) /\ base \in 0 .. Len(text) /\ Len(text) \in base .. Len(text)
    BY <1>1, <1>5
  <2>2. text[base] \in Char
    BY <1>1, <2>1, ElementOfSeq
  <2>3. g[base] = Append(g[base - 1], text[base])
    BY <1>1, <1>5, <2>1, ShownStep DEF Skipped
  <2>4. /\ Len(g[base]) <= Len(Significant)
        /\ \A k \in 1 .. Len(g[base]) : Significant[k] = g[base][k]
    <3>1. g[Len(text)] = Significant
      BY SignificantIs
    <3> PICK l \in Nat : l = Len(text) /\ l \in base .. Len(text) /\ base \in 0 .. Len(text)
      BY <1>1, <2>1
    <3>2. /\ Len(g[base]) <= Len(g[l])
          /\ \A k \in 1 .. Len(g[base]) : g[l][k] = g[base][k]
      BY <1>1, ShownGrows
    <3> QED BY <3>1, <3>2
  <2>5. Significant \in Seq(Char)
    BY SignificantTyped
  <2> HIDE DEF g
  <2>6. Len(g[base]) = n + 1 /\ g[base][n + 1] = text[base]
    BY <1>2, <2>2, <2>3 DEF g
  <2>7. n + 1 \in 1 .. Len(g[base])
    BY <1>3, <2>6
  <2>8. Significant[n + 1] = text[base]
    BY <2>4, <2>6, <2>7
  <2>9. n < Len(Significant)
    <3>1. Len(Significant) \in Nat
      BY <2>5
    <3> QED BY <1>3, <2>4, <2>6, <3>1
  <2> QED BY <2>2, <2>6, <2>8, <2>9
<1> QED BY <1>3, <1>4, <1>5

----------------------------------------------------------------------------
\* After d characters the sequence goes on with 0x.
Begins0x(s, d) == Len(s) >= d + 2 /\ s[d + 1] = 0 /\ s[d + 2] = x

\* A scan has passed so many of the significant characters, skipped 0x if they begin with it,
\* and read digits since.
Follows ==
    /\ answer = "scanning" =>
         /\ Len(Shown(entry, text)[base - 1]) = start - 1 + i
         /\ base # End => ~Skipped(base)
         /\ \E e \in {0, 2} :
              /\ Removed(Significant) = start - 1 + e
              /\ e = 2 <=> Begins0x(Significant, start - 1)
              /\ e = 2 => entry \notin Fixed
              /\ Reads(Significant, start - 1, e, i, out, hi)
         /\ entry = "from_prefixed_hex" => text = <<>> \/ text[1] = Prefix
    /\ Decodes

\* Call and text stay, and what is to be decided with them.
LEMMA SameCall ==
    ASSUME entry' = entry, text' = text
    PROVE  /\ End' = End /\ Significant' = Significant /\ Body' = Body /\ Meaning' = Meaning
           /\ Removed(Significant)' = Removed(Significant)
           /\ Accepted' <=> Accepted
<1>1. End' = End
  BY DEF End
<1>2. Significant' = Significant
  BY DEF Significant, Skipped
<1>3. \A s : Removed(s)' = Removed(s)
  BY Zenon DEF Removed
<1>4. Removed(Significant)' = Removed(Significant)
  BY <1>2, Zenon DEF Removed
<1>5. Body' = Body
  BY <1>2, <1>4 DEF Body
<1>6. Meaning' = Meaning
  BY <1>5 DEF Meaning
<1>7. Accepted' <=> Accepted
  BY <1>5 DEF Accepted
<1> QED BY <1>1, <1>2, <1>4, <1>5, <1>6, <1>7

LEMMA RejectFollows ==
    ASSUME answer' = "invalid", entry' = entry, text' = text, ~Accepted
    PROVE  Follows'
BY SameCall DEF Follows, Decodes

LEMMA BeginsFollows ==
    ASSUME Inv, NEW p \in 1 .. End, NEW place, answer = "called", Scan(p, place),
           Len(Shown(entry, text)[p - 1]) = p - 1,
           NEW e \in {0, 2}, Removed(Significant) = p - 1 + e, e = 2 <=> Begins0x(Significant, p - 1),
           e = 2 => entry \notin Fixed,
           entry = "from_prefixed_hex" => text = <<>> \/ text[1] = Prefix
    PROVE  Follows'
<1>1. /\ answer' = "scanning" /\ start' = p /\ entry' = entry /\ text' = text
      /\ i' = 0 /\ out' = <<>> /\ ForwardFrom(p) /\ TypeOK /\ End' = End
  BY DEF Inv, Positioned, Scan, End
<1>2. Len(Shown(entry, text)[base' - 1]) = start' - 1 + i' /\ (base' # End => ~Skipped(base'))
  BY <1>1, Forwarded
<1>3. Reads(Significant, start' - 1, e, i', out', hi')
  BY <1>1 DEF Reads
<1>4. Decodes'
  BY <1>1 DEF Decodes
<1> QED BY <1>1, <1>2, <1>3, <1>4, SameCall DEF Follows, Skipped

\* What is longer than the array is not accepted.
LEMMA TooLong ==
    ASSUME Inv, entry \in Fixed, NEW p \in 1 .. End, Removed(Significant) = p - 1,
           (End - p) \div 2 > Size
    PROVE  ~Accepted
<1>1. /\ Significant = text /\ End \in Nat /\ End = Len(text) + 1 /\ Len(text) \in Nat
  BY SignificantTyped, TextLength DEF Inv, Fixed
<1>2. Len(Body) = End - p
  BY <1>1, BodyIs DEF Inv
<1>3. ~(Len(Body) <= 2 * Size)
  BY <1>1, <1>2, HexAssumption
<1> QED BY <1>3 DEF Accepted

\* A second prefix is not accepted either.
LEMMA PrefixedTwice ==
    ASSUME Inv, entry \in Fixed, NEW p \in 1 .. End, Removed(Significant) = p - 1,
           HasPrefix(p, {x, X})
    PROVE  ~Accepted
<1>1. Significant = text /\ text \in Seq(Char) /\ Len(text) \in Nat
  BY SignificantTyped DEF Inv, Fixed, TypeOK
<1>2. 2 \in 1 .. Len(Body) /\ Body[2] = text[p + 1] /\ p + 1 \in 1 .. Len(text)
  BY <1>1, BodyIs DEF Inv, HasPrefix
<1>3. Body[2] \notin Digits
  <2>1. text[p + 1] \in Char /\ text[p + 1] \in {x, X}
    BY <1>1, <1>2, ElementOfSeq DEF HasPrefix
  <2> QED BY <1>2, <2>1, DigitOrOther
<1> QED BY <1>2, <1>3 DEF Accepted

LEMMA IntoFollows ==
    ASSUME Inv, entry \in Fixed, answer = "called", NEW p \in 1 .. End, ScanInto(p),
           Removed(Significant) = p - 1, ~Begins0x(text, p - 1),
           entry = "from_prefixed_hex" => text = <<>> \/ text[1] = Prefix
    PROVE  Follows'
<1> DEFINE n == (End - p) \div 2
<1>1. CASE n > Size
  <2>1. Reject
    BY <1>1 DEF ScanInto
  <2> QED BY <1>1, <2>1, TooLong, RejectFollows DEF Reject
<1>2. CASE ~(n > Size)
  <2>1. Scan(p, Size - n)
    BY <1>2 DEF ScanInto
  <2>2. Significant = text /\ p - 1 \in 0 .. Len(text) /\ text \in Seq(Char) /\ p \in Int
    BY SignificantTyped, TextLength DEF Inv, Fixed, TypeOK
  <2>3. Len(Shown(entry, text)[p - 1]) = p - 1
    BY <2>2, ShownTyped DEF Fixed
  <2>4. Removed(Significant) = p - 1 + 0 /\ 0 # 2 /\ 0 \in {0, 2}
    BY <2>2
  <2> HIDE DEF n
  <2> QED BY <2>1, <2>2, <2>3, <2>4, BeginsFollows
<1> QED BY <1>1, <1>2

LEMMA EntersFollows ==
    ASSUME Inv, Enters
    PROVE  Follows'
<1>1. /\ End \in Nat /\ End = Len(text) + 1 /\ Len(text) \in Nat /\ text \in Seq(Char)
      /\ 1 \in 1 .. End /\ TypeOK
  BY TextLength DEF Inv, TypeOK
<1>2. CASE FromHex \/ ValidateHex \/ FromSpacedHex
  <2>1. /\ entry \in {"from_hex", "validate_hex", "from_spaced_hex"} /\ Scan(1, 0)
        /\ answer = "called"
    BY <1>2 DEF FromHex, ValidateHex, FromSpacedHex
  <2>2. /\ Removed(Significant) \in {0, 2}
        /\ Removed(Significant) = 2 <=> Begins0x(Significant, 0)
    BY <2>1, RemovedIs DEF Begins0x
  <2>3. Len(Shown(entry, text)[0]) = 0
    BY <1>1, ShownStep
  <2>4. 1 - 1 = 0 /\ Removed(Significant) = 1 - 1 + Removed(Significant) /\ entry \notin Fixed
    BY <2>1, <2>2 DEF Fixed
  <2> QED BY <1>1, <2>1, <2>2, <2>3, <2>4, BeginsFollows
<1>3. CASE FromHexT
  <2>1. /\ entry = "from_hex<T>" /\ entry \in Fixed /\ answer = "called" /\ Significant = text
        /\ entry # "from_prefixed_hex"
    BY <1>1, <1>3, SignificantTyped DEF FromHexT, Fixed
  <2>2. Removed(Significant) = IF HasPrefix(1, {x}) THEN 2 ELSE 0
    BY <1>1, <2>1, RemovedIs DEF HasPrefix
  <2>3. CASE ~HasPrefix(1, {x})
    <3>1. ~Begins0x(text, 1 - 1) /\ ScanInto(1) /\ Removed(Significant) = 1 - 1
      BY <1>3, <2>2, <2>3 DEF FromHexT, HasPrefix, Begins0x
    <3> QED BY <1>1, <2>1, <3>1, IntoFollows
  <2>4. CASE HasPrefix(1, {x})
    <3>1. 3 \in 1 .. End /\ Removed(Significant) = 3 - 1
      BY <1>1, <2>2, <2>4 DEF HasPrefix
    <3>2. CASE HasPrefix(3, {x, X})
      <4>1. Reject
        BY <1>3, <2>4, <3>2 DEF FromHexT
      <4> QED BY <2>1, <3>1, <3>2, <4>1, PrefixedTwice, RejectFollows DEF Reject
    <3>3. CASE ~HasPrefix(3, {x, X})
      <4>1. ~Begins0x(text, 3 - 1) /\ ScanInto(3)
        BY <1>1, <1>3, <2>4, <3>3 DEF FromHexT, HasPrefix, Begins0x
      <4> QED BY <2>1, <3>1, <4>1, IntoFollows
    <3> QED BY <3>2, <3>3
  <2> QED BY <2>3, <2>4
<1>4. CASE FromPrefixedHex
  <2>1. /\ entry = "from_prefixed_hex" /\ entry \in Fixed /\ answer = "called"
        /\ Significant = text
    BY <1>1, <1>4, SignificantTyped DEF FromPrefixedHex, Fixed
  <2>2. Removed(Significant) = IF text # <<>> /\ text[1] = Prefix THEN 1 ELSE 0
    BY <2>1, RemovedIs
  <2>3. CASE text = <<>>
    <3>1. ~Begins0x(text, 1 - 1) /\ ScanInto(1) /\ Removed(Significant) = 1 - 1
      BY <1>4, <2>2, <2>3 DEF FromPrefixedHex, Begins0x
    <3> QED BY <1>1, <2>1, <2>3, <3>1, IntoFollows
  <2>4. CASE text # <<>> /\ text[1] # Prefix
    <3>1. Reject /\ ~Accepted
      BY <1>4, <2>1, <2>4 DEF FromPrefixedHex, Accepted
    <3> QED BY <3>1, RejectFollows DEF Reject
  <2>5. CASE text # <<>> /\ text[1] = Prefix
    <3>1. 2 \in 1 .. End /\ Removed(Significant) = 2 - 1
      BY <1>1, <2>2, <2>5
    <3>2. CASE HasPrefix(2, {x, X})
      <4>1. Reject
        BY <1>4, <2>5, <3>2 DEF FromPrefixedHex
      <4> QED BY <2>1, <3>1, <3>2, <4>1, PrefixedTwice, RejectFollows DEF Reject
    <3>3. CASE ~HasPrefix(2, {x, X})
      <4>1. ~Begins0x(text, 2 - 1) /\ ScanInto(2)
        BY <1>1, <1>4, <2>5, <3>3 DEF FromPrefixedHex, HasPrefix, Begins0x
      <4> QED BY <2>1, <2>5, <3>1, <4>1, IntoFollows
    <3> QED BY <3>2, <3>3
  <2> QED BY <2>3, <2>4, <2>5
<1> QED BY <1>2, <1>3, <1>4 DEF Enters

LEMMA TakesFollows ==
    ASSUME Inv, Follows, NEW h, NEW o, Takes(h, o), NEW e \in {0, 2},
           Removed(Significant) = start - 1 + e,
           e = 2 <=> Begins0x(Significant, start - 1),
           e = 2 => entry \notin Fixed,
           Reads(Significant, start - 1, e, i + 1, o, h)
    PROVE  Follows'
<1>1. /\ answer = "scanning" /\ answer' = "scanning" /\ start' = start /\ entry' = entry
      /\ text' = text /\ i' = i + 1 /\ out' = o /\ hi' = h /\ ForwardFrom(base + 1)
      /\ base # End /\ TypeOK /\ End' = End
  BY DEF Inv, Takes, Scanning, NextCharacter, End
<1>2. base + 1 \in 1 .. End /\ (base + 1) - 1 = base /\ i \in Nat /\ start \in Int
  BY <1>1, TextLength DEF TypeOK
<1>3. Len(Shown(entry, text)[base]) = (start - 1 + i) + 1
  BY <1>1, ShowsNext DEF Follows
<1>4. Len(Shown(entry, text)[base' - 1]) = start' - 1 + i' /\ (base' # End => ~Skipped(base'))
  BY <1>1, <1>2, <1>3, Forwarded
<1>5. Reads(Significant, start' - 1, e, i', out', hi')
  BY <1>1
<1>6. Decodes' /\ (entry = "from_prefixed_hex" => text = <<>> \/ text[1] = Prefix)
  BY <1>1 DEF Decodes, Follows
<1> QED BY <1>1, <1>4, <1>5, <1>6, SameCall DEF Follows, Skipped

\* The next character of the loop, among the significant ones, and the part read before it.
LEMMA AtCharacter ==
    ASSUME Inv, Follows, Scanning
    PROVE  /\ start - 1 \in Nat /\ i \in Nat /\ start - 1 + i < Len(Significant)
           /\ Significant[start - 1 + i + 1] = text[base] /\ text[base] \in Char
           /\ \E e \in {0, 2} :
                /\ Removed(Significant) = start - 1 + e
                /\ e = 2 <=> Begins0x(Significant, start - 1)
                /\ e = 2 => entry \notin Fixed
                /\ Reads(Significant, start - 1, e, i, out, hi)
<1>1. answer = "scanning" /\ base # End /\ TypeOK
  BY DEF Inv, Scanning
<1>2. start - 1 \in Nat /\ i \in Nat
  BY <1>1, TextLength DEF TypeOK
<1>3. /\ start - 1 + i < Len(Significant)
      /\ Significant[start - 1 + i + 1] = text[base] /\ text[base] \in Char
  BY <1>1, ShowsNext DEF Follows
<1> QED BY <1>1, <1>2, <1>3 DEF Follows

\* One that is no digit: the x of a prefix, or the text is not accepted.
LEMMA NoDigitFollows ==
    ASSUME Inv, Follows, Scanning, Value < 0
    PROVE  /\ SkipPrefix => Follows'
           /\ InvalidDigit => Follows'
<1> DEFINE d == start - 1
           s == Significant
           c == text[base]
<1>1. d \in Nat /\ i \in Nat /\ d + i < Len(s) /\ s[d + i + 1] = c /\ c \in Char
  BY AtCharacter
<1>2. PICK e \in {0, 2} :
        /\ Removed(s) = d + e
        /\ e = 2 <=> Begins0x(s, d)
        /\ e = 2 => entry \notin Fixed
        /\ Reads(s, d, e, i, out, hi)
  BY AtCharacter
<1>3. c \notin Digits /\ c \notin 0 .. 15
  <2>1. from_hex_digit(c) < 0
    BY DEF Value
  <2>2. c \notin 0 .. 15
    BY <2>1 DEF from_hex_digit
  <2> QED BY <2>2, HexAssumption
<1>4. s \in Seq(Char)
  BY SignificantTyped DEF Inv
<1> HIDE DEF d, s, c
\* The nibble of a first character that was 0.
<1>5. i = 1 /\ hi = 0 /\ e = 0 => s[d + 1] = 0
  <2> SUFFICES ASSUME i = 1, hi = 0, e = 0 PROVE s[d + 1] = 0
    OBVIOUS
  <2>1. d + 1 \in d + e + 1 .. d + i /\ 1 % 2 = 1
    BY <1>1
  <2>2. s[d + 1] \in Digits /\ hi = 16 * s[d + 1]
    BY <1>2, <2>1 DEF Reads
  <2>3. s[d + 1] \in Int
    <3>1. \A k \in Digits : k \in 0 .. 15
      BY HexAssumption
    <3>2. s[d + 1] \in 0 .. 15
      BY <2>2, <3>1
    <3> QED BY <3>2
  <2> QED BY <2>2, <2>3
<1>6. ASSUME SkipPrefix
      PROVE  Follows'
  <2>1. i = 1 /\ hi = 0 /\ c = x /\ Takes(hi, out)
    BY <1>6 DEF SkipPrefix, Takes, c
  <2>2. e = 2
    <3> SUFFICES ASSUME e = 0 PROVE FALSE
      OBVIOUS
    <3>1. Begins0x(s, d)
      <4>1. Len(s) \in Nat /\ d + i + 1 = d + 2
        BY <1>1, <1>4, <2>1
      <4>2. Len(s) >= d + 2 /\ s[d + 1] = 0 /\ s[d + 2] = x
        BY <1>1, <1>5, <2>1, <4>1
      <4> QED BY <4>2 DEF Begins0x
    <3> QED BY <1>2, <3>1
  <2>3. Reads(s, d, e, i + 1, out, hi)
    <3>1. out = <<>> \/ Len(out) = 0
      BY <1>2, <2>1, <2>2 DEF Reads
    <3>2. Len(out) = 0
      BY <3>1
    <3>3. d + e + 1 .. d + (i + 1) = {} /\ 1 .. 0 = {} /\ (i + 1) % 2 # 1 /\ i + 1 <= e
      BY <1>1, <2>1, <2>2
    <3> QED BY <3>2, <3>3 DEF Reads
  <2> QED BY <1>2, <2>1, <2>3, TakesFollows DEF d, s
<1>7. ASSUME InvalidDigit
      PROVE  Follows'
  <2>1. ~(i = 1 /\ hi = 0 /\ c = x) /\ Reject
    BY <1>7 DEF InvalidDigit, c
  <2>2. i >= e
    <3> SUFFICES ASSUME e = 2, i < e PROVE FALSE
      BY <1>1
    <3>1. Len(s) >= d + 2 /\ s[d + 1] = 0 /\ s[d + 2] = x
      BY <1>2 DEF Begins0x
    <3>2. CASE i = 0
      BY <1>1, <1>3, <3>1, <3>2
    <3>3. CASE i = 1
      <4>1. c = x
        BY <1>1, <3>1, <3>3
      <4>2. hi = 16 * s[d + 1]
        BY <1>2, <3>3 DEF Reads
      <4> QED BY <2>1, <3>1, <3>3, <4>1, <4>2
    <3> QED BY <1>1, <3>2, <3>3
  <2>3. ~Accepted
    <3> DEFINE k == i - e + 1
    <3>1. Len(Body) = Len(s) - (d + e) /\ \A m \in 1 .. Len(Body) : Body[m] = s[d + e + m]
      BY <1>2, BodyIs DEF Inv, s
    <3>2. Len(s) \in Nat
      BY <1>4
    <3>3. k \in 1 .. Len(Body) /\ d + e + k = d + i + 1
      BY <1>1, <2>2, <3>1, <3>2
    <3> HIDE DEF k
    <3>4. Body[k] \notin Digits
      BY <1>1, <1>3, <3>1, <3>3
    <3> QED BY <3>3, <3>4 DEF Accepted
  <2> QED BY <2>1, <2>3, RejectFollows DEF Reject
<1> QED BY <1>6, <1>7

LEMMA NibbleFollows ==
    ASSUME Inv, Follows, HighNibble \/ LowNibble
    PROVE  Follows'
<1> DEFINE d == start - 1
           s == Significant
           c == text[base]
<1>1. Scanning /\ Value >= 0
  BY DEF HighNibble, LowNibble
<1>2. d \in Nat /\ i \in Nat /\ d + i < Len(s) /\ s[d + i + 1] = c /\ c \in Char
  BY <1>1, AtCharacter
<1>3. PICK e \in {0, 2} :
        /\ Removed(s) = d + e
        /\ e = 2 <=> Begins0x(s, d)
        /\ e = 2 => entry \notin Fixed
        /\ Reads(s, d, e, i, out, hi)
  BY <1>1, AtCharacter
<1>4. c \in Digits /\ c \in 0 .. 15 /\ Value = c
  BY <1>1, <1>2, DigitOrOther DEF Value
<1>5. hi \in Int /\ out \in Seq(0 .. 255)
  BY DEF Inv, TypeOK
<1> HIDE DEF d, s, c
<1>6. CASE HighNibble
  <2>1. i % 2 = 0 /\ Takes(c * 16, out)
    BY <1>4, <1>6 DEF HighNibble, Takes
  <2>2. c * 16 = 16 * c
    BY <1>4
  <2>3. Reads(s, d, e, i + 1, out, 16 * c)
    BY <1>2, <1>3, <1>4, <2>1, ReadsHigh
  <2> QED BY <1>3, <2>1, <2>2, <2>3, TakesFollows DEF d, s
<1>7. CASE LowNibble
  <2>1. i % 2 = 1 /\ Takes(hi, Append(out, hi + c))
    BY <1>4, <1>7 DEF LowNibble, Takes
  \* The second character of a prefix is no digit.
  <2>2. i > e
    <3> SUFFICES ASSUME e = 2, i = 1 PROVE FALSE
      BY <1>2, <2>1
    <3>1. s[d + 2] = x /\ d + i + 1 = d + 2
      BY <1>2, <1>3 DEF Begins0x
    <3>2. c = x
      BY <1>2, <3>1
    <3> QED BY <1>2, <1>4, <3>2, DigitOrOther
  <2>3. hi + c \in 0 .. 255
    <3>1. hi \in -1 .. 240 /\ hi >= 0
      BY <2>1 DEF Inv, TypeOK, Paced
    <3> QED BY <1>4, <3>1
  <2>4. Reads(s, d, e, i + 1, Append(out, hi + c), hi)
    <3>1. /\ Reads(s, d, e, i, out, hi) /\ i % 2 = 1 /\ i > e /\ s[d + i + 1] \in Digits
          /\ d \in Nat /\ i \in Nat
      BY <1>2, <1>3, <1>4, <2>1, <2>2
    <3> PICK a : a = Append(out, hi + c)
      OBVIOUS
    <3>2. /\ Len(a) = Len(out) + 1 /\ a[Len(out) + 1] = hi + c
          /\ \A k \in 1 .. Len(out) : a[k] = out[k]
      BY <1>5, <2>3
    <3>3. a[Len(out) + 1] = hi + s[d + i + 1]
      BY <1>2, <3>2
    <3>4. Reads(s, d, e, i + 1, a, hi)
      BY <3>1, <3>2, <3>3, ReadsLow
    <3> QED BY <3>4
  <2> QED BY <1>3, <2>1, <2>4, TakesFollows DEF d, s
<1> QED BY <1>6, <1>7

\* Two digits make the byte, which encodes to them.
LEMMA NibblesOf ==
    ASSUME NEW a \in 0 .. 15, NEW b \in 0 .. 15
    PROVE  (16 * a + b) \div 16 = a /\ (16 * a + b) % 16 = b
OBVIOUS

\* Half of a number, and of one less by two.
LEMMA HalfOf ==
    ASSUME NEW n \in Nat, NEW e \in {0, 2}, n >= e
    PROVE  /\ (n - e) \div 2 \in Nat
           /\ n % 2 = 0 => 2 * ((n - e) \div 2) = n - e /\ (n - e) % 2 = 0
           /\ n % 2 # 0 => (n - e) % 2 # 0
<1>1. CASE e = 0
  BY <1>1
<1>2. CASE e = 2
  <2>1. n - 2 \in Nat /\ n - e = n - 2
    BY <1>2
  <2>2. /\ (n - 2) \div 2 \in Nat
        /\ n % 2 = 0 => 2 * ((n - 2) \div 2) = n - 2 /\ (n - 2) % 2 = 0
        /\ n % 2 # 0 => (n - 2) % 2 # 0
    BY <2>1
  <2> QED BY <2>1, <2>2
<1> QED BY <1>1, <1>2

LEMMA HalfUp ==
    ASSUME NEW n \in Nat, n % 2 = 1
    PROVE  (n + 1) \div 2 \in Int /\ 2 * ((n + 1) \div 2) = n + 1
OBVIOUS

LEMMA EncodingGivesBack ==
    ASSUME NEW s \in Seq(0 .. 15), NEW o, NEW m \in Nat, Len(s) = 2 * m, Len(o) = m,
           \A k \in 1 .. m : o[k] = 16 * s[2 * k - 1] + s[2 * k]
    PROVE  hex(o) = s
<1> DEFINE at(k) == IF k % 2 = 1 THEN o[(k + 1) \div 2] \div 16 ELSE o[k \div 2] % 16
<1>1. \A k \in 1 .. Len(s) : s[k] \in 0 .. 15
  OBVIOUS
<1>2. ASSUME NEW k \in 1 .. Len(s)
      PROVE  at(k) = s[k]
  <2>1. CASE k % 2 = 1
    <3> DEFINE j == (k + 1) \div 2
    <3>1. j \in 1 .. m /\ 2 * j - 1 = k /\ 2 * j \in 1 .. Len(s) /\ 2 * j - 1 \in 1 .. Len(s)
      <4> HIDE DEF at
      <4>1. k \in Nat /\ k >= 1 /\ k <= 2 * m
        OBVIOUS
      <4>2. j \in Int /\ 2 * j = k + 1
        BY <2>1, <4>1, HalfUp
      <4> HIDE DEF j
      <4> QED BY <4>1, <4>2
    <3>2. at(k) = o[j] \div 16
      BY <2>1
    <3> HIDE DEF j, at
    <3>3. o[j] = 16 * s[2 * j - 1] + s[2 * j]
      BY <3>1
    <3>4. o[j] \div 16 = s[2 * j - 1]
      <4>1. s[2 * j - 1] \in 0 .. 15 /\ s[2 * j] \in 0 .. 15
        BY <1>1, <3>1
      <4> PICK a \in 0 .. 15, b \in 0 .. 15 : a = s[2 * j - 1] /\ b = s[2 * j]
        BY <4>1
      <4>2. o[j] = 16 * a + b
        BY <3>3
      <4> PICK n \in Int : n = 16 * a + b
        OBVIOUS
      <4>3. n \div 16 = a
        BY NibblesOf
      <4>4. n = o[j]
        BY <4>2
      <4> QED BY <4>3, <4>4
    <3> QED BY <3>1, <3>2, <3>4
  <2>2. CASE k % 2 # 1
    <3> DEFINE j == k \div 2
    <3>1. j \in 1 .. m /\ 2 * j = k /\ 2 * j \in 1 .. Len(s) /\ 2 * j - 1 \in 1 .. Len(s)
      BY <2>2
    <3>2. at(k) = o[j] % 16
      BY <2>2
    <3> HIDE DEF j, at
    <3>3. o[j] = 16 * s[2 * j - 1] + s[2 * j]
      BY <3>1
    <3>4. o[j] % 16 = s[2 * j]
      <4>1. s[2 * j - 1] \in 0 .. 15 /\ s[2 * j] \in 0 .. 15
        BY <1>1, <3>1
      <4> PICK a \in 0 .. 15, b \in 0 .. 15 : a = s[2 * j - 1] /\ b = s[2 * j]
        BY <4>1
      <4>2. o[j] = 16 * a + b
        BY <3>3
      <4> PICK n \in Int : n = 16 * a + b
        OBVIOUS
      <4>3. n % 16 = b
        BY NibblesOf
      <4>4. n = o[j]
        BY <4>2
      <4> QED BY <4>3, <4>4
    <3> QED BY <3>1, <3>2, <3>4
  <2> QED BY <2>1, <2>2
<1>3. hex(o) = [k \in 1 .. Len(s) |-> at(k)]
  BY DEF hex
<1> HIDE DEF at
<1>4. s = [k \in 1 .. Len(s) |-> s[k]]
  OBVIOUS
<1> QED BY <1>2, <1>3, <1>4

\* At the end of the text, an even number of characters make it accepted, as what was read.
LEMMA FinishFollows ==
    ASSUME Inv, Follows, Finish
    PROVE  Follows'
<1> DEFINE d == start - 1
           s == Significant
<1>1. /\ answer = "scanning" /\ base = End /\ TypeOK /\ d \in Nat /\ i \in Nat
      /\ out \in Seq(0 .. 255) /\ s \in Seq(Char)
  BY TextLength, SignificantTyped DEF Inv, Finish, TypeOK
<1>2. d + i = Len(s)
  BY <1>1, ShowsNext DEF Follows
<1>3. PICK e \in {0, 2} :
        /\ Removed(s) = d + e
        /\ e = 2 <=> Begins0x(s, d)
        /\ e = 2 => entry \notin Fixed
        /\ Reads(s, d, e, i, out, hi)
  BY <1>1 DEF Follows
<1>4. entry \in Fixed => s = text /\ Len(s) + 1 = End /\ (End - start) \div 2 = Size - offset
  <2>1. entry \in Fixed => entry # "from_spaced_hex"
    BY DEF Fixed
  <2>2. Len(text) + 1 = End
    BY DEF End
  <2> QED BY <1>1, <2>1, <2>2, SignificantTyped DEF Inv, Positioned
<1>5. entry = "from_prefixed_hex" => text = <<>> \/ text[1] = Prefix
  BY <1>1 DEF Follows
<1>6. i >= e
  <2>1. e = 2 => Len(s) >= d + 2
    BY <1>3 DEF Begins0x
  <2> QED BY <1>1, <1>2, <2>1
<1>7. /\ Body \in Seq(Char) /\ Len(Body) = i - e
      /\ \A k \in 1 .. Len(Body) : Body[k] = s[d + e + k]
  BY <1>1, <1>2, <1>3, BodyIs
<1>8. /\ entry' = entry /\ text' = text /\ offset' = offset /\ out' = out
      /\ answer' = IF i % 2 = 0 THEN "valid" ELSE "invalid"
  BY DEF Finish
<1> HIDE DEF d, s
<1>9. CASE i % 2 # 0
  <2>1. Len(Body) % 2 # 0
    BY <1>1, <1>6, <1>7, <1>9, HalfOf
  <2> QED BY <1>8, <1>9, <2>1, RejectFollows DEF Accepted
<1>10. CASE i % 2 = 0
  <2> DEFINE m == (i - e) \div 2
  <2>1. m \in Nat /\ 2 * m = Len(Body) /\ Len(Body) \div 2 = m /\ Len(Body) % 2 = 0
    <3>1. m \in Nat /\ 2 * m = i - e /\ (i - e) % 2 = 0
      BY <1>1, <1>6, <1>10, HalfOf
    <3> QED BY <1>7, <3>1
  <2>2. Len(out) = m
    <3>1. i <= e => m = 0
      BY <1>1, <1>6
    <3> QED BY <1>3, <3>1 DEF Reads
  <2> HIDE DEF m
  <2>3. \A k \in 1 .. Len(Body) : Body[k] \in Digits
    <3> SUFFICES ASSUME NEW k \in 1 .. Len(Body) PROVE Body[k] \in Digits
      OBVIOUS
    <3>1. d + e + k \in d + e + 1 .. d + i
      BY <1>1, <1>7
    <3> QED BY <1>3, <1>7, <3>1 DEF Reads
  <2>4. \A k \in 1 .. m : out[k] = 16 * Body[2 * k - 1] + Body[2 * k]
    <3> SUFFICES ASSUME NEW k \in 1 .. m PROVE out[k] = 16 * Body[2 * k - 1] + Body[2 * k]
      OBVIOUS
    <3>1. out[k] = 16 * s[d + e + 2 * k - 1] + s[d + e + 2 * k]
      BY <1>3, <2>2 DEF Reads
    <3>2. /\ 2 * k - 1 \in 1 .. Len(Body) /\ 2 * k \in 1 .. Len(Body)
          /\ d + e + (2 * k - 1) = d + e + 2 * k - 1
      BY <1>1, <2>1
    <3>3. Body[2 * k - 1] = s[d + e + 2 * k - 1] /\ Body[2 * k] = s[d + e + 2 * k]
      BY <1>7, <3>2
    <3> QED BY <3>1, <3>3
  <2>5. out = Meaning
    <3>1. Meaning = [k \in 1 .. m |-> 16 * Body[2 * k - 1] + Body[2 * k]]
      BY <2>1 DEF Meaning
    <3>2. out = [k \in 1 .. m |-> out[k]]
      BY <1>1, <2>2
    <3> QED BY <2>4, <3>1, <3>2
  <2>6. hex(out) = Body
    <3>1. \A k \in 1 .. Len(Body) : Body[k] \in 0 .. 15
      BY <2>3, HexAssumption
    <3>2. Body \in Seq(0 .. 15)
      BY <1>7, <3>1
    <3> QED BY <2>1, <2>2, <2>4, <3>2, EncodingGivesBack
  \* In an array, as many bytes as were left for them.
  <2>7. entry \in Fixed => Len(Body) <= 2 * Size /\ offset + Len(out) = Size
    <3> SUFFICES ASSUME entry \in Fixed
                 PROVE  Len(Body) <= 2 * Size /\ offset + Len(out) = Size
      OBVIOUS
    <3>1. e = 0 /\ offset \in Nat /\ Size \in Nat /\ start \in Int /\ Len(s) \in Nat
      BY <1>1, <1>3, TextLength, HexAssumption DEF TypeOK
    <3>2. End - start = i
      BY <1>1, <1>2, <1>4, <3>1 DEF d
    <3>3. Len(Body) = i /\ m = Size - offset
      BY <1>1, <1>4, <1>7, <3>1, <3>2 DEF m
    <3> QED BY <2>1, <2>2, <3>1, <3>3
  <2>8. Accepted
    BY <1>5, <2>1, <2>3, <2>7 DEF Accepted
  <2> QED BY <1>8, <1>10, <2>5, <2>6, <2>7, <2>8, SameCall DEF Follows, Decodes
<1> QED BY <1>9, <1>10

LEMMA FollowsKept ==
    ASSUME Inv, Follows, [Next]_vars
    PROVE  Follows'
<1>1. CASE SkipPrefix \/ InvalidDigit
  <2>1. Scanning /\ Value < 0
    BY <1>1 DEF SkipPrefix, InvalidDigit
  <2> QED BY <1>1, <2>1, NoDigitFollows
<1>2. CASE UNCHANGED vars
  <2>1. /\ entry' = entry /\ text' = text /\ start' = start /\ base' = base /\ i' = i
        /\ hi' = hi /\ offset' = offset /\ out' = out /\ answer' = answer
    BY <1>2 DEF vars
  <2> QED BY <2>1, SameCall DEF Follows, Decodes, Skipped
<1> QED BY <1>1, <1>2, EntersFollows, NibbleFollows, FinishFollows DEF Next

\* A text is decoded exactly when it is accepted as a whole, however long it is, to the bytes
\* its digits mean, which encode to them again; in an array they are the last ones.
THEOREM AlwaysDecodes == Spec => []Decodes
<1>1. Init => Follows
  BY DEF Init, Follows, Decodes
<1>2. Inv /\ Follows /\ [Next]_vars => Follows'
  BY FollowsKept
<1>3. Follows => Decodes
  BY DEF Follows
<1> QED BY <1>1, <1>2, <1>3, HexInvariant, PTL DEF Spec
=============================================================================

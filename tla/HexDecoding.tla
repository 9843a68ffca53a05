---------------------------- MODULE HexDecoding ----------------------------
(***************************************************************************)
(* include/qrvmc/hex.hpp and filter_iterator.hpp: decoding of hex text, one *)
(* character at a time as from_hex() reads it, through each of the          *)
(* functions that call it: on a string, through the iterator that skips     *)
(* whitespace, into nothing to validate, and into an array of fixed size    *)
(* with an optional 0x or with a prefix of the caller's; and encoding.      *)
(*                                                                          *)
(* A hex digit is its value; upper and lower case are the same digit.       *)
(***************************************************************************)
EXTENDS Integers, Sequences

CONSTANTS
    Digits,         \* the hex digits that occur
    x, X,           \* the letters of the prefixes 0x and 0X
    Space,          \* any character isspace() accepts
    Prefix,         \* the prefix of from_prefixed_hex, here one character
    MaxLength,      \* bound: characters of a text
    Size            \* the bytes of the type T to decode into

Others == {x, X, Space, Prefix}
Char == Digits \cup Others

ASSUME HexAssumption ==
    /\ Digits \subseteq 0 .. 15
    /\ Others \cap (0 .. 15) = {}
    /\ Space \notin {x, X, Prefix} /\ x # X /\ Prefix \notin {x, X}
    /\ MaxLength \in Nat /\ Size \in Nat

Entries == {"from_hex", "validate_hex", "from_spaced_hex", "from_hex<T>", "from_prefixed_hex"}
Fixed == {"from_hex<T>", "from_prefixed_hex"}

VARIABLES
    entry,   \* the function that was called
    text,    \* its argument
    start,   \* where from_hex() begins: what is before was removed as prefix
    base,    \* the position of the (underlying) iterator
    i,       \* characters from_hex() has consumed
    hi,      \* hi_nibble
    offset,  \* the index in T's array the first byte goes to
    out,     \* the bytes written, those into the sink of validate_hex() too
    answer   \* "called", "scanning", then "valid" or "invalid"

vars == <<entry, text, start, base, i, hi, offset, out, answer>>

----------------------------------------------------------------------------
from_hex_digit(h) == IF h \in 0 .. 15 THEN h ELSE -1
IsSpace(h) == h = Space

\* Mutant of hex: the low nibble comes first.
HexSwapped(bs) ==
    [k \in 1 .. 2 * Len(bs) |-> IF k % 2 = 1 THEN bs[(k + 1) \div 2] % 16 ELSE bs[k \div 2] \div 16]

\* Encoding: two digits for each byte.
hex(bs) ==
    [k \in 1 .. 2 * Len(bs) |-> IF k % 2 = 1 THEN bs[(k + 1) \div 2] \div 16 ELSE bs[k \div 2] % 16]

End == Len(text) + 1

\* The iterator goes on to position p or, if it skips spaces, to the next character after them.
ForwardFrom(p) ==
    IF entry = "from_spaced_hex"
    THEN /\ base' \in p .. End
         /\ \A k \in p .. base' - 1 : IsSpace(text[k])
         /\ base' # End => ~IsSpace(text[base'])
    ELSE base' = p

\* The text begins with 0 and one of these letters, from position p on.
HasPrefix(p, letters) == p + 1 <= Len(text) /\ text[p] = 0 /\ text[p + 1] \in letters

Reject ==
    /\ answer' = "invalid"
    /\ UNCHANGED <<entry, text, start, base, i, hi, offset, out>>

\* from_hex() begins at position p.
Scan(p, place) ==
    /\ answer' = "scanning" /\ start' = p /\ offset' = place
    /\ ForwardFrom(p)
    /\ UNCHANGED <<entry, text, i, hi, out>>

\* Mutant of ScanInto: the length is not checked against the array.
ScanIntoAny(p) == Scan(p, Size - (End - p) \div 2)

\* The bytes of the text from p on go to the end of the array, if they fit.
ScanInto(p) ==
    LET num_in_bytes == (End - p) \div 2
    IN  IF num_in_bytes > Size THEN Reject ELSE Scan(p, Size - num_in_bytes)

----------------------------------------------------------------------------
FromHex == answer = "called" /\ entry = "from_hex" /\ Scan(1, 0)
ValidateHex == answer = "called" /\ entry = "validate_hex" /\ Scan(1, 0)
FromSpacedHex == answer = "called" /\ entry = "from_spaced_hex" /\ Scan(1, 0)

\* Mutant of FromHexT: a second prefix is left to from_hex().
FromHexTTwice ==
    /\ answer = "called" /\ entry = "from_hex<T>"
    /\ ScanInto(IF HasPrefix(1, {x}) THEN 3 ELSE 1)

FromHexT ==
    /\ answer = "called" /\ entry = "from_hex<T>"
    /\ \/ ~HasPrefix(1, {x}) /\ ScanInto(1)
       \/ HasPrefix(1, {x}) /\ HasPrefix(3, {x, X}) /\ Reject
       \/ HasPrefix(1, {x}) /\ ~HasPrefix(3, {x, X}) /\ ScanInto(3)

FromPrefixedHex ==
    /\ answer = "called" /\ entry = "from_prefixed_hex"
    /\ \/ text = <<>> /\ ScanInto(1)
       \/ text # <<>> /\ text[1] # Prefix /\ Reject
       \/ text # <<>> /\ text[1] = Prefix /\ HasPrefix(2, {x, X}) /\ Reject
       \/ text # <<>> /\ text[1] = Prefix /\ ~HasPrefix(2, {x, X}) /\ ScanInto(2)

----------------------------------------------------------------------------
\* The loop of from_hex(), on the character the iterator has read.
Scanning == answer = "scanning" /\ base # End
Value == from_hex_digit(text[base])
NextCharacter == i' = i + 1 /\ ForwardFrom(base + 1)

SkipPrefix ==
    /\ Scanning /\ Value < 0
    /\ i = 1 /\ hi = 0 /\ text[base] = x
    /\ NextCharacter
    /\ UNCHANGED <<entry, text, start, hi, offset, out, answer>>

InvalidDigit ==
    /\ Scanning /\ Value < 0
    /\ ~(i = 1 /\ hi = 0 /\ text[base] = x)
    /\ Reject

HighNibble ==
    /\ Scanning /\ Value >= 0 /\ i % 2 = 0
    /\ hi' = Value * 16
    /\ NextCharacter
    /\ UNCHANGED <<entry, text, start, offset, out, answer>>

LowNibble ==
    /\ Scanning /\ Value >= 0 /\ i % 2 = 1
    /\ out' = Append(out, hi + Value)
    /\ NextCharacter
    /\ UNCHANGED <<entry, text, start, hi, offset, answer>>

Finish ==
    /\ answer = "scanning" /\ base = End
    /\ answer' = IF i % 2 = 0 THEN "valid" ELSE "invalid"
    /\ UNCHANGED <<entry, text, start, base, i, hi, offset, out>>

----------------------------------------------------------------------------
Texts == UNION {[1 .. n -> Char] : n \in 0 .. MaxLength}

Init ==
    /\ entry \in Entries /\ text \in Texts
    /\ start = 1 /\ base = 1 /\ i = 0 /\ hi = -1 /\ offset = 0 /\ out = <<>>
    /\ answer = "called"

Enters == FromHex \/ ValidateHex \/ FromSpacedHex \/ FromHexT \/ FromPrefixedHex

Next == \/ Enters
        \/ SkipPrefix \/ InvalidDigit \/ HighNibble \/ LowNibble \/ Finish

Spec == Init /\ [][Next]_vars

----------------------------------------------------------------------------
\* The types; a byte is always put together from a nibble that was set.
TypeOK ==
    /\ entry \in Entries /\ text \in Seq(Char)
    /\ start \in 1 .. End /\ base \in start .. End
    /\ i \in Nat /\ hi \in -1 .. 240 /\ offset \in Nat
    /\ out \in Seq(0 .. 255)
    /\ answer \in {"called", "scanning", "valid", "invalid"}

\* "It is guaranteed that the output will not be longer than half of the input length":
\* callers reserve as much, or compute the place of the first byte from it.
HalfAsLong == 2 * Len(out) <= Len(text)

\* Decoding into an array writes only to the array, also when it fails halfway.
WritesInBounds == entry \in Fixed => offset >= 0 /\ offset + Len(out) <= Size

\* What each function accepts, as a whole: an even number of digits after what it allows
\* before them.
Skipped(p) == entry = "from_spaced_hex" /\ IsSpace(text[p])
Significant ==
    LET first[n \in 0 .. Len(text)] ==
          IF n = 0 THEN <<>>
          ELSE IF Skipped(n) THEN first[n - 1] ELSE Append(first[n - 1], text[n])
    IN  first[Len(text)]
Removed(s) ==
    CASE entry = "from_prefixed_hex" -> IF s # <<>> /\ s[1] = Prefix THEN 1 ELSE 0
      [] OTHER -> IF Len(s) >= 2 /\ s[1] = 0 /\ s[2] = x THEN 2 ELSE 0
Body == SubSeq(Significant, Removed(Significant) + 1, Len(Significant))
Accepted ==
    /\ \A k \in 1 .. Len(Body) : Body[k] \in Digits
    /\ Len(Body) % 2 = 0
    /\ entry \in Fixed => Len(Body) <= 2 * Size
    /\ entry = "from_prefixed_hex" => text = <<>> \/ text[1] = Prefix
Meaning == [k \in 1 .. Len(Body) \div 2 |-> 16 * Body[2 * k - 1] + Body[2 * k]]

\* The whole text decides: exactly the accepted texts are decoded, to the bytes their digits
\* mean, and in an array these are the last ones, however the scan found them.  Encoding the
\* bytes gives the digits back, and validate_hex() accepts what from_hex() decodes.
Decodes ==
    /\ answer = "valid" =>
         /\ Accepted /\ out = Meaning /\ hex(out) = Body
         /\ entry \in Fixed => offset + Len(out) = Size
    /\ answer = "invalid" => ~Accepted
=============================================================================

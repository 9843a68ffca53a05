-------------------------- MODULE MCExampleProgram -------------------------
(***************************************************************************)
(* Small instances of ExampleProgram: values of two words of two bits.  Two *)
(* addresses that differ in the last word only, and two keys.               *)
(***************************************************************************)
EXTENDS ExampleProgram

Low == <<0, 0, 0, 1>>
High == <<0, 1, 0, 1>>

TwoAddresses == {Low, <<0, 0, 1, 1>>}
TwoKeys == {ZeroBytes, Low}
TwoValues == {ZeroBytes, High}

CopyRequests == {[offset |-> 0, size |-> 1, null |-> FALSE]}

\* An internal error, one that no header defines, a success and a failure.
Statuses == {-256, -1, 0, 2}
Errors == 1 .. 7
=============================================================================

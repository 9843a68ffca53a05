---------------------------- MODULE MCBoundHost -----------------------------
(***************************************************************************)
(* Small instances of BoundHost:  a user account "a" that exists or not,    *)
(* perhaps a second one "b", and a precompile "p".  The gas constants are   *)
(* those of EIP-2929 in hundreds.                                           *)
(***************************************************************************)
EXTENDS BoundHost

Fresh == [balance |-> 1, codesize |-> 2, codehash |-> 1]
AccountWith(storage) ==
    [balance |-> 1, codesize |-> 2, codehash |-> 1, storage |-> storage]
Item(current, original, access) ==
    [current |-> current, original |-> original, access |-> access]

\* No account at all, or "a" with its slot clean, or set and warm, or cleared, before.
Setups ==
    {[a \in {} |-> 0]}
    \cup {[a \in {"a"} |-> AccountWith([k \in {"k"} |-> item])] :
            item \in {Item(1, 1, "COLD"), Item(2, 0, "WARM"), Item(0, 1, "COLD")}}

OneAccountSetups == {[a \in {"a"} |-> AccountWith([k \in {} |-> 0])]}

CopyRequests == {[offset |-> 1, size |-> 3, null |-> FALSE], [offset |-> 0, size |-> 1, null |-> TRUE]}

\* No topics, one, and one too many; and a null array with a count.
LogTopics == {[null |-> FALSE, list |-> <<>>], [null |-> FALSE, list |-> <<1>>],
              [null |-> FALSE, list |-> <<1, 2, 3, 4, 5>>], [null |-> TRUE, list |-> <<1>>]}
=============================================================================

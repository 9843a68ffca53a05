--------------------------- MODULE PrecompilesVM ---------------------------
(***************************************************************************)
(* examples/example_precompiles_vm: a VM that executes no code but the      *)
(* contracts at the reserved addresses, of which it has the identity.  It   *)
(* computes gas in int64_t from an input size that is a size_t, which is    *)
(* wider; both widths are constants here.                                   *)
(***************************************************************************)
EXTENDS Integers

CONSTANTS
    MaxGas,        \* the largest int64_t
    MaxSize,       \* the largest size_t
    BaseGas,       \* identity_base_gas
    WordGas,       \* identity_word_gas
    WordSize,      \* word_size
    Gases, Sizes   \* the gas and the input sizes of messages

ASSUME PrecompilesAssumption ==
    /\ MaxGas \in Nat /\ MaxSize \in Nat
    /\ BaseGas \in 0 .. MaxGas /\ WordGas \in Nat \ {0} /\ WordSize \in Nat \ {0}
    /\ Gases \subseteq 0 .. MaxGas /\ Sizes \subseteq 0 .. MaxSize

\* What a code address is: the identity (4), one of 1, 2 and 5, another of the reserved
\* range of two bytes, or outside of it.
AddressKind == {"identity", "unimplemented", "unused", "outside"}
Message == [address : AddressKind, gas : Gases, input_size : Sizes]

VARIABLES
    phase,   \* "idle", "running" or "answered"
    msg,     \* the message that is executed
    result   \* the answer

vars == <<phase, msg, result>>

NoResult == [status |-> "none", gas_left |-> 0, output_size |-> 0]

----------------------------------------------------------------------------
\* A number as int64_t holds it.
Int64(n) == ((n + MaxGas + 1) % (2 * (MaxGas + 1))) - (MaxGas + 1)

max_input_words == (MaxGas - BaseGas) \div WordGas
input_words ==
    (msg.input_size \div WordSize) + (IF msg.input_size % WordSize # 0 THEN 1 ELSE 0)
gas_cost == Int64(BaseGas + Int64(WordGas * Int64(input_words)))

Answer(status, gas_left, output_size) ==
    /\ phase = "running" /\ phase' = "answered"
    /\ result' = [status |-> status, gas_left |-> gas_left, output_size |-> output_size]
    /\ UNCHANGED msg

\* qrvmc_make_result() copies the output, for which there may be no memory.
MakeResult(status, gas_left, size) ==
    \/ Answer(status, gas_left, size)
    \/ size # 0 /\ Answer("OUT_OF_MEMORY", 0, 0)

Outside == msg.address = "outside" /\ Answer("REJECTED", 0, 0)

\* Mutant of NotImplemented: the gas is handed back.
NotImplementedKeepsGas == msg.address = "unimplemented" /\ Answer("REJECTED", msg.gas, 0)

NotImplemented == msg.address = "unimplemented" /\ Answer("REJECTED", 0, 0)

\* As if empty code was executed.
ExecuteEmpty == msg.address = "unused" /\ Answer("SUCCESS", msg.gas, 0)

\* Mutant of TooLong: the base gas is forgotten in the bound.
TooLongWithoutBase == input_words > MaxGas \div WordGas

\* The cost would not fit an int64_t.
TooLong == input_words > max_input_words

IdentityTooLong ==
    /\ msg.address = "identity" /\ TooLong
    /\ Answer("OUT_OF_GAS", 0, 0)

IdentityOutOfGas ==
    /\ msg.address = "identity" /\ ~TooLong /\ msg.gas < gas_cost
    /\ Answer("OUT_OF_GAS", 0, 0)

Identity ==
    /\ msg.address = "identity" /\ ~TooLong /\ msg.gas >= gas_cost
    /\ MakeResult("SUCCESS", msg.gas - gas_cost, msg.input_size)

----------------------------------------------------------------------------
\* The host calls and takes the result.
Invoke ==
    /\ phase = "idle" /\ phase' = "running"
    /\ msg' \in Message
    /\ UNCHANGED result

Take ==
    /\ phase = "answered" /\ phase' = "idle"
    /\ result' = NoResult
    /\ UNCHANGED msg

Init == phase = "idle" /\ msg \in Message /\ result = NoResult

Execute == \/ Outside \/ NotImplemented \/ ExecuteEmpty
           \/ IdentityTooLong \/ IdentityOutOfGas \/ Identity

Next == Invoke \/ Execute \/ Take

Spec == Init /\ [][Next]_vars

----------------------------------------------------------------------------
\* The cost of the identity as numbers have it, of any size: every word begun counts.
WordsBegun(w) == w * WordSize >= msg.input_size /\ (w - 1) * WordSize < msg.input_size

\* The identity costs what it should, although all is computed in int64_t: an input too long
\* to be paid is never cheap, and with enough gas the execution does not fail for gas.
PaysExactly ==
    phase = "answered" /\ msg.address = "identity" =>
      \A w \in 0 .. MaxSize : WordsBegun(w) =>
        LET cost == BaseGas + WordGas * w
        IN  /\ result.status = "OUT_OF_GAS" <=> msg.gas < cost
            /\ result.status = "SUCCESS" =>
                 result.gas_left = msg.gas - cost /\ result.output_size = msg.input_size

\* What the host sees is a metered execution: see Metered.
Contract == INSTANCE Metered WITH
    phase <- phase,
    budget <- (IF phase = "running" THEN msg.gas ELSE 0),
    left <- result.gas_left,
    completed <- result.status = "SUCCESS"
ImplementsMetered == Contract!Spec
=============================================================================

------------------------- MODULE InstructionTables -------------------------
(***************************************************************************)
(* The instruction tables of lib/instructions: the enumeration qrvmc_opcode *)
(* gives a number to every instruction, and two arrays of 256 rows, which   *)
(* only the position of a row ties to an opcode, give its name and its      *)
(* metrics.  An instruction is a mnemonic and a number: <<"PUSH", 3>> is    *)
(* PUSH3, and 0 is the number of those that have none.                      *)
(***************************************************************************)
EXTENDS Integers, Sequences

NoName == <<"NULL", 0>>
NoTable == <<>>
Byte == 0 .. 255

Plain(words) == [i \in DOMAIN words |-> <<words[i], 0>>]
Numbered(word, first, last) == [i \in 1 .. last - first + 1 |-> <<word, first + i - 1>>]
Times(n, row) == [i \in 1 .. n |-> row]

----------------------------------------------------------------------------
\* enum qrvmc_opcode: each enumerator has its number written out; the instructions of a run
\* are listed from the number of the first one.
At(first, instructions) == {<<instructions[i], first + i - 1>> : i \in DOMAIN instructions}

WordOpcodes ==
    At(\h00, Plain(<<"STOP", "ADD", "MUL", "SUB", "DIV", "SDIV", "MOD", "SMOD", "ADDMOD", "MULMOD",
                     "EXP", "SIGNEXTEND">>))
    \cup At(\h10, Plain(<<"LT", "GT", "SLT", "SGT", "EQ", "ISZERO", "AND", "OR", "XOR", "NOT",
                          "BYTE", "SHL", "SHR", "SAR">>))
    \cup At(\h20, Plain(<<"KECCAK256">>))

StateOpcodes ==
    At(\h30, Plain(<<"ADDRESS", "BALANCE", "ORIGIN", "CALLER", "CALLVALUE", "CALLDATALOAD",
                     "CALLDATASIZE", "CALLDATACOPY", "CODESIZE", "CODECOPY", "GASPRICE",
                     "EXTCODESIZE", "EXTCODECOPY", "RETURNDATASIZE", "RETURNDATACOPY",
                     "EXTCODEHASH", "BLOCKHASH", "COINBASE", "TIMESTAMP", "NUMBER",
                     "PREVRANDAO", "GASLIMIT", "CHAINID", "SELFBALANCE", "BASEFEE">>))
    \cup At(\h50, Plain(<<"POP", "MLOAD", "MSTORE", "MSTORE8", "SLOAD", "SSTORE", "JUMP", "JUMPI",
                          "PC", "MSIZE", "GAS", "JUMPDEST">>))

StackOpcodes == At(\h5f, Numbered("PUSH", 0, 64)) \cup At(\ha0, Numbered("DUP", 1, 16))
                  \cup At(\hb0, Numbered("SWAP", 1, 16))

SystemOpcodes ==
    At(\hc0, Numbered("LOG", 0, 4)) \cup At(\hf0, Plain(<<"CREATE", "CALL">>))
    \cup At(\hf3, Plain(<<"RETURN", "DELEGATECALL", "CREATE2">>)) \cup At(\hfa, Plain(<<"STATICCALL">>))
    \cup At(\hfd, Plain(<<"REVERT", "INVALID">>))

Enumerators == WordOpcodes \cup StateOpcodes \cup StackOpcodes \cup SystemOpcodes
Opcode == [i \in {e[1] : e \in Enumerators} |-> (CHOOSE e \in Enumerators : e[1] = i)[2]]

----------------------------------------------------------------------------
\* zond_names: a row for each of the 256 opcodes, NULL for the undefined ones.
Unnamed(n) == Times(n, NoName)

WordNames ==
    Plain(<<"STOP", "ADD", "MUL", "SUB", "DIV", "SDIV", "MOD", "SMOD", "ADDMOD", "MULMOD",
            "EXP", "SIGNEXTEND">>) \o Unnamed(4)
    \o Plain(<<"LT", "GT", "SLT", "SGT", "EQ", "ISZERO", "AND", "OR", "XOR", "NOT",
               "BYTE", "SHL", "SHR", "SAR">>) \o Unnamed(2)
    \o Plain(<<"KECCAK256">>) \o Unnamed(15)

StateNames ==
    Plain(<<"ADDRESS", "BALANCE", "ORIGIN", "CALLER", "CALLVALUE", "CALLDATALOAD", "CALLDATASIZE",
            "CALLDATACOPY", "CODESIZE", "CODECOPY", "GASPRICE", "EXTCODESIZE", "EXTCODECOPY",
            "RETURNDATASIZE", "RETURNDATACOPY", "EXTCODEHASH", "BLOCKHASH", "COINBASE",
            "TIMESTAMP", "NUMBER", "PREVRANDAO", "GASLIMIT", "CHAINID", "SELFBALANCE",
            "BASEFEE">>) \o Unnamed(7)
    \o Plain(<<"POP", "MLOAD", "MSTORE", "MSTORE8", "SLOAD", "SSTORE", "JUMP", "JUMPI", "PC",
               "MSIZE", "GAS", "JUMPDEST">>) \o Unnamed(3)

StackNames == Numbered("PUSH", 0, 64) \o Numbered("DUP", 1, 16) \o Numbered("SWAP", 1, 16)

\* Mutant of SystemNames: the unnamed row between CALL and RETURN is missing, so that
\* everything behind it moves up.
SystemNamesClosed ==
    Numbered("LOG", 0, 4) \o Unnamed(43)
    \o Plain(<<"CREATE", "CALL", "RETURN", "DELEGATECALL", "CREATE2">>)
    \o Unnamed(4) \o Plain(<<"STATICCALL">>) \o Unnamed(2)
    \o Plain(<<"REVERT", "INVALID">>) \o Unnamed(2)

SystemNames ==
    Numbered("LOG", 0, 4) \o Unnamed(43)
    \o Plain(<<"CREATE", "CALL">>) \o Unnamed(1) \o Plain(<<"RETURN", "DELEGATECALL", "CREATE2">>)
    \o Unnamed(4) \o Plain(<<"STATICCALL">>) \o Unnamed(2)
    \o Plain(<<"REVERT", "INVALID">>) \o Unnamed(1)

ZondNames == WordNames \o StateNames \o StackNames \o SystemNames

----------------------------------------------------------------------------
\* zond_metrics: gas_cost, stack_height_required and stack_height_change of each opcode.
Metrics(gas, required, change) == [gas |-> gas, required |-> required, change |-> change]
Undefineds(n) == Times(n, Metrics(0, 0, 0))
Base(n) == Times(n, Metrics(2, 0, 1))          \* pushes a word: the tier BASE
Binary(gas) == Metrics(gas, 2, -1)
Unary(gas) == Metrics(gas, 1, 0)
Consumer(gas, operands) == Metrics(gas, operands, -operands)
WarmStorageReadCost == 100

WordMetrics ==
    <<Metrics(0, 0, 0), Binary(3), Binary(5), Binary(3)>> \o Times(4, Binary(5))
    \o Times(2, Metrics(8, 3, -2)) \o <<Binary(10), Binary(5)>> \o Undefineds(4)
    \o Times(5, Binary(3)) \o <<Unary(3)>> \o Times(3, Binary(3)) \o <<Unary(3)>>
    \o Times(4, Binary(3)) \o Undefineds(2) \o <<Binary(30)>> \o Undefineds(15)

StateMetrics ==
    Base(1) \o <<Unary(WarmStorageReadCost)>> \o Base(3) \o <<Unary(3)>> \o Base(1) \o <<Consumer(3, 3)>>
    \o Base(1) \o <<Consumer(3, 3)>> \o Base(1)
    \o <<Unary(WarmStorageReadCost), Consumer(WarmStorageReadCost, 4)>> \o Base(1)
    \o <<Consumer(3, 3), Unary(WarmStorageReadCost), Unary(20)>> \o Base(6)
    \o <<Metrics(5, 0, 1)>> \o Base(1) \o Undefineds(7)
    \o <<Consumer(2, 1), Unary(3), Consumer(3, 2), Consumer(3, 2), Unary(WarmStorageReadCost),
         Consumer(0, 2), Consumer(8, 1), Consumer(10, 2)>> \o Base(3) \o <<Metrics(1, 0, 0)>>
    \o Undefineds(3)

\* Mutant of StackMetrics: DUPn requires the items above the duplicated one only.
StackMetricsShallow ==
    Base(1) \o Times(64, Metrics(3, 0, 1)) \o [n \in 1 .. 16 |-> Metrics(3, n - 1, 1)]
    \o [n \in 1 .. 16 |-> Metrics(3, n + 1, 0)]

StackMetrics ==
    Base(1) \o Times(64, Metrics(3, 0, 1)) \o [n \in 1 .. 16 |-> Metrics(3, n, 1)]
    \o [n \in 1 .. 16 |-> Metrics(3, n + 1, 0)]

SystemMetrics ==
    [n \in 1 .. 5 |-> Consumer(n * 375, n + 1)] \o Undefineds(43)
    \o <<Metrics(32000, 3, -2), Metrics(WarmStorageReadCost, 7, -6)>> \o Undefineds(1)
    \o <<Consumer(0, 2), Metrics(WarmStorageReadCost, 6, -5), Metrics(32000, 4, -3)>> \o Undefineds(4)
    \o <<Metrics(WarmStorageReadCost, 6, -5)>> \o Undefineds(2) \o <<Consumer(0, 2)>> \o Undefineds(2)

ZondMetrics == WordMetrics \o StateMetrics \o StackMetrics \o SystemMetrics

----------------------------------------------------------------------------
\* The tables of a revision: there are none for a number that is no revision.
NamesTable(revision) == IF revision = "ZOND" THEN ZondNames ELSE NoTable
MetricsTable(revision) == IF revision = "ZOND" THEN ZondMetrics ELSE NoTable

NameOf(revision, opcode) == NamesTable(revision)[opcode + 1]
MetricsOf(revision, opcode) == MetricsTable(revision)[opcode + 1]

\* The rows of an opcode in the three tables say the same: it is the enumerator its name
\* belongs to, or it has neither, and then the metrics of an undefined instruction.
RowsAgree(opcode) ==
    LET name == NameOf("ZOND", opcode)
        metrics == MetricsOf("ZOND", opcode)
    IN  IF name = NoName
        THEN metrics = Metrics(0, 0, 0) /\ \A i \in DOMAIN Opcode : Opcode[i] # opcode
        ELSE /\ name \in DOMAIN Opcode /\ Opcode[name] = opcode
             /\ metrics.gas >= 0 /\ metrics.required >= 0 /\ metrics.required + metrics.change >= 0
=============================================================================

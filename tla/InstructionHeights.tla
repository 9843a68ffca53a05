------------------------- MODULE InstructionHeights ------------------------
(***************************************************************************)
(* The example VM and the instruction tables of the same repository: what   *)
(* execute() does to the stack is what the metrics say of the opcode.       *)
(***************************************************************************)
EXTENDS ExampleVM, InstructionTables

\* PUSH1 to PUSH64 are the opcodes that take immediate bytes.
ASSUME CodesAssumption ==
    \A env \in Codes, a \in Word : \A k \in DOMAIN env[a] :
      env[a][k].op = "PUSH" => env[a][k].n \in 1 .. 64

\* The instruction of a cell, under the name the tables know it by.
InstructionOf(cell) == CASE cell.op = "PUSH" -> <<"PUSH", cell.n>>
                         [] cell.op = "DUP1" -> <<"DUP", 1>>
                         [] OTHER -> <<cell.op, 0>>

\* The opcodes a cell stands for: "UNDEFINED" for all that execute() has no case for.
Implemented ==
    {Opcode[<<op, 0>>] : op \in Op \ {"UNDEFINED", "PUSH", "DUP1"}}
      \cup {Opcode[<<"PUSH", n>>] : n \in 1 .. 64} \cup {Opcode[<<"DUP", 1>>]}
OpcodesOf(cell) == IF cell.op = "UNDEFINED" THEN Byte \ Implemented
                                            ELSE {Opcode[InstructionOf(cell)]}

\* Whatever opcode execute() meets, the three tables agree on it.  They are written apart,
\* two of them as arrays where one row too few moves every later instruction, and
\* test/unittests/instructions_test.cpp looks at a handful of rows.
TablesAgree ==
    ctl = "exec" /\ ~AtEnd(TopFrame) => \A b \in OpcodesOf(CellAt(TopFrame)) : RowsAgree(b)

Before == Len(TopFrame.stack)
After == Len(TopFrame.stack)'
Declared == MetricsOf("ZOND", Opcode[InstructionOf(CellAt(TopFrame))])

\* CALL is the only instruction that can be refused before all its operands are popped.
RefusedEarly == CellAt(TopFrame).op = "CALL"
                  /\ ret'.status \in {"CALL_DEPTH_EXCEEDED", "STATIC_MODE_VIOLATION"}

\* An instruction that was dispatched: whether its activation goes on is whether the frames
\* are as many as before.
DispatchMatches ==
    LET m == Declared
        goesOn == Len(frames') = Len(frames)
    IN  /\ goesOn /\ ctl' = "exec" => After = Before + m.change
        /\ goesOn /\ ctl' = "host" => After + 1 = Before + m.change
        /\ goesOn => Before >= m.required /\ Before + m.change <= StackLimit
        /\ Before < m.required => RefusedEarly \/ ret'.status = "STACK_UNDERFLOW"
        /\ ~goesOn /\ ret'.status = "STACK_UNDERFLOW" => Before < m.required
        /\ ~goesOn /\ ret'.status = "STACK_OVERFLOW" => Before + m.change > StackLimit

\* An activation that goes on has changed its stack by the height the tables declare (CALL
\* in two parts, before and after the host's answer) and had the height they require; it
\* underflows exactly when it had not, and overflows only when the declared change does not
\* fit.  execute() pops and pushes by hand in every case of its switch, and the tables are
\* written elsewhere: a missing pop shows only some instructions later.
HeightsMatchTable ==
    [][/\ steps' = steps + 1 /\ CellAt(TopFrame).op # "UNDEFINED" => DispatchMatches
       /\ ctl = "return" /\ frames # <<>> /\ ctl' = "exec" => After = Before + 1]_vars
=============================================================================

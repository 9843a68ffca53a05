---------------------------- MODULE MCExampleVM ----------------------------
(***************************************************************************)
(* Small instances of ExampleVM.  Words are 0..63 with a "uint32" part of   *)
(* five bits, so that 32 is a word that is not zero although its low part   *)
(* is.                                                                      *)
(***************************************************************************)
EXTENDS InstructionHeights

O(op) == [op |-> op, n |-> 0, word |-> 0]
P(w) == [op |-> "PUSH", n |-> 1, word |-> w]
Imm == O("UNDEFINED")        \* an immediate byte, never executed
Lit(w) == <<P(w), Imm>>

----------------------------------------------------------------------------
\* Call trees: account 0 pushes the seven operands of CALL, calls and then acts on what it
\* got; account 1 is the callee; the other accounts have no code.
Operands(gas, to, value, in, out) ==
    Lit(out) \o Lit(0) \o Lit(in) \o Lit(0) \o Lit(value) \o Lit(to) \o Lit(gas)

Tails == {<<O("SSTORE")>>,
          Lit(1) \o Lit(2) \o <<O("SSTORE")>>,
          Lit(2) \o <<O("RETURN")>>,
          Lit(0) \o Lit(1) \o <<O("CALL")>>}
Callees == {Lit(1) \o Lit(0) \o <<O("SSTORE"), O("STOP")>>,
            Lit(1) \o Lit(0) \o <<O("REVERT")>>,
            <<O("UNDEFINED")>>}

CallTrees ==
    {[a \in Word |->
        CASE a = 0 -> Operands(gas, to, value, 1, out) \o <<O("CALL")>> \o tail
          [] a = 1 -> callee
          [] OTHER -> <<>>] :
       gas \in {3, 31}, to \in {0, 1, 2}, value \in {0, 32}, out \in {1, 3},
       tail \in Tails, callee \in Callees}

CallMessages ==
    {[gas |-> g, static |-> s, depth |-> d, recipient |-> 0, sender |-> 3, value |-> 0,
      insize |-> 0] : g \in {11, 29}, s \in BOOLEAN, d \in {0, 1}}
    \cup {[NoMessage EXCEPT !.gas = -1]}

CallHostResults ==
    {[status |-> st, gas |-> g, size |-> IF o THEN 1 ELSE 0, owned |-> o] :
       st \in {"SUCCESS", "REJECTED"}, g \in {-1, 1, 30}, o \in BOOLEAN}

----------------------------------------------------------------------------
\* Straight-line code: every program of three bytes, on a stack of two items and a memory of
\* one byte, in static and in normal mode.  7 is a word whose low part is 3.
OpCells == {O(op) : op \in Op \ {"PUSH", "CALL"}}
             \cup {P(1), P(7), [op |-> "PUSH", n |-> 3, word |-> 2]}
ProgramLength == 3
OpCodes == {[a \in Word |-> IF a = 0 THEN program ELSE <<>>] :
              program \in [1 .. ProgramLength -> OpCells]}
OpMessages == {[NoMessage EXCEPT !.gas = g, !.insize = 1] : g \in {2, 5}}
               \cup {[NoMessage EXCEPT !.gas = 5, !.static = TRUE]}
=============================================================================

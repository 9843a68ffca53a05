----------------------------- MODULE ExampleVM -----------------------------
(***************************************************************************)
(* execute() of examples/example_vm/example_vm.cpp, driven by a host: the   *)
(* stack of activations that nested host->call() builds, the gas each one   *)
(* holds, the stack and memory limits, static mode, and the output buffers  *)
(* that results carry from callee to caller.                                *)
(*                                                                          *)
(* Words (512 bits in the code) are numbers whose low 32 bits are the       *)
(* number modulo U32.  Memory contents are not modelled, only its size: no  *)
(* instruction of this VM reads memory back.                                *)
(***************************************************************************)
EXTENDS Integers, Sequences

CONSTANTS
    U32,          \* number of values of a uint32_t
    WordMax,      \* the largest word; addresses are words as well
    WordSize,     \* bytes of a word
    StackLimit,   \* items of the stack array
    MemLimit,     \* bytes of the memory buffer
    MaxDepth,     \* depth at which CALL is refused
    Codes,        \* the code environments (account -> code) to run
    Messages,     \* the messages a host starts an execution with
    HostResults,  \* the results a host may answer a call with
    CallData,     \* the words that can be read from a message's input
    BlockNumber,  \* the transaction context's block number
    MaxRuns       \* bound: executions started in a behaviour

Word == 0 .. WordMax
Op == {"STOP", "ADD", "ADDRESS", "CALLDATALOAD", "NUMBER", "MSTORE", "SLOAD", "SSTORE",
       "MSIZE", "PUSH", "DUP1", "CALL", "RETURN", "REVERT", "UNDEFINED"}

\* One byte of code as execute() meets it: an opcode and, for PUSH1..PUSH64, the number
\* of immediate bytes and the word they assemble.
Cell == [op : Op, n : Nat, word : Word]

Status == {"SUCCESS", "REVERT", "FAILURE", "OUT_OF_GAS", "UNDEFINED_INSTRUCTION",
           "STACK_OVERFLOW", "STACK_UNDERFLOW", "STATIC_MODE_VIOLATION",
           "CALL_DEPTH_EXCEEDED", "OUT_OF_MEMORY", "REJECTED"}

Message == [gas : Int, static : BOOLEAN, depth : 0 .. MaxDepth, recipient : Word,
            sender : Word, value : Word, insize : Nat]
Result == [status : Status, gas : Int, size : Nat, owned : BOOLEAN]

NoMessage == [gas |-> 0, static |-> FALSE, depth |-> 0, recipient |-> 0,
              sender |-> 0, value |-> 0, insize |-> 0]
NoResult == [status |-> "SUCCESS", gas |-> 0, size |-> 0, owned |-> FALSE]

ASSUME ConstantsAssumption ==
    /\ U32 \in Nat \ {0} /\ WordMax \in Nat \ {0} /\ WordSize \in Nat
    /\ StackLimit \in Nat /\ MemLimit \in Nat /\ MaxDepth \in Nat /\ MaxRuns \in Nat
    /\ Codes \subseteq [Word -> Seq(Cell)]
    /\ Messages \subseteq Message
    /\ HostResults \subseteq Result
    /\ CallData \subseteq Word /\ BlockNumber \in Nat
    /\ U32 <= WordMax + 1

VARIABLES
    ctl,      \* where control is: see Control
    frames,   \* the activations of execute(), the running one last
    call,     \* the message on its way from a caller to execute()
    ret,      \* the result on its way back to the caller
    code,     \* the code of every account, fixed for the behaviour
    storage,  \* the accounts' storage, kept by the host
    buffers,  \* output buffers allocated and not released yet
    steps,    \* history: instructions dispatched since the execution began
    allowance,\* history: the gas the execution was started with
    runs      \* executions started

vars == <<ctl, frames, call, ret, code, storage, buffers, steps, allowance, runs>>

Control == {"idle",     \* no execution in progress
            "invoke",   \* execute() is about to be entered with call
            "exec",     \* the last frame runs
            "host",     \* the last frame has called host->call() with call
            "return"}   \* ret goes to the last frame, or to the outermost caller

\* An activation: its message, locals, and the gas it has handed to the call it waits for.
Frame == [msg : Message, pc : Nat \ {0}, gas : Nat, stack : Seq(Word), msize : Nat, callgas : Nat]

----------------------------------------------------------------------------
Low(w) == w % U32                      \* to_uint32
LesserOf(a, b) == IF a <= b THEN a ELSE b
GreaterOf(a, b) == IF a <= b THEN b ELSE a
Clamp(x, lo, hi) == IF x < lo THEN lo ELSE IF x > hi THEN hi ELSE x

\* Mutant of Fits: the buffer's size is compared one byte too generously.
FitsOneMore(offset, size) == offset <= MemLimit /\ size <= MemLimit - offset + 1

\* Memory::expand: whether a region fits the buffer, and the size after the expansion.
Fits(offset, size) == offset <= MemLimit /\ size <= MemLimit - offset
Grown(msize, offset, size) == GreaterOf(msize, offset + size)

\* How many items an instruction pops before it does anything else, and pushes at its end.
Pops == [op \in Op |-> CASE op \in {"ADD", "MSTORE", "SSTORE", "RETURN", "REVERT"} -> 2
                         [] op \in {"CALLDATALOAD", "SLOAD", "DUP1"} -> 1
                         [] op = "CALL" -> 3
                         [] OTHER -> 0]
Pushes == [op \in Op |-> CASE op \in {"ADD", "ADDRESS", "CALLDATALOAD", "NUMBER", "SLOAD",
                                      "MSIZE", "PUSH"} -> 1
                           [] op = "DUP1" -> 2
                           [] OTHER -> 0]
CallArgs == 7

TopFrame == frames[Len(frames)]
Callers == SubSeq(frames, 1, Len(frames) - 1)
CodeOf(f) == code[f.msg.recipient]
AtEnd(f) == f.pc > Len(CodeOf(f))
CellAt(f) == CodeOf(f)[f.pc]
Arg(f, i) == f.stack[Len(f.stack) + 1 - i]      \* the i-th item popped
Popped(f, k) == SubSeq(f.stack, 1, Len(f.stack) - k)

NewFrame(m) == [msg |-> m, pc |-> 1, gas |-> m.gas, stack |-> <<>>, msize |-> 0, callgas |-> 0]

\* The frame after an instruction: the loop header's charge, the loop's ++pc past skip
\* immediate bytes, another stack and memory size.
Advanced(f, skip, stack, msize) ==
    [f EXCEPT !.gas = @ - 1, !.pc = @ + 1 + skip, !.stack = stack, !.msize = msize]

\* Mutant of Suspended: the callee's allowance is not taken from the caller.
SuspendedUnpaid(f, lent, stack, msize) ==
    [Advanced(f, 0, stack, msize) EXCEPT !.callgas = lent]

\* Mutant of Resumed: the success flag is not pushed.
ResumedUnpushed(f, back, flag) == [f EXCEPT !.gas = @ + back, !.callgas = 0]

\* The frame in a CALL: before host->call() it parts with the callee's allowance, after it
\* it takes some of it back and pushes the success flag.
Suspended(f, lent, stack, msize) ==
    [Advanced(f, 0, stack, msize) EXCEPT !.gas = @ - lent, !.callgas = lent]
Resumed(f, back, flag) ==
    [f EXCEPT !.gas = @ + back, !.callgas = 0, !.stack = Append(@, flag)]

----------------------------------------------------------------------------
\* The host's storage: a slot that was never set reads as zero.
Stored(account, key) ==
    IF <<account, key>> \in DOMAIN storage THEN storage[<<account, key>>] ELSE 0
Store(account, key, value) ==
    storage' = [slot \in DOMAIN storage \cup {<<account, key>>} |->
                  IF slot = <<account, key>> THEN value ELSE storage[slot]]

\* qrvmc_make_result: a copied output is owned by the result.
MakeResult(status, gas, size) ==
    [status |-> status, gas |-> gas, size |-> size, owned |-> size # 0]

\* The frame goes on as f; or returns a result.
Continue(f) ==
    /\ frames' = Append(Callers, f)
    /\ UNCHANGED <<ctl, call, ret, buffers>>

Return(status, gas, size) ==
    /\ frames' = Callers
    /\ ret' = MakeResult(status, gas, size)
    /\ buffers' = buffers + (IF size # 0 THEN 1 ELSE 0)
    /\ ctl' = "return"
    /\ UNCHANGED call

\* Mutant of Fail: a failure keeps the remaining gas.
FailKeepsGas(status) == Return(status, TopFrame.gas, 0)

Fail(status) == Return(status, 0, 0)

Dispatching == ctl = "exec" /\ ~AtEnd(TopFrame)
Paid(op) == Dispatching /\ CellAt(TopFrame).op = op /\ TopFrame.gas >= 1

\* The instruction has its operands and room for what it pushes.
Ready(op) ==
    /\ Paid(op)
    /\ Len(TopFrame.stack) >= Pops[op]
    /\ Len(TopFrame.stack) - Pops[op] + Pushes[op] <= StackLimit

Dispatch == steps' = steps + 1 /\ UNCHANGED <<code, allowance, runs>>
Quiet == UNCHANGED <<code, steps, allowance, runs>>

\* Charge, pop the operands, push ws and go on.
Push(op, ws) ==
    /\ Continue(Advanced(TopFrame, 0, Popped(TopFrame, Pops[op]) \o ws, TopFrame.msize))
    /\ UNCHANGED storage

----------------------------------------------------------------------------
\* Failures common to all instructions.
OutOfGas ==
    /\ Dispatching /\ TopFrame.gas = 0
    /\ Fail("OUT_OF_GAS")
    /\ Quiet /\ UNCHANGED storage

StackUnderflow ==
    \E op \in Op :
      /\ Paid(op)
      /\ Len(TopFrame.stack) < Pops[op]
      /\ Fail("STACK_UNDERFLOW")
      /\ Dispatch /\ UNCHANGED storage

StackOverflow ==
    \E op \in Op :
      /\ Paid(op)
      /\ Len(TopFrame.stack) >= Pops[op]
      /\ Len(TopFrame.stack) - Pops[op] + Pushes[op] > StackLimit
      /\ Fail("STACK_OVERFLOW")
      /\ Dispatch /\ UNCHANGED storage

Undefined ==
    /\ Ready("UNDEFINED")
    /\ Fail("UNDEFINED_INSTRUCTION")
    /\ Dispatch /\ UNCHANGED storage

----------------------------------------------------------------------------
\* Instructions that only move words.
Add ==
    /\ Ready("ADD")
    /\ Push("ADD", <<(Low(Arg(TopFrame, 1)) + Low(Arg(TopFrame, 2))) % U32>>)
    /\ Dispatch

Address == Ready("ADDRESS") /\ Push("ADDRESS", <<TopFrame.msg.recipient>>) /\ Dispatch

CallDataLoad ==
    /\ Ready("CALLDATALOAD")
    /\ \E w \in IF Low(Arg(TopFrame, 1)) < TopFrame.msg.insize THEN CallData ELSE {0} :
         Push("CALLDATALOAD", <<w>>)
    /\ Dispatch

Number == Ready("NUMBER") /\ Push("NUMBER", <<Low(BlockNumber)>>) /\ Dispatch

SLoad ==
    /\ Ready("SLOAD")
    /\ Push("SLOAD", <<Stored(TopFrame.msg.recipient, Arg(TopFrame, 1))>>)
    /\ Dispatch

MSize == Ready("MSIZE") /\ Push("MSIZE", <<Low(TopFrame.msize)>>) /\ Dispatch

PushN ==
    LET c == CellAt(TopFrame)
    IN  /\ Ready("PUSH")
        /\ Continue(Advanced(TopFrame, c.n, Append(TopFrame.stack, c.word), TopFrame.msize))
        /\ Dispatch /\ UNCHANGED storage

Dup1 == Ready("DUP1") /\ Push("DUP1", <<Arg(TopFrame, 1), Arg(TopFrame, 1)>>) /\ Dispatch

\* Memory and storage writes.
MStore ==
    /\ Ready("MSTORE")
    /\ LET index == Low(Arg(TopFrame, 1))
       IN  \/ /\ Fits(index, WordSize)
              /\ Continue(Advanced(TopFrame, 0, Popped(TopFrame, 2),
                                   Grown(TopFrame.msize, index, WordSize)))
           \/ ~Fits(index, WordSize) /\ Fail("FAILURE")
    /\ Dispatch /\ UNCHANGED storage

\* Mutant of SStore: static mode is not checked.
SStoreUnchecked ==
    /\ Ready("SSTORE")
    /\ Continue(Advanced(TopFrame, 0, Popped(TopFrame, 2), TopFrame.msize))
    /\ Store(TopFrame.msg.recipient, Arg(TopFrame, 1), Arg(TopFrame, 2))
    /\ Dispatch

SStore ==
    /\ Ready("SSTORE")
    /\ \/ /\ TopFrame.msg.static
          /\ Fail("STATIC_MODE_VIOLATION")
          /\ UNCHANGED storage
       \/ /\ ~TopFrame.msg.static
          /\ Continue(Advanced(TopFrame, 0, Popped(TopFrame, 2), TopFrame.msize))
          /\ Store(TopFrame.msg.recipient, Arg(TopFrame, 1), Arg(TopFrame, 2))
    /\ Dispatch

\* Mutant of Stop: the gas of before the charge is returned.
StopUncharged ==
    /\ Ready("STOP")
    /\ Return("SUCCESS", TopFrame.gas, 0)
    /\ Dispatch /\ UNCHANGED storage

\* Mutant of EndOfCode: the instruction pointer wraps around.
EndOfCodeWraps ==
    /\ ctl = "exec" /\ AtEnd(TopFrame)
    /\ Continue([TopFrame EXCEPT !.pc = 1])
    /\ Quiet /\ UNCHANGED storage

\* The end of an activation.
Stop ==
    /\ Ready("STOP")
    /\ Return("SUCCESS", TopFrame.gas - 1, 0)
    /\ Dispatch /\ UNCHANGED storage

EndOfCode ==
    /\ ctl = "exec" /\ AtEnd(TopFrame)
    /\ Return("SUCCESS", TopFrame.gas, 0)
    /\ Quiet /\ UNCHANGED storage

\* RETURN and REVERT: the result copies the region, for which malloc may fail.
ReturnData(op, status) ==
    /\ Ready(op)
    /\ LET offset == Low(Arg(TopFrame, 1))
           size == Low(Arg(TopFrame, 2))
       IN  \/ ~Fits(offset, size) /\ Fail("FAILURE")
           \/ Fits(offset, size) /\ size # 0 /\ Fail("OUT_OF_MEMORY")
           \/ Fits(offset, size) /\ Return(status, TopFrame.gas - 1, size)
    /\ Dispatch /\ UNCHANGED storage

OpReturn == ReturnData("RETURN", "SUCCESS")
OpRevert == ReturnData("REVERT", "REVERT")

----------------------------------------------------------------------------
\* CALL, up to host->call(): the checks in the code's order.
\* Mutant of CallValueBanned: the value is narrowed to 32 bits first.
CallValueBannedLow == TopFrame.msg.static /\ Low(Arg(TopFrame, 3)) # 0

CallValueBanned == TopFrame.msg.static /\ Arg(TopFrame, 3) # 0
CallAllowed == Ready("CALL") /\ TopFrame.msg.depth < MaxDepth /\ ~CallValueBanned
CallRegionsFit ==
    /\ Fits(Low(Arg(TopFrame, 4)), Low(Arg(TopFrame, 5)))
    /\ Fits(Low(Arg(TopFrame, 6)), Low(Arg(TopFrame, 7)))

CallRefused ==
    /\ \/ /\ Ready("CALL") /\ TopFrame.msg.depth >= MaxDepth
          /\ Fail("CALL_DEPTH_EXCEEDED")
       \/ /\ Ready("CALL") /\ TopFrame.msg.depth < MaxDepth /\ CallValueBanned
          /\ Fail("STATIC_MODE_VIOLATION")
       \/ /\ CallAllowed /\ Len(TopFrame.stack) < CallArgs
          /\ Fail("STACK_UNDERFLOW")
       \/ /\ CallAllowed /\ Len(TopFrame.stack) >= CallArgs /\ ~CallRegionsFit
          /\ Fail("FAILURE")
    /\ Dispatch /\ UNCHANGED storage

\* The message of the call: the allowance is capped at what the charge left.
CallMessage(f) ==
    [gas |-> LesserOf(Low(Arg(f, 1)), f.gas - 1),
     static |-> f.msg.static,
     depth |-> f.msg.depth + 1,
     recipient |-> Arg(f, 2),
     sender |-> f.msg.recipient,
     value |-> Arg(f, 3),
     insize |-> Low(Arg(f, 5))]

CallHost ==
    LET f == TopFrame
        inner == CallMessage(f)
    IN  /\ CallAllowed /\ Len(f.stack) >= CallArgs /\ CallRegionsFit
        /\ call' = inner
        /\ frames' = Append(Callers,
             Suspended(f, inner.gas, Popped(f, CallArgs),
                       Grown(Grown(f.msize, Low(Arg(f, 4)), Low(Arg(f, 5))),
                             Low(Arg(f, 6)), Low(Arg(f, 7)))))
        /\ ctl' = "host"
        /\ Dispatch /\ UNCHANGED <<ret, storage, buffers>>

\* Mutant of Resume: the callee's result is not released.
ResumeUnreleased ==
    /\ ctl = "return" /\ frames # <<>>
    /\ LET flag == IF ret.status = "SUCCESS" THEN 1 ELSE 0
       IN  frames' = Append(Callers, Resumed(TopFrame, Clamp(ret.gas, 0, TopFrame.callgas), flag))
    /\ ret' = NoResult
    /\ ctl' = "exec"
    /\ Quiet /\ UNCHANGED <<call, storage, buffers>>

\* CALL, after host->call(): take back the clamped gas, push the success flag, copy the
\* output and release it.  The overflow return leaves the result unreleased.
Resume ==
    /\ ctl = "return" /\ frames # <<>>
    /\ LET f == TopFrame
           flag == IF ret.status = "SUCCESS" THEN 1 ELSE 0
       IN  IF Len(f.stack) >= StackLimit
           THEN Fail("STACK_OVERFLOW")
           ELSE /\ frames' = Append(Callers, Resumed(f, Clamp(ret.gas, 0, f.callgas), flag))
                /\ buffers' = buffers - (IF ret.owned THEN 1 ELSE 0)
                /\ ret' = NoResult
                /\ ctl' = "exec"
                /\ UNCHANGED call
    /\ Quiet /\ UNCHANGED storage

----------------------------------------------------------------------------
\* The host.  It starts an execution, answers a call by itself (as MockedHost and
\* ExampleHost do, possibly with a result that breaks the contract on gas_left), or
\* executes the callee's code on the same VM (as a client does).
Start ==
    /\ ctl = "idle" /\ runs < MaxRuns
    /\ \E m \in Messages :
         /\ call' = m
         /\ allowance' = GreaterOf(m.gas, 0)
    /\ ctl' = "invoke"
    /\ runs' = runs + 1
    /\ steps' = 0
    /\ UNCHANGED <<frames, ret, code, storage, buffers>>

HostAnswers ==
    /\ ctl = "host"
    /\ \E r \in HostResults :
         /\ ret' = r
         /\ buffers' = buffers + (IF r.owned THEN 1 ELSE 0)
    /\ ctl' = "return"
    /\ call' = NoMessage
    /\ Quiet /\ UNCHANGED <<frames, storage>>

HostExecutes ==
    /\ ctl = "host"
    /\ ctl' = "invoke"
    /\ Quiet /\ UNCHANGED <<frames, call, ret, storage, buffers>>

\* Mutant of Enter: the refusal of a negative gas echoes it.
EnterEchoesGas ==
    /\ ctl = "invoke"
    /\ call' = NoMessage
    /\ \/ /\ call.gas < 0
          /\ ctl' = "return"
          /\ ret' = MakeResult("OUT_OF_GAS", call.gas, 0)
          /\ UNCHANGED frames
       \/ /\ call.gas >= 0
          /\ ctl' = "exec"
          /\ frames' = Append(frames, NewFrame(call))
          /\ UNCHANGED ret
    /\ Quiet /\ UNCHANGED <<storage, buffers>>

\* The entry of execute().
Enter ==
    /\ ctl = "invoke"
    /\ call' = NoMessage
    /\ \/ /\ call.gas < 0
          /\ ctl' = "return"
          /\ ret' = MakeResult("OUT_OF_GAS", 0, 0)
          /\ UNCHANGED frames
       \/ /\ call.gas >= 0
          /\ ctl' = "exec"
          /\ frames' = Append(frames, NewFrame(call))
          /\ UNCHANGED ret
    /\ Quiet /\ UNCHANGED <<storage, buffers>>

\* The outermost caller reads the result and releases it.
Deliver ==
    /\ ctl = "return" /\ frames = <<>>
    /\ buffers' = buffers - (IF ret.owned THEN 1 ELSE 0)
    /\ ret' = NoResult
    /\ ctl' = "idle"
    /\ Quiet /\ UNCHANGED <<frames, call, storage>>

----------------------------------------------------------------------------
Init ==
    /\ ctl = "idle" /\ frames = <<>> /\ call = NoMessage /\ ret = NoResult
    /\ code \in Codes
    /\ storage = [slot \in {} |-> 0]
    /\ buffers = 0 /\ steps = 0 /\ allowance = 0 /\ runs = 0

Instruction ==
    \/ Undefined \/ Add \/ Address \/ CallDataLoad \/ Number \/ SLoad \/ MSize \/ PushN
    \/ Dup1 \/ MStore \/ SStore \/ Stop \/ OpReturn \/ OpRevert \/ CallRefused \/ CallHost

Execute == OutOfGas \/ StackUnderflow \/ StackOverflow \/ Instruction \/ EndOfCode \/ Resume
Host == HostAnswers \/ HostExecutes \/ Enter \/ Deliver

Next == Start \/ Execute \/ Host

Spec == Init /\ [][Next]_vars

\* execute() is sequential code that runs until it returns, and a host that was called
\* answers; nobody has to start an execution.
FairSpec == Spec /\ WF_vars(Execute \/ Host)

----------------------------------------------------------------------------
\* The part of the state that outlives an activation.
WorldOK ==
    /\ code \in Codes
    /\ DOMAIN storage \subseteq Word \X Word /\ storage \in [DOMAIN storage -> Word]
    /\ steps \in Nat /\ allowance \in Nat /\ runs \in 0 .. MaxRuns

\* Every variable keeps its type: in particular gas_left never turns negative and no
\* stack or memory outgrows its array (Stack::push, Memory::expand).
TypeOK ==
    /\ ctl \in Control
    /\ frames \in Seq(Frame)
    /\ \A i \in 1 .. Len(frames) :
         Len(frames[i].stack) <= StackLimit /\ frames[i].msize <= MemLimit
    /\ call \in Message
    /\ ret \in Result
    /\ buffers \in Nat
    /\ WorldOK

\* The gas held by all activations.
FramesGas ==
    LET upto[i \in 0 .. Len(frames)] == IF i = 0 THEN 0 ELSE upto[i - 1] + frames[i].gas
    IN  upto[Len(frames)]

\* Gas on its way between a frame and its callee, or between execute() and its caller.
InFlight ==
    CASE ctl \in {"invoke", "host"} -> GreaterOf(call.gas, 0)
      [] ctl = "return" -> IF frames = <<>> THEN ret.gas ELSE Clamp(ret.gas, 0, TopFrame.callgas)
      [] OTHER -> 0

\* No gas is minted in a call tree, whatever the hosts answer: what all activations hold,
\* plus the instructions dispatched so far, never exceeds what the host handed out.  (It is
\* the reason the upfront subtraction and the clamp around host->call() exist.)
GasConserved == ctl # "idle" => FramesGas + InFlight + steps <= allowance

\* A callee is deeper than its caller by one and none is deeper than the limit, so the
\* native recursion execute() -> host -> execute() is bounded by it.
DepthBounded ==
    \A i \in 1 .. Len(frames) :
      /\ frames[i].msg.depth = frames[1].msg.depth + i - 1
      /\ frames[i].msg.depth <= MaxDepth

\* Every output buffer, of the VM or of the host, is released exactly once: outside a
\* handover no buffer is live, during one only that of the result handed over.  (The
\* overflow return of CALL would leak one.)
BuffersReleased == buffers = (IF ctl = "return" /\ ret.owned THEN 1 ELSE 0)

\* Static mode is inherited: below a static activation all are static, and none of the
\* calls made there carries value.
StaticInherited ==
    \A i, j \in 1 .. Len(frames) :
      i < j /\ frames[i].msg.static => frames[j].msg.static /\ frames[j].msg.value = 0

\* While any activation is static no storage changes, whichever activation runs.
StaticPreservesStorage ==
    [][(\E i \in 1 .. Len(frames) : frames[i].msg.static) => UNCHANGED storage]_vars

\* What execute() returns to its caller obeys the contract of qrvmc_result: gas_left within
\* the message's gas, none (and no output) unless SUCCESS or REVERT.
ResultContract ==
    [][Len(frames') < Len(frames) =>
         /\ ret'.gas \in 0 .. TopFrame.msg.gas
         /\ ret'.status \notin {"SUCCESS", "REVERT"} => ret'.gas = 0 /\ ret'.size = 0]_vars

\* Without calls the meter is exact: an execution that succeeds or reverts returns its gas
\* less one per instruction dispatched, whichever way the code ended.
MeteredExactly ==
    ctl = "return" /\ ret.status \in {"SUCCESS", "REVERT"} => ret.gas + steps = allowance

\* What the outermost caller sees is a metered execution: see Metered.
Bottom == frames[1]
MeteredPhase == CASE ctl = "idle" -> "idle"
                  [] ctl = "return" /\ frames = <<>> -> "answered"
                  [] OTHER -> "running"
MeteredBudget == CASE frames # <<>> -> Bottom.gas + Bottom.callgas
                   [] frames = <<>> /\ ctl = "invoke" -> GreaterOf(call.gas, 0)
                   [] OTHER -> 0
MeteredLeft == IF MeteredPhase = "answered" THEN ret.gas ELSE 0
MeteredCompleted == MeteredPhase = "answered" /\ ret.status \in {"SUCCESS", "REVERT"}
Contract == INSTANCE Metered WITH phase <- MeteredPhase, budget <- MeteredBudget,
                                  left <- MeteredLeft, completed <- MeteredCompleted
ImplementsMetered == Contract!Spec

\* Every execution ends, because every instruction costs gas and moves on.
Terminates == ctl = "invoke" ~> ctl = "idle"
=============================================================================

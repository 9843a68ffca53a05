-------------------------- MODULE ExampleVMProofs --------------------------
(***************************************************************************)
(* Proofs about ExampleVM for every word size, limit, code, message and     *)
(* host.  The inductive invariant IInv adds to the type invariant what a    *)
(* suspended CALL remembers: the message it made (gas, depth, static mode)  *)
(* and that its stack has room for the success flag.  The last part is      *)
(* about the instruction tables: they agree with each other row by row, and *)
(* with what every instruction of the VM does to the stack.                 *)
(***************************************************************************)
EXTENDS InstructionHeights, SequenceTheorems, WellFoundedInduction, TLAPS

\* m is a message that the CALL f is suspended in has sent.
SentBy(f, m) ==
    /\ m.gas = f.callgas
    /\ m.depth = f.msg.depth + 1
    /\ f.msg.static => m.static /\ m.value = 0

\* Seven operands were popped, so the success flag cannot overflow the stack.
Room(f) == Len(f.stack) + CallArgs <= StackLimit

\* No activation holds or has lent more than it was given.
WithinAllowance == \A i \in 1 .. Len(frames) : frames[i].gas + frames[i].callgas <= frames[i].msg.gas

\* Every activation but the last is suspended in the CALL that made the next one.
Links == \A i \in 1 .. Len(frames) - 1 : SentBy(frames[i], frames[i + 1].msg) /\ Room(frames[i])

ControlInv ==
    /\ ctl = "idle" => frames = <<>>
    /\ ctl = "exec" => frames # <<>> /\ TopFrame.callgas = 0
    /\ ctl = "host" => frames # <<>>
    /\ ctl \in {"host", "invoke"} /\ frames # <<>> => SentBy(TopFrame, call) /\ Room(TopFrame)
    /\ ctl = "return" /\ frames # <<>> => Room(TopFrame)

Chain == DepthBounded /\ StaticInherited

IInv == TypeOK /\ WithinAllowance /\ Links /\ ControlInv /\ BuffersReleased /\ Chain

----------------------------------------------------------------------------
\* The stack of activations: its last element and what is below it.
LEMMA TopOfSeq ==
    ASSUME NEW S, NEW s \in Seq(S), s # <<>>
    PROVE  /\ Len(s) \in Nat \ {0}
           /\ s[Len(s)] \in S
           /\ SubSeq(s, 1, Len(s) - 1) \in Seq(S)
           /\ Len(SubSeq(s, 1, Len(s) - 1)) = Len(s) - 1
           /\ \A i \in 1 .. Len(s) - 1 : SubSeq(s, 1, Len(s) - 1)[i] = s[i]
<1> DEFINE n == Len(s)
           c == SubSeq(s, 1, n - 1)
<1>1. n \in Nat \ {0}
  BY EmptySeq
<1>2. \A i \in 1 .. n : s[i] \in S
  BY ElementOfSeq
<1>3. /\ c \in Seq(S)
      /\ Len(c) = (IF 1 <= n - 1 THEN n - 1 - 1 + 1 ELSE 0)
      /\ \A i \in 1 .. n - 1 - 1 + 1 : c[i] = s[1 + i - 1]
  <2>1. 1 \in Int /\ n - 1 \in Int /\ \A i \in 1 .. n - 1 : s[i] \in S
    BY <1>1, <1>2
  <2> HIDE DEF n
  <2> QED BY <2>1, SubSeqProperties
<1>4. n \in Nat \ {0} /\ s[n] \in S /\ c \in Seq(S) /\ Len(c) = n - 1
      /\ \A i \in 1 .. n - 1 : c[i] = s[i]
  <2> HIDE DEF n, c
  <2> QED BY <1>1, <1>2, <1>3
<1> QED BY <1>4

\* The fields of an activation and of a message.
LEMMA FrameFields ==
    ASSUME NEW f \in Frame
    PROVE  /\ f.msg \in Message /\ f.pc \in Nat \ {0} /\ f.gas \in Nat
           /\ f.stack \in Seq(Word) /\ f.msize \in Nat /\ f.callgas \in Nat
BY DEF Frame

LEMMA MessageFields ==
    ASSUME NEW m \in Message
    PROVE  /\ m.gas \in Int /\ m.static \in BOOLEAN /\ m.depth \in 0 .. MaxDepth
           /\ m.recipient \in Word /\ m.sender \in Word /\ m.value \in Word
           /\ m.insize \in Nat
BY DEF Message

\* Popping operands and pushing words.
LEMMA PoppedItems ==
    ASSUME NEW f \in Frame, NEW k \in Nat, k <= Len(f.stack)
    PROVE  Popped(f, k) \in Seq(Word) /\ Len(Popped(f, k)) = Len(f.stack) - k
<1>1. f.stack \in Seq(Word)
  BY DEF Frame
<1>2. \A i \in 1 .. Len(f.stack) : f.stack[i] \in Word
  BY <1>1, ElementOfSeq
<1>3. Len(f.stack) \in Nat
  BY <1>1
<1> QED BY <1>2, <1>3, SubSeqProperties DEF Popped

LEMMA ArgIsWord ==
    ASSUME NEW f \in Frame, NEW i \in Nat \ {0}, i <= Len(f.stack)
    PROVE  Arg(f, i) \in Word
<1>1. f.stack \in Seq(Word)
  BY DEF Frame
<1>2. Len(f.stack) + 1 - i \in 1 .. Len(f.stack)
  BY <1>1
<1> QED BY <1>1, <1>2, ElementOfSeq DEF Arg

\* The truncation to 32 bits yields a number, and a word.
LEMMA LowIsWord ==
    ASSUME NEW w \in Nat
    PROVE  Low(w) \in Nat /\ Low(w) \in Word
BY ConstantsAssumption DEF Low, Word

LEMMA TopIsFrame ==
    ASSUME TypeOK, frames # <<>>
    PROVE  /\ TopFrame \in Frame
           /\ Len(frames) \in Nat \ {0}
           /\ Len(TopFrame.stack) <= StackLimit /\ TopFrame.msize <= MemLimit
           /\ Callers \in Seq(Frame) /\ Len(Callers) = Len(frames) - 1
           /\ \A i \in 1 .. Len(frames) - 1 : Callers[i] = frames[i]
BY TopOfSeq DEF TypeOK, TopFrame, Callers

\* Replacing the running frame keeps the frames below it.
LEMMA TopReplaced ==
    ASSUME TypeOK, frames # <<>>, NEW f \in Frame, frames' = Append(Callers, f)
    PROVE  /\ frames' \in Seq(Frame) /\ frames' # <<>>
           /\ Len(frames') = Len(frames) /\ frames'[Len(frames)] = f
           /\ \A i \in 1 .. Len(frames) - 1 : frames'[i] = frames[i]
<1> DEFINE c == Callers
<1>1. /\ Len(frames) \in Nat \ {0} /\ c \in Seq(Frame) /\ Len(c) = Len(frames) - 1
      /\ \A i \in 1 .. Len(frames) - 1 : c[i] = frames[i]
  BY TopIsFrame
<1>2. frames' = Append(c, f)
  OBVIOUS
<1> HIDE DEF c
<1> QED BY <1>1, <1>2

\* Chain speaks of messages only: it survives a step that keeps those of the frames it keeps.
LEMMA ChainKept ==
    ASSUME TypeOK, Chain, Len(frames') \in 0 .. Len(frames),
           \A i \in 1 .. Len(frames') : frames'[i].msg = frames[i].msg
    PROVE  Chain'
<1>1. Len(frames) \in Nat
  BY DEF TypeOK
<1>2. Len(frames') \in Nat /\ Len(frames') <= Len(frames)
  BY <1>1
<1>3. DepthBounded'
  <2> SUFFICES ASSUME NEW i \in 1 .. Len(frames')
               PROVE  /\ frames'[i].msg.depth = frames'[1].msg.depth + i - 1
                      /\ frames'[i].msg.depth <= MaxDepth
    BY DEF DepthBounded
  <2>1. i \in 1 .. Len(frames) /\ 1 \in 1 .. Len(frames')
    BY <1>1, <1>2
  <2> QED BY <2>1 DEF Chain, DepthBounded
<1>4. StaticInherited'
  <2> SUFFICES ASSUME NEW i \in 1 .. Len(frames'), NEW j \in 1 .. Len(frames'), i < j,
                      frames'[i].msg.static
               PROVE  frames'[j].msg.static /\ frames'[j].msg.value = 0
    BY DEF StaticInherited
  <2>1. i \in 1 .. Len(frames) /\ j \in 1 .. Len(frames)
    BY <1>1, <1>2
  <2> QED BY <2>1 DEF Chain, StaticInherited
<1> QED BY <1>3, <1>4 DEF Chain

----------------------------------------------------------------------------
\* What an instruction does to the world besides its frame.
LEMMA DispatchKeepsWorld ==
    ASSUME TypeOK, Dispatch \/ Quiet, UNCHANGED storage
    PROVE  WorldOK'
BY DEF TypeOK, WorldOK, Dispatch, Quiet

\* The running frame goes on.
LEMMA ContinueKeeps ==
    ASSUME IInv, ctl = "exec", WorldOK',
           NEW f \in Frame, f.msg = TopFrame.msg, f.callgas = 0, f.gas <= TopFrame.gas,
           Len(f.stack) <= StackLimit, f.msize <= MemLimit,
           Continue(f)
    PROVE  IInv'
<1> DEFINE n == Len(frames)
<1>1. frames \in Seq(Frame) /\ frames # <<>> /\ n \in Nat \ {0} /\ TopFrame \in Frame
      /\ TopFrame = frames[n]
  BY TopIsFrame DEF IInv, ControlInv, TypeOK, TopFrame
<1>2. /\ frames' \in Seq(Frame) /\ frames' # <<>> /\ Len(frames') = n
      /\ frames'[n] = f /\ \A i \in 1 .. n - 1 : frames'[i] = frames[i]
  BY <1>1, TopReplaced DEF IInv, Continue
<1>3. UNCHANGED <<ctl, call, ret, buffers>>
  BY DEF Continue
<1> HIDE DEF n
<1>4. TypeOK'
  <2>1. \A i \in 1 .. n : Len(frames'[i].stack) <= StackLimit /\ frames'[i].msize <= MemLimit
    BY <1>1, <1>2 DEF IInv, TypeOK, n
  <2> QED BY <1>2, <1>3, <2>1 DEF IInv, TypeOK
<1>5. WithinAllowance'
  <2>1. frames[n].gas + frames[n].callgas <= frames[n].msg.gas
    BY <1>1 DEF IInv, WithinAllowance, n
  <2>2. f.gas + f.callgas <= f.msg.gas
    <3>1. f.gas \in Nat /\ f.msg.gas \in Int /\ TopFrame.gas \in Nat /\ TopFrame.callgas \in Nat
      BY <1>1, FrameFields, MessageFields
    <3>2. TopFrame.gas + TopFrame.callgas <= TopFrame.msg.gas
      BY <1>1, <2>1
    <3> QED BY <3>1, <3>2
  <2>3. \A i \in 1 .. n : frames'[i].gas + frames'[i].callgas <= frames'[i].msg.gas
    BY <1>1, <1>2, <2>2 DEF IInv, WithinAllowance, n
  <2> QED BY <1>2, <2>3 DEF WithinAllowance
<1>6. Links'
  <2>1. \A i \in 1 .. n - 1 : SentBy(frames[i], frames[i + 1].msg) /\ Room(frames[i])
    BY DEF IInv, Links, n
  <2>2. \A i \in 1 .. n : frames'[i].msg = frames[i].msg
    BY <1>1, <1>2
  <2>3. \A i \in 1 .. n - 1 : i + 1 \in 1 .. n
    BY <1>1
  <2>4. \A i \in 1 .. n - 1 : SentBy(frames'[i], frames'[i + 1].msg) /\ Room(frames'[i])
    BY <1>2, <2>1, <2>2, <2>3
  <2> QED BY <1>2, <2>4 DEF Links
<1>7. ControlInv' /\ BuffersReleased'
  BY <1>1, <1>2, <1>3 DEF IInv, ControlInv, BuffersReleased, TopFrame
<1>8. Chain'
  <2>1. Len(frames') \in 0 .. Len(frames) /\ \A i \in 1 .. Len(frames') : frames'[i].msg = frames[i].msg
    BY <1>1, <1>2 DEF n
  <2> QED BY <2>1, ChainKept DEF IInv
<1> QED BY <1>4, <1>5, <1>6, <1>7, <1>8 DEF IInv

\* A result leaves the frame: what is below it is unchanged and waits for the result.
LEMMA ReturnKeeps ==
    ASSUME IInv, ctl = "exec", WorldOK',
           NEW status \in Status, NEW gas \in Int, NEW size \in Nat,
           Return(status, gas, size)
    PROVE  IInv'
<1> DEFINE n == Len(frames)
<1>1. frames # <<>> /\ n \in Nat \ {0}
  BY TopIsFrame DEF IInv, ControlInv
<1>2. /\ frames' \in Seq(Frame) /\ Len(frames') = n - 1
      /\ \A i \in 1 .. n - 1 : frames'[i] = frames[i]
  BY <1>1, TopIsFrame DEF IInv, Return
<1>3. /\ ctl' = "return" /\ UNCHANGED call
      /\ ret' = [status |-> status, gas |-> gas, size |-> size, owned |-> size # 0]
      /\ buffers = 0 /\ buffers' = (IF size # 0 THEN 1 ELSE 0)
  BY DEF IInv, BuffersReleased, TypeOK, Return, MakeResult
<1>4. ret' \in Result /\ ret'.owned = (size # 0)
  BY <1>3 DEF Result
<1> HIDE DEF n
<1>5. TypeOK'
  <2>1. \A i \in 1 .. n - 1 : Len(frames'[i].stack) <= StackLimit /\ frames'[i].msize <= MemLimit
    BY <1>1, <1>2 DEF IInv, TypeOK, n
  <2> QED BY <1>2, <1>3, <1>4, <2>1 DEF IInv, TypeOK, Control
<1>6. WithinAllowance' /\ Links'
  <2>1. \A i \in 1 .. n - 1 : frames[i].gas + frames[i].callgas <= frames[i].msg.gas
    BY <1>1 DEF IInv, WithinAllowance, n
  <2>2. \A i \in 1 .. n - 2 : SentBy(frames[i], frames[i + 1].msg) /\ Room(frames[i])
    BY <1>1 DEF IInv, Links, n
  <2>3. WithinAllowance'
    BY <1>1, <1>2, <2>1 DEF WithinAllowance
  <2>4. \A i \in 1 .. n - 2 : i \in 1 .. n - 1 /\ i + 1 \in 1 .. n - 1
    BY <1>1
  <2>5. \A i \in 1 .. n - 2 : SentBy(frames'[i], frames'[i + 1].msg) /\ Room(frames'[i])
    BY <1>2, <2>2, <2>4
  <2>6. Len(frames') - 1 = n - 2
    BY <1>1, <1>2
  <2>7. Links'
    BY <2>5, <2>6 DEF Links
  <2> QED BY <2>3, <2>7
<1>7. ControlInv'
  <2>1. frames' # <<>> => Len(frames') \in 1 .. n - 1
    BY <1>1, <1>2, EmptySeq
  <2>2. frames' # <<>> => Room(frames[n - 1])
    BY <1>1, <1>2, <2>1 DEF IInv, Links, n
  <2>3. frames' # <<>> => TopFrame' = frames[n - 1]
    BY <1>1, <1>2, <2>1 DEF TopFrame
  <2> QED BY <1>3, <2>2, <2>3 DEF ControlInv
<1>8. BuffersReleased'
  BY <1>3, <1>4 DEF BuffersReleased
<1>9. Chain'
  <2>1. Len(frames') \in 0 .. Len(frames) /\ \A i \in 1 .. Len(frames') : frames'[i].msg = frames[i].msg
    BY <1>1, <1>2 DEF n
  <2> QED BY <2>1, ChainKept DEF IInv
<1> QED BY <1>5, <1>6, <1>7, <1>8, <1>9 DEF IInv

----------------------------------------------------------------------------
\* What holds of the running frame when an instruction has its operands.
LEMMA ReadyFacts ==
    ASSUME IInv, NEW op \in Op, Ready(op)
    PROVE  /\ ctl = "exec" /\ frames # <<>>
           /\ TopFrame \in Frame /\ TopFrame.gas \in Nat /\ TopFrame.gas >= 1
           /\ TopFrame.callgas = 0
           /\ TopFrame.stack \in Seq(Word) /\ Len(TopFrame.stack) \in Nat
           /\ Len(TopFrame.stack) <= StackLimit
           /\ TopFrame.msize \in Nat /\ TopFrame.msize <= MemLimit
           /\ Len(TopFrame.stack) >= Pops[op]
           /\ Len(TopFrame.stack) - Pops[op] + Pushes[op] <= StackLimit
BY TopIsFrame, FrameFields DEF IInv, ControlInv, Ready, Paid, Dispatching

\* The cell an instruction is dispatched on.
LEMMA CellIsTyped ==
    ASSUME IInv, Dispatching
    PROVE  CellAt(TopFrame) \in Cell
<1>1. TopFrame \in Frame /\ code \in Codes
  BY TopIsFrame DEF IInv, ControlInv, Dispatching, TypeOK, WorldOK
<1>2. TopFrame.msg.recipient \in Word /\ TopFrame.pc \in Nat \ {0}
  BY <1>1, FrameFields, MessageFields
<1>3. code \in [Word -> Seq(Cell)]
  BY <1>1, ConstantsAssumption
<1>4. CodeOf(TopFrame) \in Seq(Cell)
  BY <1>2, <1>3 DEF CodeOf
<1>5. TopFrame.pc \in 1 .. Len(CodeOf(TopFrame))
  BY <1>2, <1>4 DEF Dispatching, AtEnd
<1> QED BY <1>4, <1>5, ElementOfSeq DEF CellAt

\* Updates of an activation, for any sets its fields range over.
LEMMA RecordUpdate ==
    ASSUME NEW M, NEW P, NEW G, NEW S, NEW Z, NEW C,
           NEW f \in [msg : M, pc : P, gas : G, stack : S, msize : Z, callgas : C],
           NEW p \in P, NEW n \in G, NEW s \in S, NEW m \in Z, NEW c \in C
    PROVE  LET R == [msg : M, pc : P, gas : G, stack : S, msize : Z, callgas : C]
               advanced == [f EXCEPT !.gas = n, !.pc = p, !.stack = s, !.msize = m]
               lending == [f EXCEPT !.gas = n, !.callgas = c]
               resumed == [f EXCEPT !.gas = n, !.callgas = c, !.stack = s]
           IN  /\ advanced \in R /\ advanced.msg = f.msg /\ advanced.gas = n
               /\ advanced.pc = p /\ advanced.stack = s /\ advanced.msize = m
               /\ advanced.callgas = f.callgas
               /\ lending \in R /\ lending.msg = f.msg /\ lending.gas = n
               /\ lending.callgas = c /\ lending.stack = f.stack /\ lending.msize = f.msize
               /\ resumed \in R /\ resumed.msg = f.msg /\ resumed.gas = n
               /\ resumed.callgas = c /\ resumed.stack = s /\ resumed.msize = f.msize
OBVIOUS

LEMMA AdvancedFrame ==
    ASSUME NEW f \in Frame, f.gas >= 1, NEW k \in Nat, NEW s \in Seq(Word), NEW m \in Nat
    PROVE  /\ Advanced(f, k, s, m) \in Frame /\ Advanced(f, k, s, m).msg = f.msg
           /\ Advanced(f, k, s, m).gas = f.gas - 1
           /\ Advanced(f, k, s, m).callgas = f.callgas
           /\ Advanced(f, k, s, m).stack = s /\ Advanced(f, k, s, m).msize = m
<1>1. f.gas - 1 \in Nat /\ f.pc + 1 + k \in Nat \ {0}
  BY FrameFields
<1> QED BY <1>1, RecordUpdate, FrameFields DEF Advanced, Frame

LEMMA SuspendedFrame ==
    ASSUME NEW f \in Frame, NEW lent \in Nat, f.gas - 1 >= lent,
           NEW s \in Seq(Word), NEW m \in Nat
    PROVE  /\ Suspended(f, lent, s, m) \in Frame /\ Suspended(f, lent, s, m).msg = f.msg
           /\ Suspended(f, lent, s, m).gas = f.gas - 1 - lent
           /\ Suspended(f, lent, s, m).callgas = lent
           /\ Suspended(f, lent, s, m).stack = s /\ Suspended(f, lent, s, m).msize = m
<1> DEFINE g == Advanced(f, 0, s, m)
<1>1. g \in Frame /\ g.msg = f.msg /\ g.gas = f.gas - 1 /\ g.stack = s /\ g.msize = m
  BY AdvancedFrame, FrameFields
<1> HIDE DEF g
<1>2. g.gas - lent \in Nat
  BY <1>1, FrameFields
<1>3. LET h == [g EXCEPT !.gas = g.gas - lent, !.callgas = lent]
      IN  /\ h \in Frame /\ h.msg = g.msg /\ h.gas = g.gas - lent
          /\ h.callgas = lent /\ h.stack = g.stack /\ h.msize = g.msize
  BY <1>1, <1>2, RecordUpdate, FrameFields DEF Frame
<1>4. Suspended(f, lent, s, m) = [g EXCEPT !.gas = g.gas - lent, !.callgas = lent]
  BY DEF Suspended, g
<1> QED BY <1>1, <1>3, <1>4

LEMMA ResumedFrame ==
    ASSUME NEW f \in Frame, NEW back \in Nat, NEW w \in Word
    PROVE  /\ Resumed(f, back, w) \in Frame /\ Resumed(f, back, w).msg = f.msg
           /\ Resumed(f, back, w).gas = f.gas + back
           /\ Resumed(f, back, w).callgas = 0
           /\ Resumed(f, back, w).stack = Append(f.stack, w)
           /\ Resumed(f, back, w).msize = f.msize
<1>1. f.gas + back \in Nat /\ Append(f.stack, w) \in Seq(Word)
  BY FrameFields
<1> QED BY <1>1, RecordUpdate, FrameFields DEF Resumed, Frame

\* An instruction advances the running frame.
LEMMA AdvanceKeeps ==
    ASSUME IInv, NEW op \in Op, Ready(op), WorldOK',
           NEW k \in Nat, NEW s \in Seq(Word), Len(s) <= StackLimit,
           NEW m \in Nat, m <= MemLimit,
           Continue(Advanced(TopFrame, k, s, m))
    PROVE  IInv'
<1> DEFINE g == Advanced(TopFrame, k, s, m)
<1>1. g \in Frame /\ g.msg = TopFrame.msg /\ g.callgas = 0 /\ g.gas <= TopFrame.gas
      /\ g.stack = s /\ g.msize = m
  <2>1. TopFrame \in Frame /\ TopFrame.gas \in Nat /\ TopFrame.gas >= 1 /\ TopFrame.callgas = 0
    BY ReadyFacts
  <2> QED BY <2>1, AdvancedFrame
<1>2. ctl = "exec"
  BY ReadyFacts
<1>3. Continue(g)
  OBVIOUS
<1> HIDE DEF g
<1> QED BY <1>1, <1>2, <1>3, ContinueKeeps

\* An instruction that replaces its operands by the words it pushes.
LEMMA PushKeeps ==
    ASSUME IInv, NEW op \in Op, Ready(op), Pops[op] \in Nat,
           NEW ws \in Seq(Word), Len(ws) = Pushes[op],
           Push(op, ws), Dispatch
    PROVE  IInv'
<1> DEFINE s == Popped(TopFrame, Pops[op]) \o ws
           g == Advanced(TopFrame, 0, s, TopFrame.msize)
<1>1. s \in Seq(Word) /\ Len(s) <= StackLimit
  <2>1. Popped(TopFrame, Pops[op]) \in Seq(Word)
        /\ Len(Popped(TopFrame, Pops[op])) = Len(TopFrame.stack) - Pops[op]
    <3>1. TopFrame \in Frame /\ Pops[op] <= Len(TopFrame.stack)
      BY ReadyFacts
    <3> QED BY <3>1, PoppedItems
  <2>2. s \in Seq(Word) /\ Len(s) = Len(TopFrame.stack) - Pops[op] + Len(ws)
    <3> HIDE DEF Popped
    <3> PICK below \in Seq(Word) : below = Popped(TopFrame, Pops[op])
      BY <2>1
    <3>1. below \o ws \in Seq(Word) /\ Len(below \o ws) = Len(below) + Len(ws)
      BY ConcatProperties
    <3> QED BY <2>1, <3>1
  <2> QED BY <2>2, ReadyFacts
<1>2. Continue(g) /\ UNCHANGED storage
  BY DEF Push
<1> HIDE DEF s
<1>3. WorldOK'
  BY <1>2, DispatchKeepsWorld DEF IInv
<1> HIDE DEF g
<1> QED BY <1>1, <1>2, <1>3, ReadyFacts, AdvanceKeeps DEF g

----------------------------------------------------------------------------
\* The common failures.
LEMMA FailKeeps ==
    ASSUME IInv, ctl = "exec", WorldOK', NEW status \in Status, Fail(status)
    PROVE  IInv'
BY ReturnKeeps DEF Fail

LEMMA FailuresKeep ==
    ASSUME IInv, OutOfGas \/ StackUnderflow \/ StackOverflow \/ Undefined
    PROVE  IInv'
<1>1. WorldOK' /\ ctl = "exec"
  BY DispatchKeepsWorld DEF IInv, OutOfGas, StackUnderflow, StackOverflow, Undefined, Ready,
     Paid, Dispatching
<1>2. \E status \in Status : Fail(status)
  BY DEF OutOfGas, StackUnderflow, StackOverflow, Undefined, Status
<1> QED BY <1>1, <1>2, FailKeeps

\* Instructions that only move words.
LEMMA PopsAndPushes ==
    /\ Pops["ADD"] = 2 /\ Pushes["ADD"] = 1
    /\ Pops["ADDRESS"] = 0 /\ Pushes["ADDRESS"] = 1
    /\ Pops["CALLDATALOAD"] = 1 /\ Pushes["CALLDATALOAD"] = 1
    /\ Pops["NUMBER"] = 0 /\ Pushes["NUMBER"] = 1
    /\ Pops["MSTORE"] = 2 /\ Pushes["MSTORE"] = 0
    /\ Pops["SLOAD"] = 1 /\ Pushes["SLOAD"] = 1
    /\ Pops["SSTORE"] = 2 /\ Pushes["SSTORE"] = 0
    /\ Pops["MSIZE"] = 0 /\ Pushes["MSIZE"] = 1
    /\ Pops["PUSH"] = 0 /\ Pushes["PUSH"] = 1
    /\ Pops["DUP1"] = 1 /\ Pushes["DUP1"] = 2
    /\ Pops["CALL"] = 3 /\ Pushes["CALL"] = 0
    /\ Pops["RETURN"] = 2 /\ Pops["REVERT"] = 2
    /\ Pops["STOP"] = 0 /\ Pops["UNDEFINED"] = 0
    /\ \A op \in {"ADD", "ADDRESS", "CALLDATALOAD", "NUMBER", "MSTORE", "SLOAD", "SSTORE", "MSIZE",
                  "PUSH", "DUP1", "CALL", "RETURN", "REVERT", "STOP", "UNDEFINED"} : op \in Op
BY DEF Pops, Pushes, Op

LEMMA PushOneKeeps ==
    ASSUME IInv, NEW op \in Op, Ready(op), Pops[op] \in Nat, Pushes[op] = 1,
           NEW w \in Word, Push(op, <<w>>), Dispatch
    PROVE  IInv'
<1>1. <<w>> \in Seq(Word) /\ Len(<<w>>) = 1
  OBVIOUS
<1> QED BY <1>1, PushKeeps

LEMMA WordsKeep ==
    ASSUME IInv, Add \/ Address \/ CallDataLoad \/ Number \/ SLoad \/ MSize \/ Dup1
    PROVE  IInv'
<1>1. CASE Add
  <2> DEFINE w == (Low(Arg(TopFrame, 1)) + Low(Arg(TopFrame, 2))) % U32
  <2>1. Ready("ADD") /\ Push("ADD", <<w>>) /\ Dispatch
    BY <1>1 DEF Add
  <2>2. Arg(TopFrame, 1) \in Word /\ Arg(TopFrame, 2) \in Word
    BY <2>1, ReadyFacts, PopsAndPushes, ArgIsWord
  <2>3. Low(Arg(TopFrame, 1)) + Low(Arg(TopFrame, 2)) \in Nat
    BY <2>2, LowIsWord DEF Word
  <2>4. w \in Word
    BY <2>3, LowIsWord DEF Low
  <2> HIDE DEF w
  <2>9. "ADD" \in Op /\ Pops["ADD"] \in Nat /\ Pushes["ADD"] = 1
    BY PopsAndPushes
  <2> QED BY <2>1, <2>4, <2>9, PushOneKeeps, Zenon
<1>2. CASE Address
  <2>1. TopFrame.msg.recipient \in Word
    BY <1>2, ReadyFacts, PopsAndPushes, FrameFields, MessageFields DEF Address
  <2>9. "ADDRESS" \in Op /\ Pops["ADDRESS"] \in Nat /\ Pushes["ADDRESS"] = 1
    BY PopsAndPushes
  <2> QED BY <1>2, <2>1, <2>9, PushOneKeeps, Zenon DEF Address
<1>3. CASE CallDataLoad
  <2>1. PICK w \in IF Low(Arg(TopFrame, 1)) < TopFrame.msg.insize THEN CallData ELSE {0} :
             Push("CALLDATALOAD", <<w>>)
    BY <1>3 DEF CallDataLoad
  <2>2. w \in Word
    BY <2>1, ConstantsAssumption DEF Word
  <2>9. "CALLDATALOAD" \in Op /\ Pops["CALLDATALOAD"] \in Nat /\ Pushes["CALLDATALOAD"] = 1
    BY PopsAndPushes
  <2> QED BY <1>3, <2>1, <2>2, <2>9, PushOneKeeps, Zenon DEF CallDataLoad
<1>4. CASE Number
  <2>1. Low(BlockNumber) \in Word
    BY LowIsWord, ConstantsAssumption
  <2>9. "NUMBER" \in Op /\ Pops["NUMBER"] \in Nat /\ Pushes["NUMBER"] = 1
    BY PopsAndPushes
  <2> QED BY <1>4, <2>1, <2>9, PushOneKeeps, Zenon DEF Number
<1>5. CASE SLoad
  <2>1. Stored(TopFrame.msg.recipient, Arg(TopFrame, 1)) \in Word
    BY ConstantsAssumption DEF Stored, IInv, TypeOK, WorldOK, Word
  <2>9. "SLOAD" \in Op /\ Pops["SLOAD"] \in Nat /\ Pushes["SLOAD"] = 1
    BY PopsAndPushes
  <2> QED BY <1>5, <2>1, <2>9, PushOneKeeps, Zenon DEF SLoad
<1>6. CASE MSize
  <2>1. Low(TopFrame.msize) \in Word
    BY <1>6, ReadyFacts, PopsAndPushes, LowIsWord DEF MSize
  <2>9. "MSIZE" \in Op /\ Pops["MSIZE"] \in Nat /\ Pushes["MSIZE"] = 1
    BY PopsAndPushes
  <2> QED BY <1>6, <2>1, <2>9, PushOneKeeps, Zenon DEF MSize
<1>7. CASE Dup1
  <2>1. Arg(TopFrame, 1) \in Word
    BY <1>7, ReadyFacts, PopsAndPushes, ArgIsWord DEF Dup1
  <2>2. <<Arg(TopFrame, 1), Arg(TopFrame, 1)>> \in Seq(Word)
        /\ Len(<<Arg(TopFrame, 1), Arg(TopFrame, 1)>>) = 2
    BY <2>1
  <2>9. "DUP1" \in Op /\ Pops["DUP1"] \in Nat /\ Pushes["DUP1"] = 2
    BY PopsAndPushes
  <2> QED BY <1>7, <2>2, <2>9, PushKeeps, Zenon DEF Dup1
<1> QED BY <1>1, <1>2, <1>3, <1>4, <1>5, <1>6, <1>7

----------------------------------------------------------------------------
\* PUSH1..PUSH64, the memory and the storage writes.
LEMMA PushNKeeps ==
    ASSUME IInv, PushN
    PROVE  IInv'
<1> DEFINE c == CellAt(TopFrame)
           s == Append(TopFrame.stack, c.word)
<1>1. "PUSH" \in Op /\ Pops["PUSH"] = 0 /\ Pushes["PUSH"] = 1
  BY PopsAndPushes
<1>2. Ready("PUSH") /\ Continue(Advanced(TopFrame, c.n, s, TopFrame.msize)) /\ Dispatch
      /\ UNCHANGED storage
  BY DEF PushN
<1>3. c.n \in Nat /\ c.word \in Word
  BY <1>1, <1>2, CellIsTyped DEF Cell, Ready, Paid
<1>4. TopFrame.stack \in Seq(Word) /\ Len(TopFrame.stack) + 1 <= StackLimit
      /\ TopFrame.msize \in Nat /\ TopFrame.msize <= MemLimit
  BY <1>1, <1>2, ReadyFacts
<1> HIDE DEF c
<1>5. s \in Seq(Word) /\ Len(s) <= StackLimit
  BY <1>3, <1>4
<1> HIDE DEF s
<1>6. WorldOK'
  BY <1>2, DispatchKeepsWorld DEF IInv
<1> QED BY <1>1, <1>2, <1>3, <1>4, <1>5, <1>6, AdvanceKeeps

\* A region that fits does not grow the memory beyond its buffer.
LEMMA GrownFits ==
    ASSUME NEW msize \in Nat, msize <= MemLimit, NEW offset \in Nat, NEW size \in Nat,
           Fits(offset, size)
    PROVE  Grown(msize, offset, size) \in Nat /\ Grown(msize, offset, size) <= MemLimit
BY ConstantsAssumption DEF Grown, GreaterOf, Fits

LEMMA MStoreKeeps ==
    ASSUME IInv, MStore
    PROVE  IInv'
<1> DEFINE index == Low(Arg(TopFrame, 1))
           s == Popped(TopFrame, 2)
           m == Grown(TopFrame.msize, index, WordSize)
<1>1. "MSTORE" \in Op /\ Pops["MSTORE"] = 2 /\ Pushes["MSTORE"] = 0 /\ "FAILURE" \in Status
  BY PopsAndPushes DEF Status
<1>2. /\ Ready("MSTORE") /\ Dispatch /\ UNCHANGED storage
      /\ \/ Fits(index, WordSize) /\ Continue(Advanced(TopFrame, 0, s, m))
         \/ Fail("FAILURE")
  BY DEF MStore
<1>3. ctl = "exec" /\ WorldOK'
  BY <1>1, <1>2, ReadyFacts, DispatchKeepsWorld DEF IInv
<1>4. TopFrame \in Frame /\ 2 <= Len(TopFrame.stack) /\ Len(TopFrame.stack) <= StackLimit
      /\ Len(TopFrame.stack) \in Nat /\ TopFrame.msize \in Nat /\ TopFrame.msize <= MemLimit
  BY <1>1, <1>2, ReadyFacts
<1>5. s \in Seq(Word) /\ Len(s) <= StackLimit
  BY <1>4, PoppedItems, ConstantsAssumption
<1>6. index \in Nat
  <2>1. Arg(TopFrame, 1) \in Nat
    BY <1>4, ArgIsWord DEF Word
  <2> QED BY <2>1, LowIsWord
<1> HIDE DEF index, s
<1>7. CASE Fits(index, WordSize) /\ Continue(Advanced(TopFrame, 0, s, m))
  <2>1. m \in Nat /\ m <= MemLimit
    BY <1>4, <1>6, <1>7, GrownFits, ConstantsAssumption
  <2> HIDE DEF m
  <2> QED BY <1>1, <1>2, <1>3, <1>5, <1>7, <2>1, AdvanceKeeps
<1> QED BY <1>1, <1>2, <1>3, <1>7, FailKeeps

LEMMA SStoreKeeps ==
    ASSUME IInv, SStore
    PROVE  IInv'
<1> DEFINE key == Arg(TopFrame, 1)
           value == Arg(TopFrame, 2)
           account == TopFrame.msg.recipient
           s == Popped(TopFrame, 2)
<1>1. /\ "SSTORE" \in Op /\ Pops["SSTORE"] = 2 /\ Pushes["SSTORE"] = 0
      /\ "STATIC_MODE_VIOLATION" \in Status
  BY PopsAndPushes DEF Status
<1>2. /\ Ready("SSTORE") /\ Dispatch
      /\ \/ Fail("STATIC_MODE_VIOLATION") /\ UNCHANGED storage
         \/ /\ Continue(Advanced(TopFrame, 0, s, TopFrame.msize))
            /\ Store(account, key, value)
  BY DEF SStore
<1>3. TopFrame \in Frame /\ 2 <= Len(TopFrame.stack) /\ Len(TopFrame.stack) <= StackLimit
      /\ Len(TopFrame.stack) \in Nat /\ TopFrame.msize \in Nat /\ TopFrame.msize <= MemLimit
      /\ ctl = "exec"
  BY <1>1, <1>2, ReadyFacts
<1>4. s \in Seq(Word) /\ Len(s) <= StackLimit
  BY <1>3, PoppedItems, ConstantsAssumption
<1>5. key \in Word /\ value \in Word /\ account \in Word
  BY <1>3, ArgIsWord, FrameFields, MessageFields
<1> HIDE DEF s, key, value, account
<1>6. CASE Fail("STATIC_MODE_VIOLATION") /\ UNCHANGED storage
  <2>1. WorldOK'
    BY <1>2, <1>6, DispatchKeepsWorld DEF IInv
  <2> QED BY <1>1, <1>3, <1>6, <2>1, FailKeeps
<1>7. CASE Continue(Advanced(TopFrame, 0, s, TopFrame.msize)) /\ Store(account, key, value)
  <2>1. DOMAIN storage' \subseteq Word \X Word /\ storage' \in [DOMAIN storage' -> Word]
    BY <1>5, <1>7 DEF Store, IInv, TypeOK, WorldOK
  <2>2. WorldOK'
    BY <1>2, <2>1 DEF IInv, TypeOK, WorldOK, Dispatch
  <2> QED BY <1>1, <1>2, <1>3, <1>4, <1>7, <2>2, AdvanceKeeps
<1> QED BY <1>2, <1>6, <1>7

----------------------------------------------------------------------------
\* The ends of an activation.
LEMMA EndsKeep ==
    ASSUME IInv, Stop \/ EndOfCode \/ OpReturn \/ OpRevert
    PROVE  IInv'
<1>1. {"SUCCESS", "REVERT", "FAILURE", "OUT_OF_MEMORY"} \subseteq Status
  BY DEF Status
<1>2. ctl = "exec" /\ TopFrame \in Frame /\ TopFrame.gas \in Int /\ WorldOK'
  <2>1. ctl = "exec" /\ (Dispatch \/ Quiet) /\ UNCHANGED storage
    BY DEF Stop, EndOfCode, OpReturn, OpRevert, ReturnData, Ready, Paid, Dispatching
  <2> QED BY <2>1, DispatchKeepsWorld, TopIsFrame, FrameFields DEF IInv, ControlInv
<1>3. CASE Stop \/ EndOfCode
  <2>1. PICK gas \in Int : Return("SUCCESS", gas, 0)
    BY <1>2, <1>3 DEF Stop, EndOfCode
  <2> QED BY <1>1, <1>2, <2>1, ReturnKeeps
<1>4. ASSUME NEW op \in {"RETURN", "REVERT"}, NEW status \in {"SUCCESS", "REVERT"},
             ReturnData(op, status)
      PROVE  IInv'
  <2> DEFINE size == Low(Arg(TopFrame, 2))
  <2>1. op \in Op /\ Pops[op] = 2
    BY PopsAndPushes
  <2>2. Arg(TopFrame, 2) \in Word
    BY <1>2, <1>4, <2>1, ReadyFacts, ArgIsWord DEF ReturnData
  <2>3. size \in Nat
    BY <2>2, LowIsWord DEF Word
  <2>4. \/ Fail("FAILURE") \/ Fail("OUT_OF_MEMORY") \/ Return(status, TopFrame.gas - 1, size)
    BY <1>4 DEF ReturnData
  <2> HIDE DEF size
  <2>5. CASE Return(status, TopFrame.gas - 1, size)
    BY <1>1, <1>2, <2>3, <2>5, ReturnKeeps
  <2> QED BY <1>1, <1>2, <2>4, <2>5, FailKeeps
<1> QED BY <1>3, <1>4 DEF OpReturn, OpRevert

----------------------------------------------------------------------------
\* CALL.
LEMMA CallRefusedKeeps ==
    ASSUME IInv, CallRefused
    PROVE  IInv'
<1>1. ctl = "exec" /\ WorldOK'
  BY DispatchKeepsWorld DEF IInv, CallRefused, CallAllowed, Ready, Paid, Dispatching
<1>2. \E status \in Status : Fail(status)
  BY DEF CallRefused, Status
<1> QED BY <1>1, <1>2, FailKeeps

\* The message made for the callee is within the caller's means and one deeper.
LEMMA CallMessageFacts ==
    ASSUME NEW f \in Frame, f.gas >= 1, f.msg.depth < MaxDepth, CallArgs <= Len(f.stack),
           f.msg.static => Arg(f, 3) = 0
    PROVE  /\ CallMessage(f) \in Message
           /\ CallMessage(f).gas \in Nat /\ CallMessage(f).gas <= f.gas - 1
           /\ CallMessage(f).depth = f.msg.depth + 1
           /\ f.msg.static => CallMessage(f).static /\ CallMessage(f).value = 0
<1>1. \A i \in 1 .. 7 : Arg(f, i) \in Word
  <2>1. Len(f.stack) \in Nat /\ 7 <= Len(f.stack)
    BY FrameFields DEF CallArgs
  <2> QED BY <2>1, ArgIsWord
<1>2. Low(Arg(f, 1)) \in Nat /\ Low(Arg(f, 5)) \in Nat /\ f.gas - 1 \in Nat
  <2>1. Arg(f, 1) \in Nat /\ Arg(f, 5) \in Nat
    BY <1>1 DEF Word
  <2>2. Low(Arg(f, 1)) \in Nat /\ Low(Arg(f, 5)) \in Nat
    BY <2>1, LowIsWord
  <2> QED BY <2>2, FrameFields
<1>3. f.msg.depth + 1 \in 0 .. MaxDepth /\ f.msg.recipient \in Word
      /\ f.msg.static \in BOOLEAN
  BY FrameFields, MessageFields, ConstantsAssumption
<1>4. LesserOf(Low(Arg(f, 1)), f.gas - 1) \in Nat
      /\ LesserOf(Low(Arg(f, 1)), f.gas - 1) <= f.gas - 1
  BY <1>2 DEF LesserOf
<1> QED BY <1>1, <1>2, <1>3, <1>4 DEF CallMessage, Message

LEMMA CallHostKeeps ==
    ASSUME IInv, CallHost
    PROVE  IInv'
<1> DEFINE f == TopFrame
           inner == CallMessage(f)
           s == Popped(f, CallArgs)
           m1 == Grown(f.msize, Low(Arg(f, 4)), Low(Arg(f, 5)))
           m2 == Grown(m1, Low(Arg(f, 6)), Low(Arg(f, 7)))
           g == Suspended(f, inner.gas, s, m2)
           n == Len(frames)
<1>1. "CALL" \in Op /\ Pops["CALL"] = 3 /\ Pushes["CALL"] = 0
  BY PopsAndPushes
<1>2. /\ Ready("CALL") /\ f.msg.depth < MaxDepth /\ (f.msg.static => Arg(f, 3) = 0)
      /\ CallArgs <= Len(f.stack) /\ Len(f.stack) >= CallArgs /\ CallRegionsFit
      /\ call' = inner /\ frames' = Append(Callers, g)
      /\ ctl' = "host" /\ Dispatch /\ UNCHANGED <<ret, storage, buffers>>
  <2>1. Len(f.stack) >= CallArgs => CallArgs <= Len(f.stack)
    OBVIOUS
  <2> QED BY <2>1 DEF CallHost, CallAllowed, CallValueBanned
<1>3. /\ f \in Frame /\ f.gas \in Nat /\ f.gas >= 1 /\ f.callgas = 0 /\ frames # <<>>
      /\ f.msize \in Nat /\ f.msize <= MemLimit /\ Len(f.stack) \in Nat
      /\ Len(f.stack) <= StackLimit /\ 7 <= Len(f.stack) /\ ctl = "exec" /\ WorldOK'
  BY <1>1, <1>2, ReadyFacts, DispatchKeepsWorld DEF IInv, CallArgs
<1>4. /\ inner \in Message /\ inner.gas \in Nat /\ inner.gas <= f.gas - 1
      /\ inner.depth = f.msg.depth + 1 /\ (f.msg.static => inner.static /\ inner.value = 0)
  BY <1>2, <1>3, CallMessageFacts
<1>5. s \in Seq(Word) /\ Len(s) + 7 <= StackLimit
  BY <1>3, PoppedItems DEF CallArgs
<1>6. m2 \in Nat /\ m2 <= MemLimit
  <2>1. \A i \in 1 .. 7 : Arg(f, i) \in Word
    BY <1>3, ArgIsWord
  <2>2. \A i \in 4 .. 7 : Low(Arg(f, i)) \in Nat
    BY <2>1, LowIsWord DEF Word
  <2>3. m1 \in Nat /\ m1 <= MemLimit
    BY <1>2, <1>3, <2>2, GrownFits DEF CallRegionsFit
  <2> HIDE DEF m1
  <2> QED BY <1>2, <2>2, <2>3, GrownFits DEF CallRegionsFit
<1> HIDE DEF inner, s, m2
<1>7. /\ g \in Frame /\ g.msg = f.msg /\ g.gas = f.gas - 1 - inner.gas
      /\ g.callgas = inner.gas /\ g.stack = s /\ g.msize = m2
  BY <1>3, <1>4, <1>5, <1>6, SuspendedFrame
<1> HIDE DEF g
<1>8. /\ frames' \in Seq(Frame) /\ frames' # <<>> /\ Len(frames') = n /\ n \in Nat \ {0}
      /\ frames'[n] = g /\ \A i \in 1 .. n - 1 : frames'[i] = frames[i]
  BY <1>2, <1>3, <1>7, TopReplaced, TopIsFrame DEF IInv
<1>9. f = frames[n]
  BY DEF TopFrame
<1> HIDE DEF n, f
<1>10. TypeOK'
  <2>1. Len(g.stack) <= StackLimit
    BY <1>5, <1>7, ConstantsAssumption
  <2>2. \A i \in 1 .. n - 1 : Len(frames[i].stack) <= StackLimit /\ frames[i].msize <= MemLimit
    BY <1>8 DEF IInv, TypeOK, n
  <2>3. \A i \in 1 .. n : i \in 1 .. n - 1 \/ i = n
    BY <1>8
  <2>4. \A i \in 1 .. n : Len(frames'[i].stack) <= StackLimit /\ frames'[i].msize <= MemLimit
    BY <1>6, <1>7, <1>8, <2>1, <2>2, <2>3
  <2> QED BY <1>2, <1>3, <1>4, <1>8, <2>4 DEF IInv, TypeOK, Control
<1>11. WithinAllowance'
  <2>1. f.gas + f.callgas <= f.msg.gas /\ f.msg.gas \in Int
    BY <1>3, <1>8, <1>9, FrameFields, MessageFields DEF IInv, WithinAllowance, n
  <2>2. g.gas + g.callgas <= g.msg.gas
    BY <1>3, <1>4, <1>7, <2>1
  <2>3. \A i \in 1 .. n : frames'[i].gas + frames'[i].callgas <= frames'[i].msg.gas
    BY <1>8, <2>2 DEF IInv, WithinAllowance, n
  <2> QED BY <1>8, <2>3 DEF WithinAllowance
<1>12. Links'
  BY <1>7, <1>8, <1>9 DEF IInv, Links, SentBy, Room, n
<1>13. ControlInv'
  <2>1. TopFrame' = g
    BY <1>8 DEF TopFrame
  <2>2. SentBy(g, inner) /\ Room(g)
    BY <1>4, <1>5, <1>7 DEF SentBy, Room, CallArgs
  <2> QED BY <1>2, <1>8, <2>1, <2>2 DEF ControlInv
<1>14. BuffersReleased'
  BY <1>2, <1>3 DEF IInv, BuffersReleased
<1>15. Chain'
  <2>1. Len(frames') \in 0 .. Len(frames) /\ \A i \in 1 .. Len(frames') : frames'[i].msg = frames[i].msg
    BY <1>7, <1>8, <1>9 DEF n
  <2> QED BY <2>1, ChainKept DEF IInv
<1> QED BY <1>10, <1>11, <1>12, <1>13, <1>14, <1>15 DEF IInv

\* The clamp never hands back more than was lent, nor a negative amount.
LEMMA ClampWithin ==
    ASSUME NEW x \in Int, NEW hi \in Nat
    PROVE  Clamp(x, 0, hi) \in Nat /\ Clamp(x, 0, hi) <= hi
BY DEF Clamp

LEMMA ResumeKeeps ==
    ASSUME IInv, Resume
    PROVE  IInv'
<1> DEFINE f == TopFrame
           n == Len(frames)
           flag == IF ret.status = "SUCCESS" THEN 1 ELSE 0
           back == Clamp(ret.gas, 0, f.callgas)
           g == Resumed(f, back, flag)
<1>1. /\ ctl = "return" /\ frames # <<>> /\ n \in Nat \ {0} /\ f \in Frame /\ Room(f)
      /\ f.gas \in Nat /\ f.callgas \in Nat /\ f.stack \in Seq(Word) /\ f.msize <= MemLimit
      /\ ret \in Result /\ WorldOK'
  BY TopIsFrame, FrameFields, DispatchKeepsWorld DEF Resume, IInv, ControlInv, TypeOK
<1>2. Len(f.stack) \in Nat /\ Len(f.stack) < StackLimit /\ ~(Len(f.stack) >= StackLimit)
  BY <1>1, ConstantsAssumption DEF Room, CallArgs
<1>3. /\ frames' = Append(Callers, g) /\ buffers' = buffers - (IF ret.owned THEN 1 ELSE 0)
      /\ ret' = NoResult /\ ctl' = "exec" /\ UNCHANGED call
  BY <1>2 DEF Resume
<1>4. flag \in Word
  BY ConstantsAssumption DEF Word
<1>5. back \in Nat /\ back <= f.callgas
  BY <1>1, ClampWithin DEF Result
<1> HIDE DEF flag, back
<1>6. /\ g \in Frame /\ g.msg = f.msg /\ g.gas = f.gas + back /\ g.callgas = 0
      /\ g.stack = Append(f.stack, flag) /\ g.msize = f.msize
  BY <1>1, <1>4, <1>5, ResumedFrame
<1>7. Len(g.stack) <= StackLimit
  BY <1>1, <1>2, <1>4, <1>6, ConstantsAssumption
<1> HIDE DEF g
<1>8. /\ frames' \in Seq(Frame) /\ frames' # <<>> /\ Len(frames') = n
      /\ frames'[n] = g /\ \A i \in 1 .. n - 1 : frames'[i] = frames[i]
  BY <1>1, <1>3, <1>6, TopReplaced DEF IInv
<1>9. f = frames[n]
  BY DEF TopFrame
<1> HIDE DEF n, f
<1>10. buffers' = 0 /\ ret'.owned = FALSE /\ ret' \in Result
  BY <1>1, <1>3 DEF IInv, BuffersReleased, NoResult, Result, Status
<1>11. TypeOK'
  <2>1. n \in Nat
    BY <1>1
  <2>2. \A i \in 1 .. n : Len(frames[i].stack) <= StackLimit /\ frames[i].msize <= MemLimit
    BY DEF IInv, TypeOK, n
  <2>3. g.msize <= MemLimit
    BY <1>1, <1>6
  <2>4. \A i \in 1 .. n : i \in 1 .. n - 1 \/ i = n
    BY <2>1
  <2>5. \A i \in 1 .. n : Len(frames'[i].stack) <= StackLimit /\ frames'[i].msize <= MemLimit
    BY <1>7, <1>8, <2>2, <2>3, <2>4
  <2> QED BY <1>1, <1>3, <1>8, <1>10, <2>5 DEF IInv, TypeOK, Control
<1>12. WithinAllowance'
  <2>1. f.gas + f.callgas <= f.msg.gas /\ f.msg.gas \in Int
    BY <1>1, <1>9, FrameFields, MessageFields DEF IInv, WithinAllowance, n
  <2>2. g.gas + g.callgas <= g.msg.gas
    BY <1>1, <1>5, <1>6, <2>1
  <2>3. \A i \in 1 .. n : i \in 1 .. n - 1 \/ i = n
    BY <1>1
  <2>4. \A i \in 1 .. n : frames[i].gas + frames[i].callgas <= frames[i].msg.gas
    BY DEF IInv, WithinAllowance, n
  <2>5. \A i \in 1 .. n : frames'[i].gas + frames'[i].callgas <= frames'[i].msg.gas
    BY <1>8, <2>2, <2>3, <2>4
  <2> QED BY <1>8, <2>5 DEF WithinAllowance
<1>13. Links'
  <2>1. \A i \in 1 .. n : i \in 1 .. n - 1 \/ i = n
    BY <1>1
  <2>2. \A i \in 1 .. n : frames'[i].msg = frames[i].msg
    BY <1>6, <1>8, <1>9, <2>1
  <2>3. \A i \in 1 .. n - 1 : SentBy(frames[i], frames[i + 1].msg) /\ Room(frames[i])
    BY DEF IInv, Links, n
  <2>4. \A i \in 1 .. n - 1 : i + 1 \in 1 .. n
    BY <1>1
  <2>5. \A i \in 1 .. n - 1 : SentBy(frames'[i], frames'[i + 1].msg) /\ Room(frames'[i])
    BY <1>8, <2>2, <2>3, <2>4
  <2> QED BY <1>8, <2>5 DEF Links
<1>14. ControlInv'
  BY <1>3, <1>6, <1>8 DEF ControlInv, TopFrame
<1>15. BuffersReleased'
  BY <1>3, <1>10 DEF BuffersReleased
<1>16. Chain'
  <2>1. Len(frames') \in 0 .. Len(frames) /\ \A i \in 1 .. Len(frames') : frames'[i].msg = frames[i].msg
    BY <1>1, <1>6, <1>8, <1>9 DEF n
  <2> QED BY <2>1, ChainKept DEF IInv
<1> QED BY <1>11, <1>12, <1>13, <1>14, <1>15, <1>16 DEF IInv

----------------------------------------------------------------------------
\* The host's steps.
LEMMA NoMessageTyped == NoMessage \in Message /\ NoResult \in Result /\ NoResult.owned = FALSE
BY ConstantsAssumption DEF NoMessage, NoResult, Message, Result, Status, Word

LEMMA HostKeeps ==
    ASSUME IInv, Start \/ HostAnswers \/ HostExecutes \/ Deliver
    PROVE  IInv'
<1>0. Chain'
  <2>1. UNCHANGED frames
    BY DEF Start, HostAnswers, HostExecutes, Deliver, Quiet
  <2> QED BY <2>1 DEF IInv, Chain, DepthBounded, StaticInherited
<1>1. CASE Start
  <2>1. PICK m \in Messages : call' = m /\ allowance' = GreaterOf(m.gas, 0)
    BY <1>1 DEF Start
  <2>2. call' \in Message /\ allowance' \in Nat
    BY <2>1, ConstantsAssumption, MessageFields DEF GreaterOf
  <2>3. runs' \in 0 .. MaxRuns
    BY <1>1, ConstantsAssumption DEF Start, IInv, TypeOK, WorldOK
  <2>4. frames = <<>> /\ frames' = <<>>
    BY <1>1 DEF Start, IInv, ControlInv
  <2> QED BY <1>0, <1>1, <2>2, <2>3, <2>4 DEF Start, IInv, TypeOK, WorldOK, WithinAllowance, Links,
          ControlInv, BuffersReleased, Control
<1>2. CASE HostAnswers
  <2>1. PICK r \in HostResults : ret' = r /\ buffers' = buffers + (IF r.owned THEN 1 ELSE 0)
    BY <1>2 DEF HostAnswers
  <2>2. ret' \in Result /\ buffers = 0
    BY <1>2, <2>1, ConstantsAssumption DEF HostAnswers, IInv, BuffersReleased
  <2>3. WorldOK'
    BY <1>2, DispatchKeepsWorld DEF HostAnswers, IInv
  <2>4. UNCHANGED frames /\ ctl = "host" /\ ctl' = "return" /\ call' \in Message
    BY <1>2, NoMessageTyped DEF HostAnswers
  <2>5. buffers' \in Nat /\ BuffersReleased'
    BY <2>1, <2>2, <2>4 DEF BuffersReleased
  <2>6. TypeOK'
    BY <2>2, <2>3, <2>4, <2>5 DEF IInv, TypeOK, Control
  <2>7. WithinAllowance' /\ Links' /\ ControlInv'
    BY <2>4 DEF IInv, WithinAllowance, Links, ControlInv, TopFrame
  <2> QED BY <1>0, <2>5, <2>6, <2>7 DEF IInv
<1>3. CASE HostExecutes
  <2>1. WorldOK'
    BY <1>3, DispatchKeepsWorld DEF HostExecutes, IInv
  <2> QED BY <1>0, <1>3, <2>1 DEF HostExecutes, IInv, TypeOK, WithinAllowance, Links, ControlInv,
          BuffersReleased, Control, TopFrame
<1>4. CASE Deliver
  <2>1. WorldOK'
    BY <1>4, DispatchKeepsWorld DEF Deliver, IInv
  <2> QED BY <1>0, <1>4, <2>1, NoMessageTyped DEF Deliver, IInv, TypeOK, WithinAllowance, Links,
          ControlInv, BuffersReleased, Control, Result
<1> QED BY <1>1, <1>2, <1>3, <1>4

LEMMA EnterKeeps ==
    ASSUME IInv, Enter
    PROVE  IInv'
<1> DEFINE n == Len(frames)
           f == NewFrame(call)
<1>1. ctl = "invoke" /\ call \in Message /\ call' \in Message /\ UNCHANGED buffers
      /\ buffers = 0 /\ frames \in Seq(Frame) /\ n \in Nat
  BY NoMessageTyped DEF Enter, IInv, TypeOK, BuffersReleased
<1>2. WorldOK'
  BY DispatchKeepsWorld DEF Enter, IInv
<1>3. CASE call.gas < 0 /\ ctl' = "return" /\ ret' = MakeResult("OUT_OF_GAS", 0, 0)
           /\ UNCHANGED frames
  <2>1. ret' \in Result /\ ret'.owned = FALSE
    <3>1. ret' = [status |-> "OUT_OF_GAS", gas |-> 0, size |-> 0, owned |-> FALSE]
      BY <1>3 DEF MakeResult
    <3> QED BY <3>1 DEF Result, Status
  <2>2. frames # <<>> => SentBy(TopFrame, call) /\ TopFrame \in Frame
    BY <1>1, TopIsFrame DEF IInv, ControlInv
  <2>3. frames = <<>>
    BY <1>3, <2>2, FrameFields DEF SentBy
  <2>4. Chain'
    BY <1>3 DEF IInv, Chain, DepthBounded, StaticInherited
  <2> QED BY <1>1, <1>2, <1>3, <2>1, <2>3, <2>4 DEF IInv, TypeOK, WithinAllowance, Links,
          ControlInv, BuffersReleased, Control
<1>4. CASE call.gas >= 0 /\ ctl' = "exec" /\ frames' = Append(frames, f) /\ UNCHANGED ret
  <2>1. /\ f \in Frame /\ f.msg = call /\ f.gas = call.gas /\ f.callgas = 0
        /\ Len(f.stack) <= StackLimit /\ f.msize <= MemLimit
    BY <1>1, <1>4, MessageFields, ConstantsAssumption DEF NewFrame, Frame
  <2> HIDE DEF f
  <2>2. /\ frames' \in Seq(Frame) /\ frames' # <<>> /\ Len(frames') = n + 1
        /\ frames'[n + 1] = f /\ \A i \in 1 .. n : frames'[i] = frames[i]
    BY <1>1, <1>4, <2>1
  <2>3. n # 0 => SentBy(frames[n], call) /\ Room(frames[n])
    BY <1>1 DEF IInv, ControlInv, TopFrame
  <2> HIDE DEF n
  <2>4. TypeOK'
    <3>1. \A i \in 1 .. n + 1 : Len(frames'[i].stack) <= StackLimit /\ frames'[i].msize <= MemLimit
      BY <1>1, <2>1, <2>2 DEF IInv, TypeOK, n
    <3> QED BY <1>1, <1>2, <1>4, <2>2, <3>1 DEF IInv, TypeOK, Control
  <2>5. WithinAllowance'
    <3>1. f.gas + f.callgas <= f.msg.gas
      BY <1>1, <2>1, MessageFields
    <3>2. \A i \in 1 .. n + 1 : frames'[i].gas + frames'[i].callgas <= frames'[i].msg.gas
      BY <1>1, <2>2, <3>1 DEF IInv, WithinAllowance, n
    <3> QED BY <2>2, <3>2 DEF WithinAllowance
  <2>6. Links'
    <3>1. \A i \in 1 .. n - 1 : SentBy(frames'[i], frames'[i + 1].msg) /\ Room(frames'[i])
      BY <1>1, <2>2 DEF IInv, Links, n
    <3>2. n # 0 => SentBy(frames'[n], frames'[n + 1].msg) /\ Room(frames'[n])
      BY <1>1, <2>1, <2>2, <2>3
    <3> QED BY <1>1, <2>2, <3>1, <3>2 DEF Links
  <2>7. ControlInv'
    BY <1>1, <1>4, <2>1, <2>2 DEF ControlInv, TopFrame
  <2>8. BuffersReleased'
    BY <1>1, <1>4 DEF BuffersReleased
  <2>9. DepthBounded'
    <3>1. f.msg.depth <= MaxDepth /\ f.msg.depth \in Nat
      BY <1>1, <2>1, MessageFields
    <3>2. ASSUME n # 0 PROVE f.msg.depth = frames[1].msg.depth + n
      <4>1. 1 \in 1 .. n /\ n \in 1 .. n
        BY <1>1, <3>2
      <4>2. frames[n].msg.depth = frames[1].msg.depth + n - 1
        BY <4>1 DEF IInv, Chain, DepthBounded, n
      <4>3. frames[1].msg.depth \in Int
        <5>1. frames[1] \in Frame
          BY <1>1, <4>1 DEF n
        <5> QED BY <5>1, FrameFields, MessageFields
      <4>4. f.msg.depth = frames[n].msg.depth + 1
        BY <2>1, <2>3, <3>2 DEF SentBy
      <4>5. n \in Int
        BY <1>1
      <4> QED BY <4>2, <4>3, <4>4, <4>5
    <3>3. \A i \in 1 .. n + 1 : /\ frames'[i].msg.depth = frames'[1].msg.depth + i - 1
                                /\ frames'[i].msg.depth <= MaxDepth
      <4>1. CASE n = 0
        BY <2>2, <3>1, <4>1
      <4>2. CASE n # 0
        BY <1>1, <2>2, <3>1, <3>2, <4>2 DEF IInv, Chain, DepthBounded, n
      <4> QED BY <4>1, <4>2
    <3> QED BY <2>2, <3>3 DEF DepthBounded
  <2>10. StaticInherited'
    <3>1. \A i \in 1 .. n : frames[i].msg.static => call.static /\ call.value = 0
      <4> SUFFICES ASSUME NEW i \in 1 .. n, frames[i].msg.static
                   PROVE  call.static /\ call.value = 0
        OBVIOUS
      <4>1. frames[n].msg.static
        BY <1>1 DEF IInv, Chain, StaticInherited, n
      <4>2. n # 0
        BY <1>1
      <4>3. SentBy(frames[n], call)
        BY <2>3, <4>2
      <4> QED BY <4>1, <4>3 DEF SentBy
    <3>2. \A i, j \in 1 .. n :
            i < j /\ frames[i].msg.static => frames[j].msg.static /\ frames[j].msg.value = 0
      BY DEF IInv, Chain, StaticInherited, n
    <3>3. \A i \in 1 .. n + 1 : i \in 1 .. n \/ i = n + 1
      BY <1>1
    <3> SUFFICES ASSUME NEW i \in 1 .. n + 1, NEW j \in 1 .. n + 1, i < j, frames'[i].msg.static
                 PROVE  frames'[j].msg.static /\ frames'[j].msg.value = 0
      BY <2>2 DEF StaticInherited
    <3>4. i \in 1 .. n /\ frames'[i] = frames[i]
      BY <1>1, <2>2, <3>3
    <3>5. CASE j \in 1 .. n
      BY <2>2, <3>2, <3>4, <3>5
    <3>6. CASE j = n + 1
      BY <2>1, <2>2, <3>1, <3>4, <3>6
    <3> QED BY <3>3, <3>5, <3>6
  <2> QED BY <2>4, <2>5, <2>6, <2>7, <2>8, <2>9, <2>10 DEF IInv, Chain
<1> QED BY <1>3, <1>4 DEF Enter

----------------------------------------------------------------------------
LEMMA InitIInv == Init => IInv
<1> SUFFICES ASSUME Init PROVE IInv
  OBVIOUS
<1>1. WorldOK
  BY ConstantsAssumption DEF Init, WorldOK
<1>2. TypeOK
  BY <1>1, NoMessageTyped DEF Init, TypeOK, Control
<1> QED BY <1>2, NoMessageTyped DEF Init, IInv, WithinAllowance, Links, ControlInv,
        BuffersReleased, Chain, DepthBounded, StaticInherited

LEMMA NextIInv == IInv /\ [Next]_vars => IInv'
<1> SUFFICES ASSUME IInv, [Next]_vars PROVE IInv'
  OBVIOUS
<1>1. CASE UNCHANGED vars
  BY <1>1 DEF vars, IInv, TypeOK, WorldOK, WithinAllowance, Links, ControlInv, BuffersReleased,
     Chain, DepthBounded, StaticInherited, TopFrame
<1>2. CASE OutOfGas \/ StackUnderflow \/ StackOverflow \/ Undefined
  BY <1>2, FailuresKeep
<1>3. CASE Add \/ Address \/ CallDataLoad \/ Number \/ SLoad \/ MSize \/ Dup1
  BY <1>3, WordsKeep
<1>4. CASE PushN \/ MStore \/ SStore
  BY <1>4, PushNKeeps, MStoreKeeps, SStoreKeeps
<1>5. CASE Stop \/ EndOfCode \/ OpReturn \/ OpRevert
  BY <1>5, EndsKeep
<1>6. CASE CallRefused \/ CallHost \/ Resume
  BY <1>6, CallRefusedKeeps, CallHostKeeps, ResumeKeeps
<1>7. CASE Start \/ HostAnswers \/ HostExecutes \/ Deliver
  BY <1>7, HostKeeps
<1>8. CASE Enter
  BY <1>8, EnterKeeps
<1> QED BY <1>1, <1>2, <1>3, <1>4, <1>5, <1>6, <1>7, <1>8 DEF Next, Execute, Instruction, Host

LEMMA Invariance == Spec => []IInv
BY InitIInv, NextIInv, PTL DEF Spec

\* Gas never goes negative and stacks and memories stay within their arrays, whatever the
\* code, the messages and the hosts.
THEOREM TypeCorrect == Spec => []TypeOK
<1>1. IInv => TypeOK
  BY DEF IInv
<1> QED BY <1>1, Invariance, PTL

\* The native recursion is bounded: no code and no host drives the depth beyond the limit.
THEOREM DepthAlwaysBounded == Spec => []DepthBounded
<1>1. IInv => DepthBounded
  BY DEF IInv, Chain
<1> QED BY <1>1, Invariance, PTL

\* Below a static activation all are static and none was sent value.
THEOREM StaticAlwaysInherited == Spec => []StaticInherited
<1>1. IInv => StaticInherited
  BY DEF IInv, Chain
<1> QED BY <1>1, Invariance, PTL

\* Every output buffer is released exactly once.  The overflow return of CALL, which would
\* leak one, is never taken: seven operands have left room for the success flag.
THEOREM BuffersAlwaysReleased == Spec => []BuffersReleased
<1>1. IInv => BuffersReleased
  BY DEF IInv
<1> QED BY <1>1, Invariance, PTL

----------------------------------------------------------------------------
\* No storage changes below a static activation.
THEOREM StaticSafety == Spec => StaticPreservesStorage
<1> DEFINE static == \E i \in 1 .. Len(frames) : frames[i].msg.static
<1>1. IInv /\ [Next]_vars => [static => UNCHANGED storage]_vars
  <2> SUFFICES ASSUME IInv, Next, static
               PROVE  UNCHANGED storage
    OBVIOUS
  <2>1. Len(frames) \in Nat /\ TopFrame.msg.static
    <3>1. Len(frames) \in Nat /\ TopFrame = frames[Len(frames)]
      BY DEF IInv, TypeOK, TopFrame
    <3> QED BY <3>1 DEF IInv, Chain, StaticInherited
  <2>2. CASE SStore
    BY <2>1, <2>2 DEF SStore
  <2>3. CASE Add \/ Address \/ CallDataLoad \/ Number \/ SLoad \/ MSize \/ Dup1
    BY <2>3 DEF Add, Address, CallDataLoad, Number, SLoad, MSize, Dup1, Push
  <2>4. CASE OutOfGas \/ StackUnderflow \/ StackOverflow \/ Undefined \/ PushN \/ MStore \/ Stop
             \/ EndOfCode \/ OpReturn \/ OpRevert
    BY <2>4 DEF OutOfGas, StackUnderflow, StackOverflow, Undefined, PushN, MStore, Stop,
       EndOfCode, OpReturn, OpRevert, ReturnData
  <2>5. CASE CallRefused \/ CallHost \/ Resume \/ Start \/ Host
    BY <2>5 DEF CallRefused, CallHost, Resume, Start, Host, HostAnswers, HostExecutes, Enter,
       Deliver
  <2> QED BY <2>2, <2>3, <2>4, <2>5 DEF Next, Execute, Instruction
<1> QED BY <1>1, Invariance, PTL DEF Spec, StaticPreservesStorage

----------------------------------------------------------------------------
\* The shapes a step of the running activation can have, and what it costs: an activation
\* that goes on has paid for one instruction, one that ends returns at most what is left
\* after that charge, and all of it when it succeeds or reverts.
Advances ==
    /\ ctl = "exec" /\ TopFrame.gas >= 1
    /\ \E k, s, m : Continue(Advanced(TopFrame, k, s, m))
    /\ Dispatch

Paying == (Dispatch /\ TopFrame.gas >= 1) \/ Quiet

Returns ==
    /\ ctl = "exec" /\ Paying
    /\ \E status \in Status, gas \in 0 .. TopFrame.gas, size \in Nat :
         /\ Return(status, gas, size)
         /\ status \notin {"SUCCESS", "REVERT"} => gas = 0 /\ size = 0
         /\ status \in {"SUCCESS", "REVERT"} => gas + steps' = TopFrame.gas + steps

LEMMA FailReturns ==
    ASSUME IInv, ctl = "exec", Paying, NEW status \in Status \ {"SUCCESS", "REVERT"}, Fail(status)
    PROVE  Returns
<1>1. TopFrame.gas \in Nat
  BY TopIsFrame, FrameFields DEF IInv, ControlInv
<1> QED BY <1>1 DEF Fail, Returns

LEMMA StepShape ==
    ASSUME IInv, Next
    PROVE  Advances \/ Returns \/ CallHost \/ Resume \/ Start \/ Host
<1>1. CASE Add \/ Address \/ CallDataLoad \/ Number \/ SLoad \/ MSize \/ Dup1
  <2>1. /\ ctl = "exec" /\ TopFrame.gas >= 1 /\ Dispatch
        /\ \E op, ws : Push(op, ws)
    BY <1>1 DEF Add, Address, CallDataLoad, Number, SLoad, MSize, Dup1, Ready, Paid, Dispatching
  <2> QED BY <2>1 DEF Push, Advances
<1>2. CASE PushN
  BY <1>2 DEF PushN, Advances, Ready, Paid, Dispatching
<1>3. CASE MStore \/ SStore
  <2>1. ctl = "exec" /\ TopFrame.gas >= 1 /\ Dispatch
    BY <1>3 DEF MStore, SStore, Ready, Paid, Dispatching
  <2>2. Advances \/ \E status \in Status \ {"SUCCESS", "REVERT"} : Fail(status)
    BY <1>3, <2>1 DEF MStore, SStore, Advances, Status
  <2> QED BY <2>1, <2>2, FailReturns DEF Paying
<1>4. CASE OutOfGas \/ StackUnderflow \/ StackOverflow \/ Undefined \/ CallRefused
  <2>1. ctl = "exec" /\ Paying
    BY <1>4 DEF OutOfGas, StackUnderflow, StackOverflow, Undefined, CallRefused, CallAllowed,
       Ready, Paid, Dispatching, Paying
  <2>2. \E status \in Status \ {"SUCCESS", "REVERT"} : Fail(status)
    BY <1>4 DEF OutOfGas, StackUnderflow, StackOverflow, Undefined, CallRefused, Status
  <2> QED BY <2>1, <2>2, FailReturns
<1>5. CASE Stop \/ EndOfCode
  <2>1. ctl = "exec" /\ TopFrame.gas \in Nat /\ "SUCCESS" \in Status /\ steps \in Nat
    BY <1>5, TopIsFrame, FrameFields DEF IInv, ControlInv, Stop, EndOfCode, Ready, Paid,
       Dispatching, Status, TypeOK, WorldOK
  <2>2. CASE Stop
    <3>1. TopFrame.gas - 1 \in 0 .. TopFrame.gas /\ TopFrame.gas >= 1 /\ Dispatch
      BY <2>1, <2>2 DEF Stop, Ready, Paid
    <3>2. TopFrame.gas - 1 + steps' = TopFrame.gas + steps
      BY <2>1, <3>1 DEF Dispatch
    <3> QED BY <2>1, <2>2, <3>1, <3>2 DEF Stop, Returns, Paying
  <2>3. CASE EndOfCode
    <3>1. TopFrame.gas + steps' = TopFrame.gas + steps /\ Quiet
      BY <2>1, <2>3 DEF EndOfCode, Quiet
    <3> QED BY <2>1, <2>3, <3>1 DEF EndOfCode, Returns, Paying
  <2> QED BY <1>5, <2>2, <2>3
<1>6. ASSUME NEW op \in {"RETURN", "REVERT"}, NEW status \in {"SUCCESS", "REVERT"},
             ReturnData(op, status)
      PROVE  Returns
  <2>1. op \in Op /\ Pops[op] = 2 /\ status \in Status
        /\ {"FAILURE", "OUT_OF_MEMORY"} \subseteq Status \ {"SUCCESS", "REVERT"}
    BY PopsAndPushes DEF Status
  <2>2. /\ ctl = "exec" /\ TopFrame.gas - 1 \in 0 .. TopFrame.gas /\ TopFrame \in Frame
        /\ 2 <= Len(TopFrame.stack) /\ TopFrame.gas >= 1 /\ TopFrame.gas \in Nat /\ Dispatch
    BY <1>6, <2>1, ReadyFacts DEF ReturnData
  <2>3. Low(Arg(TopFrame, 2)) \in Nat
    <3>1. Arg(TopFrame, 2) \in Nat
      BY <2>2, ArgIsWord DEF Word
    <3> QED BY <3>1, LowIsWord
  <2>4. \/ Fail("FAILURE") \/ Fail("OUT_OF_MEMORY")
        \/ Return(status, TopFrame.gas - 1, Low(Arg(TopFrame, 2)))
    BY <1>6 DEF ReturnData
  <2>5. TopFrame.gas - 1 + steps' = TopFrame.gas + steps
    <3>1. steps \in Nat /\ steps' = steps + 1
      BY <2>2 DEF Dispatch, IInv, TypeOK, WorldOK
    <3> QED BY <2>2, <3>1
  <2> QED BY <2>1, <2>2, <2>3, <2>4, <2>5, FailReturns DEF Returns, Paying
<1> QED BY <1>1, <1>2, <1>3, <1>4, <1>5, <1>6 DEF Next, Execute, Instruction, OpReturn, OpRevert

\* Putting any value in the place of the running activation.
LEMMA Swapped ==
    ASSUME TypeOK, frames # <<>>, NEW g, frames' = Append(Callers, g)
    PROVE  /\ Len(frames') = Len(frames) /\ frames' # <<>> /\ frames'[Len(frames)] = g
           /\ \A i \in 1 .. Len(frames) - 1 : frames'[i] = frames[i]
<1> DEFINE c == Callers
<1>1. /\ c \in Seq(Frame) /\ Len(frames) \in Nat \ {0} /\ Len(c) = Len(frames) - 1
      /\ \A i \in 1 .. Len(frames) - 1 : c[i] = frames[i]
  BY TopIsFrame
<1>2. frames' = Append(c, g)
  OBVIOUS
<1> HIDE DEF c
<1>3. c \in Seq(Frame \cup {g}) /\ g \in Frame \cup {g}
  BY <1>1, SeqMonotonic
<1> QED BY <1>1, <1>2, <1>3

\* What a step that keeps the running activation does to it: its own gas and what it has
\* lent do not grow together.
Spends ==
    /\ frames # <<>> /\ frames' # <<>> /\ Len(frames') = Len(frames)
    /\ ctl \in {"exec", "return"} /\ ctl' \in {"exec", "host"}
    /\ LET f == frames'[Len(frames)]
       IN  f.gas + f.callgas <= TopFrame.gas + TopFrame.callgas
    /\ \A i \in 1 .. Len(frames) - 1 : frames'[i] = frames[i]

LEMMA AdvancesSpends ==
    ASSUME IInv, Advances
    PROVE  Spends
<1> PICK k, s, m : Continue(Advanced(TopFrame, k, s, m))
  BY DEF Advances
<1> DEFINE g == Advanced(TopFrame, k, s, m)
<1>1. TypeOK /\ ctl = "exec" /\ frames # <<>> /\ TopFrame \in Frame
  BY TopIsFrame DEF Advances, IInv, ControlInv
<1>2. g.gas = TopFrame.gas - 1 /\ g.callgas = TopFrame.callgas
  BY <1>1 DEF Advanced, Frame
<1>3. frames' = Append(Callers, g) /\ UNCHANGED ctl
  BY DEF Continue
<1>4. TopFrame.gas \in Nat /\ TopFrame.callgas \in Nat
  BY <1>1, FrameFields
<1> HIDE DEF g
<1> QED BY <1>1, <1>2, <1>3, <1>4, Swapped DEF Spends

LEMMA CallHostSpends ==
    ASSUME IInv, CallHost
    PROVE  Spends
<1> DEFINE f == TopFrame
           lent == CallMessage(f).gas
<1>1. PICK s, m : /\ frames' = Append(Callers, Suspended(f, lent, s, m)) /\ ctl' = "host"
                  /\ Ready("CALL") /\ f.msg.depth < MaxDepth /\ CallArgs <= Len(f.stack)
                  /\ (f.msg.static => Arg(f, 3) = 0)
  <2>1. Len(f.stack) >= CallArgs => CallArgs <= Len(f.stack)
    OBVIOUS
  <2> QED BY <2>1 DEF CallHost, CallAllowed, CallValueBanned
<1>2. "CALL" \in Op
  BY PopsAndPushes
<1>3. TypeOK /\ frames # <<>> /\ f \in Frame /\ f.gas \in Nat /\ f.gas >= 1 /\ f.callgas = 0
      /\ ctl = "exec"
  BY <1>1, <1>2, ReadyFacts DEF IInv
<1>4. lent \in Nat
  BY <1>1, <1>3, CallMessageFacts
<1> DEFINE g == Suspended(f, lent, s, m)
<1> HIDE DEF lent
<1>5. g.gas = f.gas - 1 - lent /\ g.callgas = lent
  BY <1>3 DEF Suspended, Advanced, Frame
<1> HIDE DEF g
<1>6. g.gas + g.callgas <= f.gas + f.callgas
  BY <1>3, <1>4, <1>5
<1>7. frames' = Append(Callers, g)
  BY <1>1 DEF g
<1> QED BY <1>1, <1>3, <1>6, <1>7, Swapped DEF Spends

LEMMA ResumeSpends ==
    ASSUME IInv, Resume
    PROVE  Spends
<1> DEFINE f == TopFrame
           back == Clamp(ret.gas, 0, f.callgas)
<1>1. TypeOK /\ ctl = "return" /\ frames # <<>> /\ f \in Frame /\ Room(f) /\ ret \in Result
  BY TopIsFrame DEF Resume, IInv, ControlInv, TypeOK
<1>2. ~(Len(f.stack) >= StackLimit)
  BY <1>1, FrameFields, ConstantsAssumption DEF Room, CallArgs
<1>3. PICK w : frames' = Append(Callers, Resumed(f, back, w)) /\ ctl' = "exec"
  BY <1>2 DEF Resume
<1>4. f.gas \in Nat /\ f.callgas \in Nat /\ back \in Nat /\ back <= f.callgas
  BY <1>1, FrameFields, ClampWithin DEF Result
<1> DEFINE g == Resumed(f, back, w)
<1> HIDE DEF back
<1>5. g.gas = f.gas + back /\ g.callgas = 0
  BY <1>1 DEF Resumed, Frame
<1> HIDE DEF g
<1>6. g.gas + g.callgas <= f.gas + f.callgas
  BY <1>4, <1>5
<1>7. frames' = Append(Callers, g)
  BY <1>3 DEF g
<1> QED BY <1>1, <1>3, <1>6, <1>7, Swapped DEF Spends

LEMMA HostKeepsFrames ==
    ASSUME IInv, Start \/ Host
    PROVE  \/ UNCHANGED frames
           \/ ctl = "invoke" /\ call.gas >= 0 /\ frames' = Append(frames, NewFrame(call))
BY DEF Start, Host, HostAnswers, HostExecutes, Enter, Deliver

\* What execute() answers keeps the contract of qrvmc_result, whatever the hosts answered it.
THEOREM ResultsConform == Spec => ResultContract
<1> DEFINE Conforming ==
             Len(frames') < Len(frames) =>
               /\ ret'.gas \in 0 .. TopFrame.msg.gas
               /\ ret'.status \notin {"SUCCESS", "REVERT"} => ret'.gas = 0 /\ ret'.size = 0
<1>1. IInv /\ IInv' /\ [Next]_vars => [Conforming]_vars
  <2> SUFFICES ASSUME IInv, IInv', Next PROVE Conforming
    OBVIOUS
  <2>1. CASE Returns
    <3>1. PICK status \in Status, gas \in 0 .. TopFrame.gas, size \in Nat :
             /\ Return(status, gas, size)
             /\ status \notin {"SUCCESS", "REVERT"} => gas = 0 /\ size = 0
      BY <2>1 DEF Returns
    <3>2. ret'.gas = gas /\ ret'.status = status /\ ret'.size = size
      BY <3>1 DEF Return, MakeResult
    <3>3. TopFrame.gas + TopFrame.callgas <= TopFrame.msg.gas
      <4>1. frames # <<>> /\ Len(frames) \in Nat \ {0}
        BY <2>1, TopIsFrame DEF Returns, IInv, ControlInv
      <4> QED BY <4>1 DEF IInv, WithinAllowance, TopFrame
    <3>4. TopFrame.gas \in Nat /\ TopFrame.callgas \in Nat /\ TopFrame.msg.gas \in Int
      BY <2>1, TopIsFrame, FrameFields, MessageFields DEF Returns, IInv, ControlInv
    <3> QED BY <3>1, <3>2, <3>3, <3>4
  <2>2. CASE Advances \/ CallHost \/ Resume
    <3>1. Len(frames') = Len(frames) /\ Len(frames) \in Nat
      BY <2>2, AdvancesSpends, CallHostSpends, ResumeSpends DEF Spends, IInv, TypeOK
    <3> QED BY <3>1
  <2>3. CASE Start \/ Host
    <3>1. frames \in Seq(Frame) /\ Len(frames) \in Nat /\ call \in Message
      BY DEF IInv, TypeOK
    <3>2. Len(frames') >= Len(frames)
      <4>1. CASE ctl = "invoke" /\ call.gas >= 0 /\ frames' = Append(frames, NewFrame(call))
        <5>1. frames \in Seq(Frame \cup {NewFrame(call)})
          BY <3>1, SeqMonotonic
        <5>2. Len(frames') = Len(frames) + 1
          BY <4>1, <5>1
        <5> QED BY <3>1, <5>2
      <4> QED BY <2>3, <3>1, <4>1, HostKeepsFrames
    <3>3. Len(frames') \in Nat
      BY DEF IInv, TypeOK
    <3> QED BY <3>1, <3>2, <3>3
  <2> QED BY <2>1, <2>2, <2>3, StepShape
<1> QED BY <1>1, Invariance, PTL DEF Spec, ResultContract

----------------------------------------------------------------------------
\* The refinement of Metered: the budget is what the outermost activation holds and lends.
LEMMA SpendsIsSpend ==
    ASSUME IInv, IInv', Spends
    PROVE  Contract!Spend
<1> DEFINE n == Len(frames)
<1>1. n \in Nat \ {0} /\ frames # <<>> /\ frames' # <<>> /\ frames \in Seq(Frame)
      /\ frames' \in Seq(Frame) /\ Len(frames') = n
  BY TopIsFrame DEF Spends, IInv, TypeOK
<1>2. frames[1] \in Frame /\ frames'[1] \in Frame
  BY <1>1
<1>3. frames'[1].gas + frames'[1].callgas <= frames[1].gas + frames[1].callgas
  <2>1. CASE n = 1
    BY <1>1, <2>1 DEF Spends, TopFrame
  <2>2. CASE n # 1
    <3>1. frames'[1] = frames[1]
      BY <1>1, <2>2 DEF Spends
    <3> QED BY <1>2, <3>1, FrameFields
  <2> QED BY <2>1, <2>2
<1>4. MeteredBudget = frames[1].gas + frames[1].callgas
      /\ MeteredBudget' = frames'[1].gas + frames'[1].callgas
  BY <1>1 DEF MeteredBudget, Bottom
<1>5. MeteredBudget' \in Nat /\ MeteredBudget' <= MeteredBudget
  BY <1>2, <1>3, <1>4, FrameFields
<1>6. MeteredPhase = "running" /\ MeteredPhase' = "running"
  BY <1>1 DEF Spends, MeteredPhase
<1>7. UNCHANGED <<MeteredLeft, MeteredCompleted>>
  BY <1>6 DEF MeteredLeft, MeteredCompleted
<1> QED BY <1>5, <1>6, <1>7 DEF Contract!Spend

LEMMA ReturnsAnswers ==
    ASSUME IInv, IInv', Returns
    PROVE  Contract!Next
<1> DEFINE n == Len(frames)
<1>1. PICK status \in Status, gas \in 0 .. TopFrame.gas, size \in Nat :
         /\ Return(status, gas, size)
         /\ status \notin {"SUCCESS", "REVERT"} => gas = 0 /\ size = 0
  BY DEF Returns
<1>2. /\ n \in Nat \ {0} /\ frames # <<>> /\ frames \in Seq(Frame) /\ frames' \in Seq(Frame)
      /\ Len(frames') = n - 1 /\ \A i \in 1 .. n - 1 : frames'[i] = frames[i]
      /\ TopFrame \in Frame /\ ctl = "exec"
  BY <1>1, TopIsFrame DEF Returns, Return, IInv, ControlInv, TypeOK
<1>3. ret'.gas = gas /\ ret'.status = status /\ ctl' = "return"
  BY <1>1 DEF Return, MakeResult
<1>4. MeteredPhase = "running" /\ MeteredLeft = 0 /\ MeteredCompleted = FALSE
  BY <1>2 DEF MeteredPhase, MeteredLeft, MeteredCompleted
<1>5. MeteredBudget = frames[1].gas + frames[1].callgas
  BY <1>2 DEF MeteredBudget, Bottom
<1>6. CASE n = 1
  <2>1. frames' = <<>>
    BY <1>2, <1>6
  <2>2. MeteredPhase' = "answered" /\ MeteredBudget' = 0 /\ MeteredLeft' = gas
        /\ (MeteredCompleted' <=> status \in {"SUCCESS", "REVERT"})
    BY <1>3, <2>1 DEF MeteredPhase, MeteredBudget, MeteredLeft, MeteredCompleted
  <2>3. TopFrame = frames[1] /\ TopFrame.gas \in Nat /\ TopFrame.callgas \in Nat
    BY <1>2, <1>6, FrameFields DEF TopFrame
  <2>4. gas \in Nat /\ gas <= MeteredBudget
    BY <1>5, <2>3
  <2>5. MeteredLeft' <= (IF MeteredCompleted' THEN MeteredBudget ELSE 0)
    <3>1. CASE status \in {"SUCCESS", "REVERT"}
      <4>1. MeteredCompleted'
        BY <2>2, <3>1
      <4> QED BY <2>2, <2>4, <4>1
    <3>2. CASE status \notin {"SUCCESS", "REVERT"}
      <4>1. ~MeteredCompleted' /\ MeteredLeft' = 0 /\ 0 <= 0
        BY <1>1, <2>2, <3>2
      <4> QED BY <4>1
    <3> QED BY <3>1, <3>2
  <2>6. MeteredCompleted' \in BOOLEAN
    BY DEF MeteredCompleted
  <2>7. Contract!Answer
    BY <1>4, <2>2, <2>4, <2>5, <2>6 DEF Contract!Answer
  <2> QED BY <2>7 DEF Contract!Next
<1>7. CASE n # 1
  <2>1. frames' # <<>> /\ frames'[1] = frames[1]
    BY <1>2, <1>7
  <2>2. MeteredPhase' = "running" /\ MeteredLeft' = 0 /\ MeteredCompleted' = FALSE
    BY <1>3, <2>1 DEF MeteredPhase, MeteredLeft, MeteredCompleted
  <2>3. MeteredBudget' = MeteredBudget
    BY <1>5, <2>1 DEF MeteredBudget, Bottom
  <2>4. MeteredBudget \in Nat
    <3>1. frames[1] \in Frame
      BY <1>2
    <3> QED BY <1>5, <3>1, FrameFields
  <2>5. UNCHANGED <<MeteredPhase, MeteredLeft, MeteredCompleted>>
    BY <1>4, <2>2, Zenon
  <2>6. MeteredBudget' \in Nat /\ MeteredBudget' <= MeteredBudget
    BY <2>3, <2>4
  <2>7. Contract!Spend
    BY <1>4, <2>5, <2>6, Zenon DEF Contract!Spend
  <2> QED BY <2>7 DEF Contract!Next
<1> QED BY <1>6, <1>7

LEMMA HostRefines ==
    ASSUME IInv, IInv', Start \/ Host
    PROVE  Contract!Next \/ UNCHANGED Contract!vars
<1>1. CASE Start
  <2>1. PICK m \in Messages : call' = m
    BY <1>1 DEF Start
  <2>2. /\ frames = <<>> /\ frames' = <<>> /\ ctl = "idle" /\ ctl' = "invoke"
        /\ call'.gas \in Int
    BY <1>1, <2>1, ConstantsAssumption, MessageFields DEF Start, IInv, ControlInv
  <2>3. MeteredBudget' \in Nat
    BY <2>2 DEF MeteredBudget, GreaterOf
  <2>4. MeteredPhase = "idle" /\ MeteredPhase' = "running"
    BY <2>2 DEF MeteredPhase
  <2>5. UNCHANGED <<MeteredLeft, MeteredCompleted>>
    BY <2>4 DEF MeteredLeft, MeteredCompleted
  <2>6. Contract!Begin
    BY <2>3, <2>4, <2>5 DEF Contract!Begin
  <2> QED BY <2>6 DEF Contract!Next
<1>2. CASE HostAnswers \/ HostExecutes
  <2>1. UNCHANGED frames /\ frames # <<>> /\ ctl = "host" /\ ctl' \in {"return", "invoke"}
    BY <1>2 DEF HostAnswers, HostExecutes, IInv, ControlInv
  <2>2. UNCHANGED <<MeteredPhase, MeteredBudget>> /\ MeteredPhase = "running"
    BY <2>1 DEF MeteredPhase, MeteredBudget, Bottom
  <2>3. UNCHANGED <<MeteredLeft, MeteredCompleted>>
    BY <2>2 DEF MeteredLeft, MeteredCompleted
  <2> QED BY <2>2, <2>3 DEF Contract!vars
<1>3. CASE Deliver
  <2>1. ctl = "return" /\ frames = <<>> /\ frames' = <<>> /\ ctl' = "idle"
    BY <1>3 DEF Deliver
  <2>2. MeteredPhase = "answered" /\ MeteredPhase' = "idle" /\ MeteredBudget = 0
        /\ MeteredBudget' = 0
    BY <2>1 DEF MeteredPhase, MeteredBudget
  <2>3. MeteredLeft' = 0 /\ MeteredCompleted' = FALSE
    BY <2>2 DEF MeteredLeft, MeteredCompleted
  <2>4. Contract!Take
    BY <2>2, <2>3 DEF Contract!Take
  <2> QED BY <2>4 DEF Contract!Next
<1>4. CASE Enter
  <2>1. ctl = "invoke" /\ call \in Message /\ call.gas \in Int /\ frames \in Seq(Frame)
        /\ Len(frames) \in Nat
    BY <1>4, MessageFields DEF Enter, IInv, TypeOK
  <2>2. MeteredPhase = "running" /\ MeteredLeft = 0 /\ MeteredCompleted = FALSE
    BY <2>1 DEF MeteredPhase, MeteredLeft, MeteredCompleted
  <2>3. CASE call.gas < 0 /\ ctl' = "return" /\ ret' = MakeResult("OUT_OF_GAS", 0, 0)
             /\ UNCHANGED frames
    <3>1. frames # <<>> => SentBy(TopFrame, call) /\ TopFrame \in Frame
      BY <2>1, TopIsFrame DEF IInv, ControlInv
    <3>2. frames = <<>> /\ frames' = <<>>
      BY <2>3, <3>1, FrameFields DEF SentBy
    <3>3. ret'.status = "OUT_OF_GAS" /\ ret'.gas = 0
      BY <2>3 DEF MakeResult
    <3>4. /\ MeteredPhase' = "answered" /\ MeteredBudget' = 0 /\ MeteredLeft' = 0
          /\ MeteredCompleted' = FALSE
      BY <2>3, <3>2, <3>3 DEF MeteredPhase, MeteredBudget, MeteredLeft, MeteredCompleted
    <3>5. MeteredLeft' <= (IF MeteredCompleted' THEN MeteredBudget ELSE 0)
      <4>1. 0 <= 0
        OBVIOUS
      <4> QED BY <3>4, <4>1, Zenon
    <3>6. MeteredCompleted' \in BOOLEAN /\ MeteredLeft' \in Nat
      BY <3>4 DEF MeteredCompleted
    <3>7. Contract!Answer
      BY <2>2, <3>4, <3>5, <3>6, Zenon DEF Contract!Answer
    <3> QED BY <3>7 DEF Contract!Next
  <2>4. CASE call.gas >= 0 /\ ctl' = "exec" /\ frames' = Append(frames, NewFrame(call))
    <3> DEFINE f == NewFrame(call)
    <3>1. f.gas = call.gas /\ f.callgas = 0
      BY DEF NewFrame
    <3> HIDE DEF f
    <3>2. frames \in Seq(Frame \cup {f}) /\ frames' = Append(frames, f)
      BY <2>1, <2>4, SeqMonotonic DEF f
    <3>3. frames' # <<>> /\ frames'[1] = (IF frames = <<>> THEN f ELSE frames[1])
      BY <2>1, <3>2
    <3>4. MeteredPhase' = "running"
      BY <2>4, <3>3 DEF MeteredPhase
    <3>5. MeteredBudget' = frames'[1].gas + frames'[1].callgas
      BY <3>3 DEF MeteredBudget, Bottom
    <3>6. MeteredBudget \in Nat /\ MeteredBudget' = MeteredBudget
      <4>1. CASE frames = <<>>
        BY <2>1, <2>4, <3>1, <3>3, <3>5, <4>1 DEF MeteredBudget, GreaterOf
      <4>2. CASE frames # <<>>
        <5>1. frames[1] \in Frame
          BY <2>1, <4>2
        <5> QED BY <3>3, <3>5, <4>2, <5>1, FrameFields DEF MeteredBudget, Bottom
      <4> QED BY <4>1, <4>2
    <3>7. UNCHANGED <<MeteredLeft, MeteredCompleted>>
      BY <2>2, <3>4 DEF MeteredLeft, MeteredCompleted
    <3> QED BY <2>2, <3>4, <3>6, <3>7 DEF Contract!vars
  <2> QED BY <1>4, <2>3, <2>4 DEF Enter
<1> QED BY <1>1, <1>2, <1>3, <1>4 DEF Host

\* To the host that started it, an execution is a metered one: it never has more to spend
\* than it was given and answers with at most what is left, for every code and every host
\* that answers its calls.
THEOREM Refinement == Spec => ImplementsMetered
<1>1. Init => Contract!Init
  BY DEF Init, Contract!Init, MeteredPhase, MeteredBudget, MeteredLeft, MeteredCompleted
<1>2. IInv /\ IInv' /\ [Next]_vars => [Contract!Next]_(Contract!vars)
  <2> SUFFICES ASSUME IInv, IInv', [Next]_vars
               PROVE  Contract!Next \/ UNCHANGED Contract!vars
    OBVIOUS
  <2>1. CASE UNCHANGED vars
    BY <2>1 DEF vars, Contract!vars, MeteredPhase, MeteredBudget, MeteredLeft,
       MeteredCompleted, Bottom
  <2>2. CASE Advances \/ CallHost \/ Resume
    <3>1. Contract!Spend
      BY <2>2, AdvancesSpends, CallHostSpends, ResumeSpends, SpendsIsSpend
    <3> QED BY <3>1 DEF Contract!Next
  <2>3. CASE Returns
    BY <2>3, ReturnsAnswers
  <2>4. CASE Start \/ Host
    BY <2>4, HostRefines
  <2> QED BY <2>1, <2>2, <2>3, <2>4, StepShape
<1> QED BY <1>1, <1>2, Invariance, PTL DEF Spec, ImplementsMetered, Contract!Spec

----------------------------------------------------------------------------
\* A set of numbers with zero, and with the successor of each number it has, has all numbers:
\* otherwise a least one would be missing.
LEMMA Induction ==
    ASSUME NEW S, 0 \in S, \A n \in Nat : n \in S => n + 1 \in S
    PROVE  Nat \subseteq S
<1> SUFFICES ASSUME ~(Nat \subseteq S) PROVE FALSE
  OBVIOUS
<1> DEFINE less == OpToRel(<, Nat)
           missing == Nat \ S
<1>1. IsWellFoundedOn(less, Nat)
  BY NatLessThanWellFounded
<1>2. PICK n \in missing : \A m \in missing : <<m, n>> \notin less
  <2> HIDE DEF less
  <2> QED BY <1>1, WFMin
<1>3. n \in Nat /\ n - 1 \in Nat /\ <<n - 1, n>> \in less
  BY DEF OpToRel
<1> HIDE DEF less
<1>4. n - 1 \in S
  BY <1>2, <1>3
<1> QED BY <1>3, <1>4

\* The recursive function FramesGas sums with: it exists for every stack of activations, and
\* up to a position it depends on the activations up to there only.
Sums(s, g) == g = [i \in 0 .. Len(s) |-> IF i = 0 THEN 0 ELSE g[i - 1] + s[i].gas]

LEMMA SumStep ==
    ASSUME NEW s \in Seq(Frame), NEW g, Sums(s, g)
    PROVE  g[0] = 0 /\ \A i \in 1 .. Len(s) : g[i] = g[i - 1] + s[i].gas
<1>1. Len(s) \in Nat
  OBVIOUS
<1>2. \A i \in 0 .. Len(s) : g[i] = IF i = 0 THEN 0 ELSE g[i - 1] + s[i].gas
  BY DEF Sums
<1> QED BY <1>1, <1>2

LEMMA SumExists ==
    ASSUME NEW s \in Seq(Frame)
    PROVE  \E g : Sums(s, g)
<1> DEFINE Upto(n, g) == g = [i \in 0 .. n |-> IF i = 0 THEN 0 ELSE g[i - 1] + s[i].gas]
           S == {n \in Nat : \E g : Upto(n, g)}
<1>1. 0 \in S
  <2> DEFINE g == [i \in 0 .. 0 |-> 0]
  <2>1. Upto(0, g)
    OBVIOUS
  <2> QED BY <2>1
<1>2. \A n \in Nat : n \in S => n + 1 \in S
  <2> SUFFICES ASSUME NEW n \in Nat, n \in S PROVE n + 1 \in S
    OBVIOUS
  <2> PICK g : Upto(n, g)
    OBVIOUS
  <2> DEFINE h == [i \in 0 .. n + 1 |-> IF i = n + 1 THEN g[n] + s[n + 1].gas ELSE g[i]]
  <2>1. \A i \in 0 .. n : g[i] = IF i = 0 THEN 0 ELSE g[i - 1] + s[i].gas
    OBVIOUS
  <2>2. \A i \in 0 .. n + 1 : h[i] = IF i = 0 THEN 0 ELSE h[i - 1] + s[i].gas
    <3> SUFFICES ASSUME NEW i \in 0 .. n + 1
                 PROVE  h[i] = IF i = 0 THEN 0 ELSE h[i - 1] + s[i].gas
      OBVIOUS
    <3>1. CASE i = n + 1
      BY <3>1
    <3>2. CASE i # n + 1
      <4>1. i \in 0 .. n /\ (i # 0 => i - 1 \in 0 .. n)
        BY <3>2
      <4>2. h[i] = g[i] /\ (i # 0 => h[i - 1] = g[i - 1])
        BY <3>2, <4>1
      <4> HIDE DEF h
      <4> QED BY <2>1, <4>1, <4>2
    <3> QED BY <3>1, <3>2
  <2>3. Upto(n + 1, h)
    <3>1. h = [i \in 0 .. n + 1 |-> h[i]]
      OBVIOUS
    <3> HIDE DEF h
    <3> QED BY <2>2, <3>1
  <2> HIDE DEF h, Upto
  <2> QED BY <2>3
<1> HIDE DEF S
<1>3. Nat \subseteq S
  BY <1>1, <1>2, Induction
<1>4. Len(s) \in S
  BY <1>3
<1> QED BY <1>4 DEF S, Sums

LEMMA SumAgrees ==
    ASSUME NEW s \in Seq(Frame), NEW t \in Seq(Frame), NEW g, NEW h, Sums(s, g), Sums(t, h),
           NEW k \in Nat, k <= Len(s), k <= Len(t), \A i \in 1 .. k : s[i].gas = t[i].gas
    PROVE  g[k] \in Nat /\ g[k] = h[k]
<1> DEFINE S == {n \in Nat : n <= k => g[n] \in Nat /\ g[n] = h[n]}
<1>1. 0 \in S
  BY SumStep
<1>2. \A n \in Nat : n \in S => n + 1 \in S
  <2> SUFFICES ASSUME NEW n \in Nat, n + 1 <= k, g[n] \in Nat, g[n] = h[n]
               PROVE  g[n + 1] \in Nat /\ g[n + 1] = h[n + 1]
    OBVIOUS
  <2>1. n + 1 \in 1 .. Len(s) /\ n + 1 \in 1 .. Len(t) /\ n + 1 \in 1 .. k /\ n + 1 - 1 = n
    OBVIOUS
  <2>2. g[n + 1] = g[n] + s[n + 1].gas /\ h[n + 1] = h[n] + t[n + 1].gas
    BY <2>1, SumStep
  <2>3. s[n + 1] \in Frame
    BY <2>1, ElementOfSeq
  <2>4. s[n + 1].gas \in Nat
    BY <2>3, FrameFields
  <2> QED BY <2>1, <2>2, <2>4
<1> HIDE DEF S
<1>3. k \in S
  BY <1>1, <1>2, Induction
<1> QED BY <1>3 DEF S

\* The gas of a stack of activations, for which FramesGas is the gas of frames.
GasOf(s) == (CHOOSE g : Sums(s, g))[Len(s)]

LEMMA FramesGasIs == FramesGas = GasOf(frames) /\ FramesGas' = GasOf(frames')
BY DEF FramesGas, GasOf, Sums

LEMMA NoFramesGas == GasOf(<<>>) = 0
<1>1. <<>> \in Seq(Frame) /\ Len(<<>>) = 0
  OBVIOUS
<1>2. PICK g : Sums(<<>>, g) /\ g = CHOOSE h : Sums(<<>>, h)
  BY <1>1, SumExists
<1> QED BY <1>1, <1>2, SumStep DEF GasOf

\* The gas of a stack is that of the activations below its last one, plus that one's.
LEMMA GasOfTop ==
    ASSUME NEW s \in Seq(Frame), NEW t \in Seq(Frame), Len(s) = Len(t) + 1,
           \A i \in 1 .. Len(t) : s[i] = t[i]
    PROVE  GasOf(t) \in Nat /\ GasOf(s) = GasOf(t) + s[Len(s)].gas
<1> DEFINE g == CHOOSE h : Sums(s, h)
           h == CHOOSE k : Sums(t, k)
           n == Len(t)
<1>1. Sums(s, g) /\ Sums(t, h)
  BY SumExists
<1>2. n \in Nat /\ n <= Len(s) /\ Len(s) = n + 1 /\ Len(s) \in 1 .. Len(s)
  OBVIOUS
<1>3. GasOf(s) = g[Len(s)] /\ GasOf(t) = h[n]
  BY DEF GasOf
<1> HIDE DEF g, h
<1>4. g[n] \in Nat /\ g[n] = h[n]
  <2>1. \A i \in 1 .. n : s[i].gas = t[i].gas
    OBVIOUS
  <2>2. n <= Len(t)
    BY <1>2
  <2> HIDE DEF n
  <2> QED BY <1>1, <1>2, <2>1, <2>2, SumAgrees DEF n
<1>5. g[n + 1] = g[n] + s[n + 1].gas
  BY <1>1, <1>2, SumStep
<1> QED BY <1>2, <1>3, <1>4, <1>5

\* The gas of the running activation and of what is below it, before and after a step that
\* keeps what is below.
LEMMA GasSplit ==
    ASSUME IInv, IInv', frames # <<>>, Len(frames') = Len(frames),
           \A i \in 1 .. Len(frames) - 1 : frames'[i] = frames[i]
    PROVE  \E below \in Nat : /\ GasOf(frames) = below + TopFrame.gas
                              /\ GasOf(frames') = below + frames'[Len(frames)].gas
                              /\ GasOf(Callers) = below
<1> DEFINE c == Callers
<1>1. /\ frames \in Seq(Frame) /\ frames' \in Seq(Frame) /\ Len(frames) \in Nat \ {0}
      /\ c \in Seq(Frame) /\ Len(c) = Len(frames) - 1
      /\ \A i \in 1 .. Len(frames) - 1 : c[i] = frames[i]
  BY TopIsFrame DEF IInv, TypeOK
<1> HIDE DEF c
<1>2. Len(frames) = Len(c) + 1 /\ Len(frames') = Len(c) + 1
      /\ (\A i \in 1 .. Len(c) : frames[i] = c[i]) /\ \A i \in 1 .. Len(c) : frames'[i] = c[i]
  BY <1>1
<1>3. GasOf(c) \in Nat /\ GasOf(frames) = GasOf(c) + frames[Len(frames)].gas
      /\ GasOf(frames') = GasOf(c) + frames'[Len(frames')].gas
  BY <1>1, <1>2, GasOfTop
<1> QED BY <1>3 DEF TopFrame, c

LEMMA InFlightIs ==
    ASSUME IInv, IInv'
    PROVE  /\ ctl \in {"invoke", "host"} => InFlight = GreaterOf(call.gas, 0)
           /\ ctl = "return" =>
                InFlight = IF frames = <<>> THEN ret.gas ELSE Clamp(ret.gas, 0, TopFrame.callgas)
           /\ ctl = "exec" => InFlight = 0
           /\ ctl' \in {"invoke", "host"} => InFlight' = GreaterOf(call'.gas, 0)
           /\ ctl' = "return" =>
                InFlight' = IF frames' = <<>> THEN ret'.gas
                            ELSE Clamp(ret'.gas, 0, TopFrame'.callgas)
           /\ ctl' = "exec" => InFlight' = 0
BY DEF InFlight

LEMMA TopGas ==
    ASSUME IInv, frames # <<>>
    PROVE  /\ GasOf(Callers) \in Nat /\ TopFrame.gas \in Nat /\ TopFrame.callgas \in Nat
           /\ GasOf(frames) = GasOf(Callers) + TopFrame.gas
<1> DEFINE c == Callers
<1>1. /\ frames \in Seq(Frame) /\ TopFrame \in Frame /\ c \in Seq(Frame)
      /\ Len(frames) \in Nat /\ Len(c) = Len(frames) - 1
      /\ \A i \in 1 .. Len(frames) - 1 : c[i] = frames[i]
  BY TopIsFrame DEF IInv, TypeOK
<1> HIDE DEF c
<1>2. Len(frames) = Len(c) + 1 /\ \A i \in 1 .. Len(c) : frames[i] = c[i]
  BY <1>1
<1>3. GasOf(c) \in Nat /\ GasOf(frames) = GasOf(c) + frames[Len(frames)].gas
  BY <1>1, <1>2, GasOfTop
<1> QED BY <1>1, <1>3, FrameFields DEF TopFrame, c

LEMMA AdvancesConserves ==
    ASSUME IInv, IInv', GasConserved, Advances
    PROVE  GasConserved'
<1> PICK k, s, m : Continue(Advanced(TopFrame, k, s, m))
  BY DEF Advances
<1> DEFINE g == Advanced(TopFrame, k, s, m)
<1>1. TypeOK /\ ctl = "exec" /\ frames # <<>> /\ TopFrame \in Frame /\ TopFrame.gas \in Nat
  BY TopIsFrame, FrameFields DEF Advances, IInv, ControlInv
<1>2. g.gas = TopFrame.gas - 1
  BY <1>1 DEF Advanced, Frame
<1>3. frames' = Append(Callers, g) /\ UNCHANGED ctl
  BY DEF Continue
<1> HIDE DEF g
<1>4. Len(frames') = Len(frames) /\ frames'[Len(frames)] = g
      /\ \A i \in 1 .. Len(frames) - 1 : frames'[i] = frames[i]
  BY <1>1, <1>3, Swapped
<1>5. PICK below \in Nat : GasOf(frames) = below + TopFrame.gas
                           /\ GasOf(frames') = below + g.gas
  BY <1>1, <1>4, GasSplit
<1>6. InFlight = 0 /\ InFlight' = 0
  BY <1>1, <1>3, InFlightIs
<1>7. steps \in Nat /\ allowance \in Nat /\ steps' = steps + 1 /\ allowance' = allowance
  BY DEF Advances, Dispatch, IInv, TypeOK, WorldOK
<1>8. FramesGas = GasOf(frames) /\ FramesGas' = GasOf(frames')
  BY FramesGasIs
<1> QED BY <1>1, <1>2, <1>5, <1>6, <1>7, <1>8 DEF GasConserved

LEMMA ReturnsConserves ==
    ASSUME IInv, IInv', GasConserved, Returns
    PROVE  GasConserved'
<1>1. PICK status \in Status, gas \in 0 .. TopFrame.gas, size \in Nat :
         /\ Return(status, gas, size)
         /\ status \notin {"SUCCESS", "REVERT"} => gas = 0 /\ size = 0
         /\ status \in {"SUCCESS", "REVERT"} => gas + steps' = TopFrame.gas + steps
  BY DEF Returns
<1>2. ctl = "exec" /\ frames # <<>> /\ TopFrame.gas \in Nat /\ frames \in Seq(Frame)
  BY TopIsFrame, FrameFields DEF Returns, IInv, ControlInv, TypeOK
<1>3. frames' = Callers /\ ctl' = "return" /\ ret'.gas = gas /\ gas \in Nat
  BY <1>1, <1>2 DEF Return, MakeResult
<1>4. GasOf(Callers) \in Nat /\ GasOf(frames) = GasOf(Callers) + TopFrame.gas
  BY <1>2, TopGas
<1>5. InFlight = 0 /\ InFlight' \in Int /\ InFlight' <= gas
  <2>1. InFlight' = IF frames' = <<>> THEN gas ELSE Clamp(gas, 0, TopFrame'.callgas)
    BY <1>3, InFlightIs
  <2>2. frames' # <<>> => TopFrame'.callgas \in Nat
    <3>1. frames' \in Seq(Frame)
      BY DEF IInv, TypeOK
    <3>2. frames' # <<>> => frames'[Len(frames')] \in Frame
      BY <3>1, TopOfSeq
    <3> QED BY <3>2, FrameFields DEF TopFrame
  <2>3. \A c \in Nat : Clamp(gas, 0, c) <= gas /\ Clamp(gas, 0, c) \in Int
    BY <1>3 DEF Clamp
  <2> QED BY <1>2, <1>3, <2>1, <2>2, <2>3, InFlightIs
<1>6. steps \in Nat /\ allowance \in Nat /\ allowance' = allowance
      /\ gas + steps' <= TopFrame.gas + steps /\ steps' \in Nat
  <2>1. steps \in Nat /\ allowance \in Nat
    BY DEF IInv, TypeOK, WorldOK
  <2>2. allowance' = allowance /\ (steps' = steps \/ (steps' = steps + 1 /\ TopFrame.gas >= 1))
    BY DEF Returns, Paying, Dispatch, Quiet
  <2>3. CASE status \in {"SUCCESS", "REVERT"}
    BY <1>1, <1>2, <1>3, <2>1, <2>2, <2>3
  <2>4. CASE status \notin {"SUCCESS", "REVERT"}
    <3>1. gas = 0
      BY <1>1, <2>4
    <3> QED BY <1>2, <2>1, <2>2, <3>1
  <2> QED BY <2>3, <2>4
<1>7. FramesGas = GasOf(frames) /\ FramesGas' = GasOf(Callers)
  BY <1>3, FramesGasIs
<1> QED BY <1>2, <1>3, <1>4, <1>5, <1>6, <1>7 DEF GasConserved

\* A CALL hands over what it takes from the caller: the message holds it.
LEMMA CallHostConserves ==
    ASSUME IInv, IInv', GasConserved, CallHost
    PROVE  GasConserved'
<1> DEFINE f == TopFrame
           lent == CallMessage(f).gas
<1>1. PICK s, m : /\ frames' = Append(Callers, Suspended(f, lent, s, m)) /\ ctl' = "host"
                  /\ Ready("CALL") /\ f.msg.depth < MaxDepth /\ CallArgs <= Len(f.stack)
                  /\ (f.msg.static => Arg(f, 3) = 0) /\ call' = CallMessage(f) /\ Dispatch
  <2>1. Len(f.stack) >= CallArgs => CallArgs <= Len(f.stack)
    OBVIOUS
  <2> QED BY <2>1 DEF CallHost, CallAllowed, CallValueBanned
<1>2. "CALL" \in Op
  BY PopsAndPushes
<1>3. TypeOK /\ frames # <<>> /\ f \in Frame /\ f.gas \in Nat /\ f.gas >= 1 /\ f.callgas = 0
      /\ ctl = "exec"
  BY <1>1, <1>2, ReadyFacts DEF IInv
<1>4. lent \in Nat /\ call'.gas = lent
  BY <1>1, <1>3, CallMessageFacts
<1> DEFINE g == Suspended(f, lent, s, m)
<1> HIDE DEF lent
<1>5. g.gas = f.gas - 1 - lent
  BY <1>3 DEF Suspended, Advanced, Frame
<1> HIDE DEF g
<1>6. frames' = Append(Callers, g)
  BY <1>1 DEF g
<1>7. Len(frames') = Len(frames) /\ frames'[Len(frames)] = g
      /\ \A i \in 1 .. Len(frames) - 1 : frames'[i] = frames[i]
  BY <1>3, <1>6, Swapped
<1>8. PICK below \in Nat : GasOf(frames) = below + TopFrame.gas
                           /\ GasOf(frames') = below + g.gas
  BY <1>3, <1>7, GasSplit
<1>9. InFlight = 0 /\ InFlight' = lent
  BY <1>1, <1>3, <1>4, InFlightIs DEF GreaterOf
<1>10. steps \in Nat /\ allowance \in Nat /\ steps' = steps + 1 /\ allowance' = allowance
  BY <1>1 DEF Dispatch, IInv, TypeOK, WorldOK
<1>11. FramesGas = GasOf(frames) /\ FramesGas' = GasOf(frames')
  BY FramesGasIs
<1> QED BY <1>1, <1>3, <1>4, <1>5, <1>8, <1>9, <1>10, <1>11 DEF GasConserved

\* What a caller takes back was on its way to it.
LEMMA ResumeConserves ==
    ASSUME IInv, IInv', GasConserved, Resume
    PROVE  GasConserved'
<1> DEFINE f == TopFrame
           back == Clamp(ret.gas, 0, f.callgas)
<1>1. TypeOK /\ ctl = "return" /\ frames # <<>> /\ f \in Frame /\ Room(f) /\ ret \in Result
  BY TopIsFrame DEF Resume, IInv, ControlInv, TypeOK
<1>2. ~(Len(f.stack) >= StackLimit)
  BY <1>1, FrameFields, ConstantsAssumption DEF Room, CallArgs
<1>3. PICK w : frames' = Append(Callers, Resumed(f, back, w)) /\ ctl' = "exec" /\ Quiet
  BY <1>2 DEF Resume
<1>4. f.gas \in Nat /\ f.callgas \in Nat /\ back \in Nat /\ back <= f.callgas
  BY <1>1, FrameFields, ClampWithin DEF Result
<1>5. InFlight = back /\ InFlight' = 0
  BY <1>1, <1>3, InFlightIs
<1> DEFINE g == Resumed(f, back, w)
<1> HIDE DEF back
<1>6. g.gas = f.gas + back
  BY <1>1 DEF Resumed, Frame
<1> HIDE DEF g
<1>7. frames' = Append(Callers, g)
  BY <1>3 DEF g
<1>8. Len(frames') = Len(frames) /\ frames'[Len(frames)] = g
      /\ \A i \in 1 .. Len(frames) - 1 : frames'[i] = frames[i]
  BY <1>1, <1>7, Swapped
<1>9. PICK below \in Nat : GasOf(frames) = below + TopFrame.gas
                           /\ GasOf(frames') = below + g.gas
  BY <1>1, <1>8, GasSplit
<1>10. steps \in Nat /\ allowance \in Nat /\ steps' = steps /\ allowance' = allowance
  BY <1>3 DEF Quiet, IInv, TypeOK, WorldOK
<1>11. FramesGas = GasOf(frames) /\ FramesGas' = GasOf(frames')
  BY FramesGasIs
<1> QED BY <1>1, <1>4, <1>5, <1>6, <1>9, <1>10, <1>11 DEF GasConserved

LEMMA ConservedNext ==
    ASSUME NEW held, NEW moving, NEW done, NEW given, held + moving + done <= given,
           FramesGas' = held, InFlight' = moving, steps' = done, allowance' = given
    PROVE  GasConserved'
BY Zenon DEF GasConserved

\* The host neither adds gas to a message nor delivers more than the caller has lent.
LEMMA HostConserves ==
    ASSUME IInv, IInv', GasConserved, Start \/ Host
    PROVE  GasConserved'
<1>1. CASE Start
  <2>1. \E m \in Messages : call' = m /\ allowance' = GreaterOf(m.gas, 0)
    BY <1>1 DEF Start
  <2>2. frames' = <<>> /\ ctl' = "invoke" /\ steps' = 0
    BY <1>1 DEF Start, IInv, ControlInv
  <2>3. FramesGas' = 0
    BY <2>2, FramesGasIs, NoFramesGas
  <2>4. allowance' = GreaterOf(call'.gas, 0) /\ call'.gas \in Int
    BY <2>1, ConstantsAssumption, MessageFields
  <2>5. PICK given \in Nat : given = allowance' /\ given = InFlight'
    BY <2>2, <2>4, InFlightIs DEF GreaterOf
  <2>6. 0 + given + 0 <= given
    OBVIOUS
  <2> QED BY <2>2, <2>3, <2>5, <2>6, ConservedNext, Zenon
<1>2. CASE HostAnswers
  <2>2. ctl = "host" /\ ctl' = "return" /\ frames' = frames /\ frames # <<>> /\ Quiet
    BY <1>2 DEF HostAnswers, IInv, ControlInv
  <2>3. PICK lent \in Nat : lent = TopFrame.callgas /\ lent = call.gas
    BY <2>2, TopGas DEF IInv, ControlInv, SentBy
  <2>4. TopFrame'.callgas = lent /\ ret'.gas \in Int
    BY <2>2, <2>3 DEF TopFrame, IInv, TypeOK, Result
  <2>5. InFlight = lent
    BY <2>2, <2>3, InFlightIs DEF GreaterOf
  <2>6. PICK moving \in Int : moving = InFlight' /\ moving <= lent
    <3>1. InFlight' = Clamp(ret'.gas, 0, lent)
      BY <2>2, <2>4, InFlightIs
    <3> QED BY <2>4, <3>1 DEF Clamp
  <2>7. PICK held \in Nat : held = FramesGas /\ held = FramesGas'
    BY <2>2, TopGas, FramesGasIs
  <2>8. PICK done \in Nat, given \in Nat :
           done = steps /\ given = allowance /\ done = steps' /\ given = allowance'
    BY <2>2 DEF Quiet, IInv, TypeOK, WorldOK
  <2>9. held + lent + done <= given
    BY <2>2, <2>5, <2>7, <2>8 DEF GasConserved
  <2>10. held + moving + done <= given
    <3>1. moving <= lent
      BY <2>6
    <3> QED BY <2>9, <3>1
  <2> QED BY <2>6, <2>7, <2>8, <2>10, ConservedNext, Zenon
<1>3. CASE HostExecutes
  <2>1. /\ ctl = "host" /\ ctl' = "invoke" /\ UNCHANGED <<frames, call, steps, allowance>>
    BY <1>3 DEF HostExecutes, Quiet
  <2>2. InFlight' = InFlight /\ FramesGas' = FramesGas
    BY <2>1, InFlightIs, FramesGasIs
  <2> QED BY <2>1, <2>2 DEF GasConserved
<1>4. CASE Deliver
  BY <1>4 DEF Deliver, GasConserved
<1>5. CASE Enter
  <2>1. ctl = "invoke" /\ call.gas \in Int /\ frames \in Seq(Frame) /\ Quiet
    BY <1>5, MessageFields DEF Enter, IInv, TypeOK
  <2>2. steps \in Nat /\ allowance \in Nat /\ UNCHANGED <<steps, allowance>>
    BY <2>1 DEF Quiet, IInv, TypeOK, WorldOK
  <2>3. InFlight = GreaterOf(call.gas, 0)
    BY <2>1, InFlightIs
  <2>4. CASE call.gas < 0 /\ ctl' = "return" /\ ret' = MakeResult("OUT_OF_GAS", 0, 0)
             /\ UNCHANGED frames
    <3>1. frames # <<>> => SentBy(TopFrame, call) /\ TopFrame \in Frame
      BY <2>1, TopIsFrame DEF IInv, ControlInv
    <3>2. frames = <<>> /\ frames' = <<>>
      BY <2>4, <3>1, FrameFields DEF SentBy
    <3>3. ret'.gas = 0
      BY <2>4 DEF MakeResult
    <3>4. InFlight = 0 /\ InFlight' = 0
      BY <2>1, <2>3, <2>4, <3>2, <3>3, InFlightIs DEF GreaterOf
    <3>5. FramesGas' = FramesGas
      BY <3>2, FramesGasIs
    <3> QED BY <2>1, <2>2, <3>4, <3>5 DEF GasConserved
  <2>5. CASE call.gas >= 0 /\ ctl' = "exec" /\ frames' = Append(frames, NewFrame(call))
    <3> DEFINE f == NewFrame(call)
    <3>1. f.gas = call.gas
      BY DEF NewFrame
    <3> HIDE DEF f
    <3>2. frames' \in Seq(Frame)
      BY DEF IInv, TypeOK
    <3>3. Len(frames') = Len(frames) + 1 /\ frames'[Len(frames')] = f
          /\ \A i \in 1 .. Len(frames) : frames'[i] = frames[i]
      <4>1. frames \in Seq(Frame \cup {f}) /\ f \in Frame \cup {f} /\ frames' = Append(frames, f)
        BY <2>1, <2>5, SeqMonotonic DEF f
      <4> QED BY <4>1
    <3>4. GasOf(frames) \in Nat /\ GasOf(frames') = GasOf(frames) + call.gas
      BY <2>1, <3>1, <3>2, <3>3, GasOfTop
    <3>5. InFlight = call.gas /\ InFlight' = 0
      BY <2>1, <2>3, <2>5, InFlightIs DEF GreaterOf
    <3> QED BY <2>1, <2>2, <3>4, <3>5, FramesGasIs DEF GasConserved
  <2> QED BY <1>5, <2>4, <2>5 DEF Enter
<1> QED BY <1>1, <1>2, <1>3, <1>4, <1>5 DEF Host

\* No call tree mints gas, whatever its codes do and whatever its hosts answer, within the
\* contract on gas_left or outside it.
THEOREM GasAlwaysConserved == Spec => []GasConserved
<1>1. Init => GasConserved
  BY DEF Init, GasConserved
<1>2. IInv /\ IInv' /\ GasConserved /\ [Next]_vars => GasConserved'
  <2> SUFFICES ASSUME IInv, IInv', GasConserved, [Next]_vars
               PROVE  GasConserved'
    OBVIOUS
  <2>1. CASE UNCHANGED vars
    BY <2>1 DEF vars, GasConserved, FramesGas, InFlight, TopFrame
  <2>2. CASE Next
    BY <2>2, StepShape, AdvancesConserves, ReturnsConserves, CallHostConserves,
       ResumeConserves, HostConserves
  <2> QED BY <2>1, <2>2
<1> QED BY <1>1, <1>2, Invariance, PTL DEF Spec

----------------------------------------------------------------------------
\* Codes without a CALL never suspend an activation, and meter exactly.
WithoutCalls ==
    \A c \in Codes : \A a \in Word : \A i \in 1 .. Len(c[a]) : c[a][i].op # "CALL"

ExactInv ==
    /\ ctl # "host" /\ (ctl # "exec" => frames = <<>>) /\ Len(frames) <= 1
    /\ ctl = "invoke" => GreaterOf(call.gas, 0) + steps = allowance
    /\ ctl = "exec" => TopFrame.gas + steps = allowance
    /\ MeteredExactly

LEMMA NeverCalls ==
    ASSUME IInv, WithoutCalls
    PROVE  ~Ready("CALL") /\ ~CallRefused /\ ~CallHost
<1>1. ASSUME Ready("CALL") PROVE FALSE
  <2>1. TopFrame \in Frame /\ code \in Codes /\ Dispatching /\ CellAt(TopFrame).op = "CALL"
    BY <1>1, TopIsFrame DEF IInv, ControlInv, Ready, Paid, Dispatching, TypeOK, WorldOK
  <2>2. TopFrame.msg.recipient \in Word /\ TopFrame.pc \in Nat \ {0}
    BY <2>1, FrameFields, MessageFields
  <2>3. code \in [Word -> Seq(Cell)]
    BY <2>1, ConstantsAssumption
  <2>4. code[TopFrame.msg.recipient] \in Seq(Cell)
    BY <2>2, <2>3
  <2>5. TopFrame.pc \in 1 .. Len(code[TopFrame.msg.recipient])
    BY <2>1, <2>2, <2>4 DEF Dispatching, AtEnd, CodeOf
  <2> QED BY <2>1, <2>2, <2>5 DEF WithoutCalls, CellAt, CodeOf
<1> QED BY <1>1 DEF CallRefused, CallHost, CallAllowed

LEMMA ExactStep ==
    ASSUME IInv, IInv', WithoutCalls, ExactInv, Next
    PROVE  ExactInv'
<1>1. CASE Advances
  <2> PICK k, s, m : Continue(Advanced(TopFrame, k, s, m))
    BY <1>1 DEF Advances
  <2> DEFINE g == Advanced(TopFrame, k, s, m)
  <2>1. TypeOK /\ ctl = "exec" /\ frames # <<>> /\ TopFrame \in Frame /\ TopFrame.gas \in Nat
    BY <1>1, TopIsFrame, FrameFields DEF Advances, IInv, ControlInv
  <2>2. g.gas = TopFrame.gas - 1
    BY <2>1 DEF Advanced, Frame
  <2>3. frames' = Append(Callers, g) /\ ctl' = "exec"
    BY <2>1 DEF Continue
  <2> HIDE DEF g
  <2>4. Len(frames') = Len(frames) /\ frames'[Len(frames)] = g
    BY <2>1, <2>3, Swapped
  <2>5. TopFrame'.gas = TopFrame.gas - 1
    BY <2>2, <2>4 DEF TopFrame
  <2>6. steps \in Nat /\ steps' = steps + 1 /\ allowance' = allowance
    BY <1>1 DEF Advances, Dispatch, IInv, TypeOK, WorldOK
  <2>7. TopFrame.gas + steps = allowance /\ Len(frames') <= 1
    BY <2>1, <2>4 DEF ExactInv
  <2>8. TopFrame'.gas + steps' = allowance'
    <3>1. TopFrame.gas - 1 + (steps + 1) = allowance
      BY <2>1, <2>6, <2>7
    <3> QED BY <2>5, <2>6, <3>1, Zenon
  <2> QED BY <2>3, <2>7, <2>8 DEF ExactInv, MeteredExactly
<1>2. CASE Returns
  <2>1. PICK status \in Status, gas \in 0 .. TopFrame.gas, size \in Nat :
           /\ Return(status, gas, size)
           /\ status \notin {"SUCCESS", "REVERT"} => gas = 0 /\ size = 0
           /\ status \in {"SUCCESS", "REVERT"} => gas + steps' = TopFrame.gas + steps
    BY <1>2 DEF Returns
  <2>2. ctl = "exec" /\ frames # <<>> /\ allowance' = allowance
        /\ TopFrame.gas + steps = allowance
    BY <1>2 DEF Returns, Paying, Dispatch, Quiet, IInv, ControlInv, ExactInv
  <2>3. frames' = <<>>
    <3>1. Len(frames') = Len(frames) - 1 /\ Len(frames) \in Nat \ {0} /\ Len(frames) <= 1
      BY <2>1, <2>2, TopIsFrame DEF Return, IInv, ExactInv
    <3>2. frames' \in Seq(Frame) /\ Len(frames') = 0
      BY <3>1 DEF IInv, TypeOK
    <3> QED BY <3>2, EmptySeq
  <2>4. ctl' = "return" /\ ret'.gas = gas /\ ret'.status = status
    BY <2>1 DEF Return, MakeResult
  <2>5. MeteredExactly'
    BY <2>1, <2>2, <2>4, Zenon DEF MeteredExactly
  <2>6. Len(frames') <= 1
    BY <2>3
  <2> QED BY <2>3, <2>4, <2>5, <2>6 DEF ExactInv
<1>3. ~CallHost
  BY NeverCalls
<1>4. CASE Resume
  BY <1>4 DEF Resume, ExactInv
<1>5. CASE Start
  <2>1. \E m \in Messages : call' = m /\ allowance' = GreaterOf(m.gas, 0)
    BY <1>5 DEF Start
  <2>2. frames' = <<>> /\ ctl' = "invoke" /\ steps' = 0
    BY <1>5 DEF Start, IInv, ControlInv
  <2>3. allowance' = GreaterOf(call'.gas, 0) /\ GreaterOf(call'.gas, 0) + 0 = GreaterOf(call'.gas, 0)
    BY <2>1, ConstantsAssumption, MessageFields DEF GreaterOf
  <2>4. GreaterOf(call'.gas, 0) + steps' = allowance'
    BY <2>2, <2>3, Zenon
  <2>5. Len(frames') <= 1
    BY <2>2
  <2> QED BY <2>2, <2>4, <2>5 DEF ExactInv, MeteredExactly
<1>6. CASE HostAnswers \/ HostExecutes
  BY <1>6 DEF HostAnswers, HostExecutes, ExactInv
<1>7. CASE Deliver
  BY <1>7 DEF Deliver, ExactInv, MeteredExactly
<1>8. CASE Enter
  <2>1. ctl = "invoke" /\ frames = <<>> /\ GreaterOf(call.gas, 0) + steps = allowance
        /\ UNCHANGED <<steps, allowance>>
    BY <1>8 DEF Enter, Quiet, ExactInv
  <2>2. CASE ctl' = "return" /\ ret' = MakeResult("OUT_OF_GAS", 0, 0) /\ UNCHANGED frames
    <3>1. ret'.status = "OUT_OF_GAS" /\ Len(frames') <= 1
      BY <2>1, <2>2 DEF MakeResult
    <3> QED BY <2>1, <2>2, <3>1 DEF ExactInv, MeteredExactly
  <2>3. CASE call.gas >= 0 /\ ctl' = "exec" /\ frames' = Append(frames, NewFrame(call))
    <3> DEFINE f == NewFrame(call)
    <3>1. f.gas = call.gas /\ call.gas \in Int
      BY MessageFields DEF NewFrame, IInv, TypeOK
    <3> HIDE DEF f
    <3>2. frames' = <<f>>
      BY <2>1, <2>3 DEF f
    <3>3. Len(frames') <= 1 /\ TopFrame' = f
      BY <3>2 DEF TopFrame
    <3>4. call.gas + steps = allowance
      BY <2>1, <2>3, <3>1 DEF GreaterOf
    <3>5. TopFrame'.gas + steps' = allowance'
      BY <2>1, <3>1, <3>3, <3>4, Zenon
    <3> QED BY <2>3, <3>3, <3>5 DEF ExactInv, MeteredExactly
  <2> QED BY <1>8, <2>2, <2>3 DEF Enter
<1> QED BY <1>1, <1>2, <1>3, <1>4, <1>5, <1>6, <1>7, <1>8, StepShape DEF Host

\* Without calls an execution that succeeds or reverts returns its gas less one per
\* instruction dispatched, whichever way its code ended.
THEOREM AlwaysMeteredExactly == WithoutCalls => (Spec => []MeteredExactly)
<1>1. SUFFICES ASSUME WithoutCalls PROVE Spec => []MeteredExactly
  OBVIOUS
<1>2. Init => ExactInv
  BY DEF Init, ExactInv, MeteredExactly
<1>3. IInv /\ IInv' /\ ExactInv /\ [Next]_vars => ExactInv'
  <2> SUFFICES ASSUME IInv, IInv', ExactInv, [Next]_vars
               PROVE  ExactInv'
    OBVIOUS
  <2>1. CASE UNCHANGED vars
    BY <2>1 DEF vars, ExactInv, MeteredExactly, TopFrame
  <2>2. CASE Next
    BY <1>1, <2>2, ExactStep
  <2> QED BY <2>1, <2>2
<1>4. ExactInv => MeteredExactly
  BY DEF ExactInv
<1> QED BY <1>2, <1>3, <1>4, Invariance, PTL DEF Spec
----------------------------------------------------------------------------
----------------------------------------------------------------------------
\* The instruction tables.  The enumeration read as a function, the other way round from At:
\* the number of an instruction.
WordNumber ==
    [STOP |-> 0, ADD |-> 1, MUL |-> 2, SUB |-> 3, DIV |-> 4, SDIV |-> 5, MOD |-> 6, SMOD |-> 7,
     ADDMOD |-> 8, MULMOD |-> 9, EXP |-> 10, SIGNEXTEND |-> 11,
     LT |-> 16, GT |-> 17, SLT |-> 18, SGT |-> 19, EQ |-> 20, ISZERO |-> 21, AND |-> 22, OR |-> 23,
     XOR |-> 24, NOT |-> 25, BYTE |-> 26, SHL |-> 27, SHR |-> 28, SAR |-> 29, KECCAK256 |-> 32,
     ADDRESS |-> 48, BALANCE |-> 49, ORIGIN |-> 50, CALLER |-> 51, CALLVALUE |-> 52,
     CALLDATALOAD |-> 53, CALLDATASIZE |-> 54, CALLDATACOPY |-> 55, CODESIZE |-> 56,
     CODECOPY |-> 57, GASPRICE |-> 58, EXTCODESIZE |-> 59, EXTCODECOPY |-> 60,
     RETURNDATASIZE |-> 61, RETURNDATACOPY |-> 62, EXTCODEHASH |-> 63, BLOCKHASH |-> 64,
     COINBASE |-> 65, TIMESTAMP |-> 66, NUMBER |-> 67, PREVRANDAO |-> 68, GASLIMIT |-> 69,
     CHAINID |-> 70, SELFBALANCE |-> 71, BASEFEE |-> 72,
     POP |-> 80, MLOAD |-> 81, MSTORE |-> 82, MSTORE8 |-> 83, SLOAD |-> 84, SSTORE |-> 85,
     JUMP |-> 86, JUMPI |-> 87, PC |-> 88, MSIZE |-> 89, GAS |-> 90, JUMPDEST |-> 91,
     CREATE |-> 240, CALL |-> 241, RETURN |-> 243, DELEGATECALL |-> 244, CREATE2 |-> 245,
     STATICCALL |-> 250, REVERT |-> 253, INVALID |-> 254]

RunStart == [PUSH |-> 95, DUP |-> 159, SWAP |-> 175, LOG |-> 192]

NumberOf(i) == IF i[1] \in DOMAIN RunStart THEN RunStart[i[1]] + i[2] ELSE WordNumber[i[1]]

\* The opcodes no instruction has.
Gaps == 12 .. 15 \cup 30 .. 31 \cup 33 .. 47 \cup 73 .. 79 \cup 92 .. 94 \cup 197 .. 239
          \cup {242} \cup 246 .. 249 \cup 251 .. 252 \cup {255}
OnlyGaps(first, n) == \A b \in first .. first + n - 1 : b \in Gaps

\* The runs of the enumeration.
Words00 == <<"STOP", "ADD", "MUL", "SUB", "DIV", "SDIV", "MOD", "SMOD", "ADDMOD", "MULMOD",
             "EXP", "SIGNEXTEND">>
Words10 == <<"LT", "GT", "SLT", "SGT", "EQ", "ISZERO", "AND", "OR", "XOR", "NOT",
             "BYTE", "SHL", "SHR", "SAR">>
Words20 == <<"KECCAK256">>
Words30 == <<"ADDRESS", "BALANCE", "ORIGIN", "CALLER", "CALLVALUE", "CALLDATALOAD",
             "CALLDATASIZE", "CALLDATACOPY", "CODESIZE", "CODECOPY", "GASPRICE",
             "EXTCODESIZE", "EXTCODECOPY", "RETURNDATASIZE", "RETURNDATACOPY",
             "EXTCODEHASH", "BLOCKHASH", "COINBASE", "TIMESTAMP", "NUMBER",
             "PREVRANDAO", "GASLIMIT", "CHAINID", "SELFBALANCE", "BASEFEE">>
Words50 == <<"POP", "MLOAD", "MSTORE", "MSTORE8", "SLOAD", "SSTORE", "JUMP", "JUMPI",
             "PC", "MSIZE", "GAS", "JUMPDEST">>
WordsF0 == <<"CREATE", "CALL">>
WordsF3 == <<"RETURN", "DELEGATECALL", "CREATE2">>
WordsFA == <<"STATICCALL">>
WordsFD == <<"REVERT", "INVALID">>

\* A run of n instructions from number first: each has the number of its place.
IsRun(run, first, n) ==
    /\ DOMAIN run = 1 .. n /\ run = [j \in 1 .. n |-> run[j]]
    /\ \A j \in 1 .. n : NumberOf(run[j]) = first + j - 1 /\ run[j] # NoName

LEMMA WordRun ==
    ASSUME NEW words, NEW n \in Nat, DOMAIN words = 1 .. n, NEW first \in Nat,
           \A j \in 1 .. n : words[j] \notin DOMAIN RunStart \cup {"NULL"},
           \A j \in 1 .. n : WordNumber[words[j]] = first + j - 1
    PROVE  IsRun(Plain(words), first, n)
<1>1. Plain(words) = [j \in 1 .. n |-> <<words[j], 0>>]
  BY DEF Plain
<1>2. ASSUME NEW j \in 1 .. n
      PROVE  NumberOf(Plain(words)[j]) = first + j - 1 /\ Plain(words)[j] # NoName
  <2>1. Plain(words)[j][1] = words[j]
    BY <1>1
  <2>2. NoName[1] = "NULL"
    BY DEF NoName
  <2> QED BY <2>1, <2>2 DEF NumberOf
<1> QED BY <1>1, <1>2 DEF IsRun

LEMMA NumberedRun ==
    ASSUME NEW word \in DOMAIN RunStart, NEW low \in Nat, NEW high \in Nat, NEW n \in Nat,
           n = high - low + 1, NEW first \in Nat, first = RunStart[word] + low
    PROVE  IsRun(Numbered(word, low, high), first, n)
<1> DEFINE run == Numbered(word, low, high)
<1>1. run = [j \in 1 .. n |-> <<word, low + j - 1>>]
  BY DEF Numbered
<1>2. ASSUME NEW j \in 1 .. n PROVE NumberOf(run[j]) = first + j - 1 /\ run[j] # NoName
  <2>1. run[j][1] = word /\ run[j][2] = low + j - 1
    BY <1>1
  <2>2. RunStart[word] \in Int
    BY DEF RunStart
  <2>3. NumberOf(run[j]) = RunStart[word] + (low + j - 1)
    BY <2>1 DEF NumberOf
  <2>4. word # "NULL" /\ NoName[1] = "NULL"
    BY DEF RunStart, NoName
  <2> QED BY <2>1, <2>2, <2>3, <2>4
<1>3. DOMAIN run = 1 .. n /\ run = [j \in 1 .. n |-> run[j]]
  BY <1>1
<1> QED BY <1>2, <1>3 DEF IsRun

LEMMA Runs ==
    /\ IsRun(Plain(Words00), 0, 12) /\ IsRun(Plain(Words10), 16, 14)
    /\ IsRun(Plain(Words20), 32, 1) /\ IsRun(Plain(Words30), 48, 25)
    /\ IsRun(Plain(Words50), 80, 12) /\ IsRun(Plain(WordsF0), 240, 2)
    /\ IsRun(Plain(WordsF3), 243, 3) /\ IsRun(Plain(WordsFA), 250, 1)
    /\ IsRun(Plain(WordsFD), 253, 2)
    /\ IsRun(Numbered("PUSH", 0, 64), 95, 65) /\ IsRun(Numbered("DUP", 1, 16), 160, 16)
    /\ IsRun(Numbered("SWAP", 1, 16), 176, 16) /\ IsRun(Numbered("LOG", 0, 4), 192, 5)
<1> DEFINE right(words, first, n) ==
             /\ DOMAIN words = 1 .. n
             /\ \A j \in 1 .. n : words[j] \notin {"PUSH", "DUP", "SWAP", "LOG", "NULL"}
             /\ \A j \in 1 .. n : WordNumber[words[j]] = first + j - 1
<1>1. right(Words00, 0, 12)
  BY DEF Words00, WordNumber
<1>2. right(Words10, 16, 14)
  BY DEF Words10, WordNumber
<1>3. right(Words20, 32, 1)
  BY DEF Words20, WordNumber
<1>4. right(Words30, 48, 25)
  BY DEF Words30, WordNumber
<1>5. right(Words50, 80, 12)
  BY DEF Words50, WordNumber
<1>6. right(WordsF0, 240, 2) /\ right(WordsF3, 243, 3)
  BY DEF WordsF0, WordsF3, WordNumber
<1>7. right(WordsFA, 250, 1) /\ right(WordsFD, 253, 2)
  BY DEF WordsFA, WordsFD, WordNumber
<1>8. DOMAIN RunStart = {"PUSH", "DUP", "SWAP", "LOG"}
  BY DEF RunStart
<1>9. ASSUME NEW words, NEW first \in Nat, NEW n \in Nat, right(words, first, n)
      PROVE  IsRun(Plain(words), first, n)
  BY <1>8, <1>9, WordRun
<1> HIDE DEF right
<1>10. /\ IsRun(Plain(Words00), 0, 12) /\ IsRun(Plain(Words10), 16, 14)
       /\ IsRun(Plain(Words20), 32, 1) /\ IsRun(Plain(Words30), 48, 25)
       /\ IsRun(Plain(Words50), 80, 12) /\ IsRun(Plain(WordsF0), 240, 2)
       /\ IsRun(Plain(WordsF3), 243, 3) /\ IsRun(Plain(WordsFA), 250, 1)
       /\ IsRun(Plain(WordsFD), 253, 2)
  BY <1>1, <1>2, <1>3, <1>4, <1>5, <1>6, <1>7, <1>9
<1>11. /\ RunStart["PUSH"] = 95 /\ RunStart["DUP"] = 159
       /\ RunStart["SWAP"] = 175 /\ RunStart["LOG"] = 192
  BY DEF RunStart
<1>12. /\ IsRun(Numbered("PUSH", 0, 64), 95, 65) /\ IsRun(Numbered("DUP", 1, 16), 160, 16)
       /\ IsRun(Numbered("SWAP", 1, 16), 176, 16) /\ IsRun(Numbered("LOG", 0, 4), 192, 5)
  BY <1>8, <1>11, NumberedRun
<1> QED BY <1>10, <1>12

\* What the enumeration lists: instructions under their number, none of them a gap.
LEMMA EnumeratorsAre ==
    Enumerators = At(0, Plain(Words00)) \cup At(16, Plain(Words10)) \cup At(32, Plain(Words20))
      \cup At(48, Plain(Words30)) \cup At(80, Plain(Words50))
      \cup At(95, Numbered("PUSH", 0, 64)) \cup At(160, Numbered("DUP", 1, 16))
      \cup At(176, Numbered("SWAP", 1, 16)) \cup At(192, Numbered("LOG", 0, 4))
      \cup At(240, Plain(WordsF0)) \cup At(243, Plain(WordsF3)) \cup At(250, Plain(WordsFA))
      \cup At(253, Plain(WordsFD))
BY DEF Enumerators, WordOpcodes, StateOpcodes, StackOpcodes, SystemOpcodes,
   Words00, Words10, Words20, Words30, Words50, WordsF0, WordsF3, WordsFA, WordsFD

LEMMA RunListed ==
    ASSUME NEW run, NEW first \in Nat, NEW n \in Nat, IsRun(run, first, n)
    PROVE  \A e \in At(first, run) :
             e[2] = NumberOf(e[1]) /\ e[1] # NoName /\ e[2] \in first .. first + n - 1
<1> SUFFICES ASSUME NEW e \in At(first, run)
             PROVE  e[2] = NumberOf(e[1]) /\ e[1] # NoName /\ e[2] \in first .. first + n - 1
  OBVIOUS
<1>1. PICK j \in 1 .. n : e = <<run[j], first + j - 1>>
  BY DEF At, IsRun
<1>2. e[1] = run[j] /\ e[2] = first + j - 1
  BY <1>1
<1> QED BY <1>2 DEF IsRun

LEMMA EnumeratorsNumbered ==
    \A e \in Enumerators :
      e[2] = NumberOf(e[1]) /\ e[1] # NoName /\ e[2] \in Byte /\ e[2] \notin Gaps
<1> DEFINE at(run, first, n) ==
             \A e \in At(first, run) :
               e[2] = NumberOf(e[1]) /\ e[1] # NoName /\ e[2] \in first .. first + n - 1
<1>1. /\ at(Plain(Words00), 0, 12) /\ at(Plain(Words10), 16, 14)
      /\ at(Plain(Words20), 32, 1) /\ at(Plain(Words30), 48, 25)
      /\ at(Plain(Words50), 80, 12) /\ at(Plain(WordsF0), 240, 2)
      /\ at(Plain(WordsF3), 243, 3) /\ at(Plain(WordsFA), 250, 1)
      /\ at(Plain(WordsFD), 253, 2)
      /\ at(Numbered("PUSH", 0, 64), 95, 65) /\ at(Numbered("DUP", 1, 16), 160, 16)
      /\ at(Numbered("SWAP", 1, 16), 176, 16) /\ at(Numbered("LOG", 0, 4), 192, 5)
  <2>1. \A run, first, n : first \in Nat /\ n \in Nat /\ IsRun(run, first, n) => at(run, first, n)
    BY RunListed
  <2> HIDE DEF at
  <2> QED BY <2>1, Runs
<1> SUFFICES ASSUME NEW e \in Enumerators
             PROVE  e[2] = NumberOf(e[1]) /\ e[1] # NoName /\ e[2] \in Byte /\ e[2] \notin Gaps
  OBVIOUS
<1>2. /\ e[2] = NumberOf(e[1]) /\ e[1] # NoName
      /\ \/ e[2] \in 0 .. 0 + 12 - 1 \/ e[2] \in 16 .. 16 + 14 - 1 \/ e[2] \in 32 .. 32 + 1 - 1
         \/ e[2] \in 48 .. 48 + 25 - 1 \/ e[2] \in 80 .. 80 + 12 - 1 \/ e[2] \in 95 .. 95 + 65 - 1
         \/ e[2] \in 160 .. 160 + 16 - 1 \/ e[2] \in 176 .. 176 + 16 - 1
         \/ e[2] \in 192 .. 192 + 5 - 1 \/ e[2] \in 240 .. 240 + 2 - 1
         \/ e[2] \in 243 .. 243 + 3 - 1 \/ e[2] \in 250 .. 250 + 1 - 1
         \/ e[2] \in 253 .. 253 + 2 - 1
  BY <1>1, EnumeratorsAre
<1> QED BY <1>2 DEF Byte, Gaps

\* The opcode of an instruction that is listed.
LEMMA OpcodeIs ==
    ASSUME NEW i, NEW n, <<i, n>> \in Enumerators
    PROVE  i \in DOMAIN Opcode /\ Opcode[i] = n
<1> DEFINE chosen == CHOOSE e \in Enumerators : e[1] = i
<1>1. i \in DOMAIN Opcode /\ Opcode[i] = chosen[2]
  <2>1. <<i, n>>[1] = i
    OBVIOUS
  <2> QED BY <2>1 DEF Opcode
<1>2. chosen \in Enumerators /\ chosen[1] = i
  <2>1. \E e \in Enumerators : e[1] = i
    <3>1. <<i, n>>[1] = i
      OBVIOUS
    <3> QED BY <3>1
  <2> QED BY <2>1
<1>3. chosen[2] = NumberOf(i)
  <2> HIDE DEF chosen
  <2> QED BY <1>2, EnumeratorsNumbered
<1>4. n = NumberOf(i)
  <2>1. <<i, n>>[1] = i /\ <<i, n>>[2] = n
    OBVIOUS
  <2> QED BY <2>1, EnumeratorsNumbered
<1> QED BY <1>1, <1>3, <1>4

\* An opcode that has an instruction is listed with it.
LEMMA OpcodeListed ==
    ASSUME NEW i \in DOMAIN Opcode
    PROVE  <<i, Opcode[i]>> \in Enumerators
<1>1. PICK e \in Enumerators : e[1] = i
  BY DEF Opcode
<1>2. e = <<i, e[2]>>
  BY <1>1 DEF Enumerators, WordOpcodes, StateOpcodes, StackOpcodes, SystemOpcodes, At
<1>3. <<i, e[2]>> \in Enumerators
  BY <1>2
<1> QED BY <1>3, OpcodeIs

----------------------------------------------------------------------------
\* n rows of a table, for the opcodes from first on: each one is related to its opcode.
Fills(S, R, first, s, n) ==
    /\ s \in Seq(S) /\ Len(s) = n
    /\ \A j \in 1 .. n : <<first + j - 1, s[j]>> \in R

LEMMA FilledByFunction ==
    ASSUME NEW S, NEW R, R \subseteq Int \X S, NEW first \in Nat, NEW n \in Nat, NEW s,
           s = [j \in 1 .. n |-> s[j]], \A j \in 1 .. n : <<first + j - 1, s[j]>> \in R
    PROVE  Fills(S, R, first, s, n)
<1>1. \A j \in 1 .. n : s[j] \in S
  <2> SUFFICES ASSUME NEW j \in 1 .. n PROVE s[j] \in S
    OBVIOUS
  <2>1. <<first + j - 1, s[j]>> \in Int \X S
    OBVIOUS
  <2> QED BY <2>1
<1>2. s \in [1 .. n -> S]
  BY <1>1
<1>3. s \in Seq(S) /\ Len(s) = n
  BY <1>2
<1> QED BY <1>3 DEF Fills

\* The same row n times.
LEMMA FilledByTimes ==
    ASSUME NEW S, NEW R, R \subseteq Int \X S, NEW first \in Nat, NEW n \in Nat, NEW row,
           \A b \in first .. first + n - 1 : <<b, row>> \in R
    PROVE  Fills(S, R, first, Times(n, row), n)
<1>1. Times(n, row) = [j \in 1 .. n |-> row]
  BY DEF Times
<1>2. ASSUME NEW j \in 1 .. n PROVE <<first + j - 1, Times(n, row)[j]>> \in R
  <2>1. first + j - 1 \in first .. first + n - 1
    OBVIOUS
  <2>2. Times(n, row)[j] = row
    BY <1>1
  <2> QED BY <2>1, <2>2
<1>3. Times(n, row) = [j \in 1 .. n |-> Times(n, row)[j]]
  BY <1>1
<1> QED BY <1>2, <1>3, FilledByFunction

\* Two pieces of a table, one after the other.
LEMMA Joined ==
    ASSUME NEW S, NEW R, NEW first \in Nat, NEW n \in Nat, NEW m \in Nat, NEW s, NEW t,
           Fills(S, R, first, s, n), NEW second \in Nat, second = first + n,
           Fills(S, R, second, t, m), NEW l \in Nat, l = n + m
    PROVE  Fills(S, R, first, s \o t, l)
<1>1. s \in Seq(S) /\ Len(s) = n /\ t \in Seq(S) /\ Len(t) = m
  BY DEF Fills
<1>2. /\ s \o t \in Seq(S) /\ Len(s \o t) = l
      /\ \A j \in 1 .. l : (s \o t)[j] = IF j <= n THEN s[j] ELSE t[j - n]
  BY <1>1, ConcatProperties
<1>3. ASSUME NEW j \in 1 .. l PROVE <<first + j - 1, (s \o t)[j]>> \in R
  <2>1. CASE j <= n
    <3>1. j \in 1 .. n /\ (s \o t)[j] = s[j]
      BY <1>2, <2>1
    <3> QED BY <3>1 DEF Fills
  <2>2. CASE j > n
    <3> PICK k \in 1 .. m : k = j - n
      BY <2>2
    <3>1. (s \o t)[j] = t[k] /\ second + k - 1 = first + j - 1
      BY <1>2, <2>2
    <3>2. <<second + k - 1, t[k]>> \in R
      BY DEF Fills
    <3> QED BY <3>1, <3>2
  <2>3. j <= n \/ j > n
    OBVIOUS
  <2> QED BY <2>1, <2>2, <2>3
<1> QED BY <1>2, <1>3 DEF Fills

\* The names table: each instruction at its opcode, NoName at the gaps.
NamesOf == {e[1] : e \in Enumerators} \cup {NoName}
NameRows == {<<e[2], e[1]>> : e \in Enumerators} \cup {<<b, NoName>> : b \in Gaps}

LEMMA NameRowsTyped == NameRows \subseteq Int \X NamesOf
<1>1. \A e \in Enumerators : e[2] \in Int
  BY EnumeratorsNumbered DEF Byte
<1>2. \A b \in Gaps : b \in Int
  BY DEF Gaps
<1> QED BY <1>1, <1>2 DEF NameRows, NamesOf

LEMMA RunNamed ==
    ASSUME NEW run, NEW first \in Nat, NEW n \in Nat, IsRun(run, first, n),
           At(first, run) \subseteq Enumerators
    PROVE  Fills(NamesOf, NameRows, first, run, n)
<1>1. ASSUME NEW j \in 1 .. n PROVE <<first + j - 1, run[j]>> \in NameRows
  <2> DEFINE e == <<run[j], first + j - 1>>
  <2>1. e \in Enumerators
    BY DEF At, IsRun
  <2>2. e[1] = run[j] /\ e[2] = first + j - 1
    OBVIOUS
  <2> HIDE DEF e
  <2> QED BY <2>1, <2>2 DEF NameRows
<1>2. run = [j \in 1 .. n |-> run[j]]
  BY DEF IsRun
<1> QED BY <1>1, <1>2, NameRowsTyped, FilledByFunction

LEMMA GapUnnamed ==
    ASSUME NEW first \in Nat, NEW n \in Nat, OnlyGaps(first, n)
    PROVE  Fills(NamesOf, NameRows, first, Unnamed(n), n)
<1>1. \A b \in first .. first + n - 1 : <<b, NoName>> \in NameRows
  BY DEF NameRows, OnlyGaps
<1> QED BY <1>1, NameRowsTyped, FilledByTimes DEF Unnamed

LEMMA NamePieces ==
    LET named(first, run, n) == Fills(NamesOf, NameRows, first, run, n)
    IN  /\ named(0, Plain(Words00), 12) /\ named(16, Plain(Words10), 14)
        /\ named(32, Plain(Words20), 1) /\ named(48, Plain(Words30), 25)
        /\ named(80, Plain(Words50), 12) /\ named(240, Plain(WordsF0), 2)
        /\ named(243, Plain(WordsF3), 3) /\ named(250, Plain(WordsFA), 1)
        /\ named(253, Plain(WordsFD), 2)
        /\ named(95, Numbered("PUSH", 0, 64), 65) /\ named(160, Numbered("DUP", 1, 16), 16)
        /\ named(176, Numbered("SWAP", 1, 16), 16) /\ named(192, Numbered("LOG", 0, 4), 5)
        /\ named(12, Unnamed(4), 4) /\ named(30, Unnamed(2), 2) /\ named(33, Unnamed(15), 15)
        /\ named(73, Unnamed(7), 7) /\ named(92, Unnamed(3), 3) /\ named(197, Unnamed(43), 43)
        /\ named(242, Unnamed(1), 1) /\ named(246, Unnamed(4), 4) /\ named(251, Unnamed(2), 2)
        /\ named(255, Unnamed(1), 1)
<1> DEFINE named(first, run, n) == Fills(NamesOf, NameRows, first, run, n)
<1>1. ASSUME NEW run, NEW first \in Nat, NEW n \in Nat, IsRun(run, first, n),
             At(first, run) \subseteq Enumerators
      PROVE  named(first, run, n)
  BY <1>1, RunNamed
<1>2. ASSUME NEW first \in Nat, NEW n \in Nat, OnlyGaps(first, n)
      PROVE  named(first, Unnamed(n), n)
  BY <1>2, GapUnnamed
<1> HIDE DEF named
<1>3. /\ named(0, Plain(Words00), 12) /\ named(16, Plain(Words10), 14)
      /\ named(32, Plain(Words20), 1) /\ named(48, Plain(Words30), 25)
      /\ named(80, Plain(Words50), 12)
  BY <1>1, Runs, EnumeratorsAre
<1>4. /\ named(240, Plain(WordsF0), 2) /\ named(243, Plain(WordsF3), 3)
      /\ named(250, Plain(WordsFA), 1) /\ named(253, Plain(WordsFD), 2)
  BY <1>1, Runs, EnumeratorsAre
<1>5. /\ named(95, Numbered("PUSH", 0, 64), 65) /\ named(160, Numbered("DUP", 1, 16), 16)
      /\ named(176, Numbered("SWAP", 1, 16), 16) /\ named(192, Numbered("LOG", 0, 4), 5)
  BY <1>1, Runs, EnumeratorsAre
<1>6. /\ OnlyGaps(12, 4) /\ OnlyGaps(30, 2) /\ OnlyGaps(33, 15) /\ OnlyGaps(73, 7)
      /\ OnlyGaps(92, 3) /\ OnlyGaps(197, 43) /\ OnlyGaps(242, 1) /\ OnlyGaps(246, 4)
      /\ OnlyGaps(251, 2) /\ OnlyGaps(255, 1)
  BY DEF OnlyGaps, Gaps
<1>7. /\ named(12, Unnamed(4), 4) /\ named(30, Unnamed(2), 2) /\ named(33, Unnamed(15), 15)
      /\ named(73, Unnamed(7), 7) /\ named(92, Unnamed(3), 3)
  BY <1>2, <1>6
<1>8. /\ named(197, Unnamed(43), 43) /\ named(242, Unnamed(1), 1) /\ named(246, Unnamed(4), 4)
      /\ named(251, Unnamed(2), 2) /\ named(255, Unnamed(1), 1)
  BY <1>2, <1>6
<1> QED BY <1>3, <1>4, <1>5, <1>7, <1>8 DEF named

\* The whole table of names, piece by piece.
LEMMA NamesFilled == Fills(NamesOf, NameRows, 0, ZondNames, 256)
<1> DEFINE named(first, s, n) == Fills(NamesOf, NameRows, first, s, n)
<1>1. ASSUME NEW first \in Nat, NEW n \in Nat, NEW m \in Nat, NEW s, NEW t, NEW second \in Nat,
             named(first, s, n), second = first + n, named(second, t, m), NEW l \in Nat, l = n + m
      PROVE  named(first, s \o t, l)
  BY <1>1, Joined
<1> HIDE DEF named
<1>2. named(0, WordNames, 48)
  <2> DEFINE a == Plain(Words00) \o Unnamed(4)
             b == a \o Plain(Words10)
             c == b \o Unnamed(2)
             d == c \o Plain(Words20)
  <2>1. named(0, a, 16)
    BY <1>1, NamePieces DEF named
  <2> HIDE DEF a
  <2>2. named(0, b, 30)
    BY <1>1, <2>1, NamePieces DEF named
  <2> HIDE DEF b
  <2>3. named(0, c, 32)
    BY <1>1, <2>2, NamePieces DEF named
  <2> HIDE DEF c
  <2>4. named(0, d, 33)
    BY <1>1, <2>3, NamePieces DEF named
  <2> HIDE DEF d
  <2>5. named(0, d \o Unnamed(15), 48)
    BY <1>1, <2>4, NamePieces DEF named
  <2> QED BY <2>5 DEF WordNames, a, b, c, d, Words00, Words10, Words20
<1>3. named(48, StateNames, 47)
  <2> DEFINE a == Plain(Words30) \o Unnamed(7)
             b == a \o Plain(Words50)
  <2>1. named(48, a, 32)
    BY <1>1, NamePieces DEF named
  <2> HIDE DEF a
  <2>2. named(48, b, 44)
    BY <1>1, <2>1, NamePieces DEF named
  <2> HIDE DEF b
  <2>3. named(48, b \o Unnamed(3), 47)
    BY <1>1, <2>2, NamePieces DEF named
  <2> QED BY <2>3 DEF StateNames, a, b, Words30, Words50
<1>4. named(95, StackNames, 97)
  <2> DEFINE a == Numbered("PUSH", 0, 64) \o Numbered("DUP", 1, 16)
  <2>1. named(95, a, 81)
    BY <1>1, NamePieces DEF named
  <2> HIDE DEF a
  <2>2. named(95, a \o Numbered("SWAP", 1, 16), 97)
    BY <1>1, <2>1, NamePieces DEF named
  <2> QED BY <2>2 DEF StackNames, a
<1>5. named(192, SystemNames, 64)
  <2> DEFINE a == Numbered("LOG", 0, 4) \o Unnamed(43)
             b == a \o Plain(WordsF0)
             c == b \o Unnamed(1)
             d == c \o Plain(WordsF3)
             e == d \o Unnamed(4)
             f == e \o Plain(WordsFA)
             g == f \o Unnamed(2)
             h == g \o Plain(WordsFD)
  <2>1. named(192, a, 48)
    BY <1>1, NamePieces DEF named
  <2> HIDE DEF a
  <2>2. named(192, b, 50)
    BY <1>1, <2>1, NamePieces DEF named
  <2> HIDE DEF b
  <2>3. named(192, c, 51)
    BY <1>1, <2>2, NamePieces DEF named
  <2> HIDE DEF c
  <2>4. named(192, d, 54)
    BY <1>1, <2>3, NamePieces DEF named
  <2> HIDE DEF d
  <2>5. named(192, e, 58)
    BY <1>1, <2>4, NamePieces DEF named
  <2> HIDE DEF e
  <2>6. named(192, f, 59)
    BY <1>1, <2>5, NamePieces DEF named
  <2> HIDE DEF f
  <2>7. named(192, g, 61)
    BY <1>1, <2>6, NamePieces DEF named
  <2> HIDE DEF g
  <2>8. named(192, h, 63)
    BY <1>1, <2>7, NamePieces DEF named
  <2> HIDE DEF h
  <2>9. named(192, h \o Unnamed(1), 64)
    BY <1>1, <2>8, NamePieces DEF named
  <2> QED BY <2>9 DEF SystemNames, a, b, c, d, e, f, g, h, WordsF0, WordsF3, WordsFA, WordsFD
<1>6. named(0, WordNames \o StateNames, 95)
  BY <1>1, <1>2, <1>3
<1>7. named(0, WordNames \o StateNames \o StackNames, 192)
  BY <1>1, <1>4, <1>6
<1>8. named(0, WordNames \o StateNames \o StackNames \o SystemNames, 256)
  BY <1>1, <1>5, <1>7
<1> QED BY <1>8 DEF ZondNames, named

----------------------------------------------------------------------------
\* The metrics table.  A row fits its opcode when it never leaves less than nothing on the
\* stack, is empty at a gap, and says of the instructions the example VM has what they do.
Rows == [gas : Nat, required : Nat, change : Int]

Takes(row, required, change) == row.required = required /\ row.change = change

Fit(b, row) ==
    /\ b \in Byte /\ row \in Rows /\ row.required + row.change >= 0
    /\ b \in Gaps => row = Metrics(0, 0, 0)
    /\ b = 0 => Takes(row, 0, 0)
    /\ b = 1 => Takes(row, 2, -1)
    /\ b \in {48, 67, 89} \cup 96 .. 159 => Takes(row, 0, 1)
    /\ b \in {53, 84} => Takes(row, 1, 0)
    /\ b = 160 => Takes(row, 1, 1)
    /\ b \in {82, 85, 243, 253} => Takes(row, 2, -2)
    /\ b = 241 => Takes(row, 7, -6)

MetricRows == {r \in Int \X Rows : Fit(r[1], r[2])}

LEMMA FitListed ==
    ASSUME NEW b, NEW row, Fit(b, row)
    PROVE  <<b, row>> \in MetricRows
<1>1. <<b, row>> \in Int \X Rows
  BY DEF Fit, Byte
<1>2. <<b, row>>[1] = b /\ <<b, row>>[2] = row
  OBVIOUS
<1> QED BY <1>1, <1>2 DEF MetricRows

LEMMA ListedFit ==
    ASSUME NEW b, NEW row, <<b, row>> \in MetricRows
    PROVE  Fit(b, row)
<1>1. <<b, row>>[1] = b /\ <<b, row>>[2] = row
  OBVIOUS
<1> QED BY <1>1 DEF MetricRows

\* n rows that fit the opcodes from first on, and one row that fits them all.
FitEach(first, s, n) == s = [j \in 1 .. n |-> s[j]] /\ \A j \in 1 .. n : Fit(first + j - 1, s[j])
FitAll(first, n, row) == \A b \in first .. first + n - 1 : Fit(b, row)

\* A piece written out row by row, and one of equal rows.
LEMMA MetricTuple ==
    ASSUME NEW first \in Nat, NEW n \in Nat, NEW s, FitEach(first, s, n)
    PROVE  Fills(Rows, MetricRows, first, s, n)
<1>1. MetricRows \subseteq Int \X Rows
  BY DEF MetricRows
<1>2. s = [j \in 1 .. n |-> s[j]] /\ \A j \in 1 .. n : <<first + j - 1, s[j]>> \in MetricRows
  BY FitListed DEF FitEach
<1> QED BY <1>1, <1>2, FilledByFunction

LEMMA MetricTimes ==
    ASSUME NEW first \in Nat, NEW n \in Nat, NEW row, FitAll(first, n, row)
    PROVE  Fills(Rows, MetricRows, first, Times(n, row), n)
<1>1. MetricRows \subseteq Int \X Rows
  BY DEF MetricRows
<1>2. \A b \in first .. first + n - 1 : <<b, row>> \in MetricRows
  BY FitListed DEF FitAll
<1> QED BY <1>1, <1>2, FilledByTimes

\* A piece of empty rows: always at a gap, and for INVALID.
LEMMA MetricEmpty ==
    ASSUME NEW first \in Nat, NEW n \in Nat, FitAll(first, n, Metrics(0, 0, 0))
    PROVE  Fills(Rows, MetricRows, first, Undefineds(n), n)
BY MetricTimes DEF Undefineds

LEMMA MetricGap ==
    ASSUME NEW first \in Nat, NEW n \in Nat, OnlyGaps(first, n)
    PROVE  Fills(Rows, MetricRows, first, Undefineds(n), n)
<1> DEFINE row == Metrics(0, 0, 0)
<1>1. row \in Rows /\ row.required = 0 /\ row.change = 0
  BY DEF Metrics, Rows
<1>2. ASSUME NEW b \in first .. first + n - 1 PROVE Fit(b, row)
  <2>1. b \in Gaps
    BY DEF OnlyGaps
  <2> HIDE DEF row
  <2> QED BY <1>1, <2>1 DEF Fit, Takes, Byte, Gaps, row
<1> QED BY <1>2, MetricEmpty DEF FitAll

\* A piece of rows that push a word, and one of a single row.
LEMMA MetricBase ==
    ASSUME NEW first \in Nat, NEW n \in Nat, FitAll(first, n, Metrics(2, 0, 1))
    PROVE  Fills(Rows, MetricRows, first, Base(n), n)
BY MetricTimes DEF Base

LEMMA MetricOne ==
    ASSUME NEW first \in Nat, NEW row, Fit(first, row)
    PROVE  Fills(Rows, MetricRows, first, <<row>>, 1)
<1>1. <<row>> = [j \in 1 .. 1 |-> <<row>>[j]] /\ <<row>>[1] = row
  OBVIOUS
<1>2. FitEach(first, <<row>>, 1)
  BY <1>1 DEF FitEach
<1> QED BY <1>2, MetricTuple

\* The four parts of the table of metrics, piece by piece.
LEMMA WordMetricsFilled == Fills(Rows, MetricRows, 0, WordMetrics, 48)
<1> DEFINE filled(start, s, n) == Fills(Rows, MetricRows, start, s, n)
           t1 == <<Metrics(0, 0, 0), Binary(3), Binary(5), Binary(3)>>
           t2 == <<Binary(10), Binary(5)>>
<1>1. ASSUME NEW start \in Nat, NEW n \in Nat, NEW m \in Nat, NEW s, NEW t, NEW second \in Nat,
             filled(start, s, n), second = start + n, filled(second, t, m), NEW l \in Nat, l = n + m
      PROVE  filled(start, s \o t, l)
  BY <1>1, Joined
<1>2. /\ FitEach(0, t1, 4)
      /\ FitEach(10, t2, 2)
  BY DEF FitEach, FitAll, Fit, Takes, Byte, Gaps, Rows, Metrics, Binary, Unary, Consumer,
     WarmStorageReadCost
<1>3. /\ Fit(21, Unary(3))
      /\ Fit(25, Unary(3))
      /\ Fit(32, Binary(30))
  BY DEF FitEach, FitAll, Fit, Takes, Byte, Gaps, Rows, Metrics, Binary, Unary, Consumer,
     WarmStorageReadCost
<1>4. /\ FitAll(4, 4, Binary(5))
      /\ FitAll(8, 2, Metrics(8, 3, -2))
      /\ FitAll(16, 5, Binary(3))
      /\ FitAll(22, 3, Binary(3))
      /\ FitAll(26, 4, Binary(3))
  BY DEF FitEach, FitAll, Fit, Takes, Byte, Gaps, Rows, Metrics, Binary, Unary, Consumer,
     WarmStorageReadCost
<1>5. /\ OnlyGaps(12, 4)
      /\ OnlyGaps(30, 2)
      /\ OnlyGaps(33, 15)
  BY DEF OnlyGaps, Gaps
<1> HIDE DEF t1, t2
<1>6. /\ filled(0, t1, 4)
      /\ filled(10, t2, 2)
  BY <1>2, MetricTuple
<1>7. /\ filled(21, <<Unary(3)>>, 1)
      /\ filled(25, <<Unary(3)>>, 1)
      /\ filled(32, <<Binary(30)>>, 1)
  BY <1>3, MetricOne
<1>8. /\ filled(4, Times(4, Binary(5)), 4)
      /\ filled(8, Times(2, Metrics(8, 3, -2)), 2)
      /\ filled(16, Times(5, Binary(3)), 5)
      /\ filled(22, Times(3, Binary(3)), 3)
      /\ filled(26, Times(4, Binary(3)), 4)
  BY <1>4, MetricTimes
<1>9. /\ filled(12, Undefineds(4), 4)
      /\ filled(30, Undefineds(2), 2)
      /\ filled(33, Undefineds(15), 15)
  BY <1>5, MetricGap
<1> HIDE DEF filled
<1> DEFINE a == t1 \o Times(4, Binary(5))
           b == a \o Times(2, Metrics(8, 3, -2))
           c == b \o t2
           d == c \o Undefineds(4)
           e == d \o Times(5, Binary(3))
           f == e \o <<Unary(3)>>
           g == f \o Times(3, Binary(3))
           h == g \o <<Unary(3)>>
           i == h \o Times(4, Binary(3))
           j == i \o Undefineds(2)
           k == j \o <<Binary(30)>>
<1>10. filled(0, a, 8)
  BY <1>1, <1>6, <1>7, <1>8, <1>9
<1> HIDE DEF a
<1>11. filled(0, b, 10)
  BY <1>1, <1>6, <1>7, <1>8, <1>9, <1>10
<1> HIDE DEF b
<1>12. filled(0, c, 12)
  BY <1>1, <1>6, <1>7, <1>8, <1>9, <1>11
<1> HIDE DEF c
<1>13. filled(0, d, 16)
  BY <1>1, <1>6, <1>7, <1>8, <1>9, <1>12
<1> HIDE DEF d
<1>14. filled(0, e, 21)
  BY <1>1, <1>6, <1>7, <1>8, <1>9, <1>13
<1> HIDE DEF e
<1>15. filled(0, f, 22)
  BY <1>1, <1>6, <1>7, <1>8, <1>9, <1>14
<1> HIDE DEF f
<1>16. filled(0, g, 25)
  BY <1>1, <1>6, <1>7, <1>8, <1>9, <1>15
<1> HIDE DEF g
<1>17. filled(0, h, 26)
  BY <1>1, <1>6, <1>7, <1>8, <1>9, <1>16
<1> HIDE DEF h
<1>18. filled(0, i, 30)
  BY <1>1, <1>6, <1>7, <1>8, <1>9, <1>17
<1> HIDE DEF i
<1>19. filled(0, j, 32)
  BY <1>1, <1>6, <1>7, <1>8, <1>9, <1>18
<1> HIDE DEF j
<1>20. filled(0, k, 33)
  BY <1>1, <1>6, <1>7, <1>8, <1>9, <1>19
<1> HIDE DEF k
<1>21. filled(0, k \o Undefineds(15), 48)
  BY <1>1, <1>6, <1>7, <1>8, <1>9, <1>20
<1> QED BY <1>21 DEF filled, WordMetrics, t1, t2, a, b, c, d, e, f, g, h, i, j, k

LEMMA StateMetricsFilled == Fills(Rows, MetricRows, 48, StateMetrics, 47)
<1> DEFINE filled(start, s, n) == Fills(Rows, MetricRows, start, s, n)
           t1 == <<Unary(WarmStorageReadCost), Consumer(WarmStorageReadCost, 4)>>
           t2 == <<Consumer(3, 3), Unary(WarmStorageReadCost), Unary(20)>>
           t3 == <<Consumer(2, 1), Unary(3), Consumer(3, 2), Consumer(3, 2),
                   Unary(WarmStorageReadCost), Consumer(0, 2), Consumer(8, 1), Consumer(10, 2)>>
<1>1. ASSUME NEW start \in Nat, NEW n \in Nat, NEW m \in Nat, NEW s, NEW t, NEW second \in Nat,
             filled(start, s, n), second = start + n, filled(second, t, m), NEW l \in Nat, l = n + m
      PROVE  filled(start, s \o t, l)
  BY <1>1, Joined
<1>2. /\ FitEach(59, t1, 2)
      /\ FitEach(62, t2, 3)
      /\ FitEach(80, t3, 8)
  BY DEF FitEach, FitAll, Fit, Takes, Byte, Gaps, Rows, Metrics, Binary, Unary, Consumer,
     WarmStorageReadCost
<1>3. /\ Fit(49, Unary(WarmStorageReadCost))
      /\ Fit(53, Unary(3))
      /\ Fit(55, Consumer(3, 3))
      /\ Fit(57, Consumer(3, 3))
      /\ Fit(71, Metrics(5, 0, 1))
      /\ Fit(91, Metrics(1, 0, 0))
  BY DEF FitEach, FitAll, Fit, Takes, Byte, Gaps, Rows, Metrics, Binary, Unary, Consumer,
     WarmStorageReadCost
<1>4. /\ FitAll(48, 1, Metrics(2, 0, 1))
      /\ FitAll(50, 3, Metrics(2, 0, 1))
      /\ FitAll(54, 1, Metrics(2, 0, 1))
      /\ FitAll(56, 1, Metrics(2, 0, 1))
      /\ FitAll(58, 1, Metrics(2, 0, 1))
      /\ FitAll(61, 1, Metrics(2, 0, 1))
      /\ FitAll(65, 6, Metrics(2, 0, 1))
      /\ FitAll(72, 1, Metrics(2, 0, 1))
      /\ FitAll(88, 3, Metrics(2, 0, 1))
  BY DEF FitEach, FitAll, Fit, Takes, Byte, Gaps, Rows, Metrics, Binary, Unary, Consumer,
     WarmStorageReadCost
<1>5. /\ OnlyGaps(73, 7)
      /\ OnlyGaps(92, 3)
  BY DEF OnlyGaps, Gaps
<1> HIDE DEF t1, t2, t3
<1>6. /\ filled(59, t1, 2)
      /\ filled(62, t2, 3)
      /\ filled(80, t3, 8)
  BY <1>2, MetricTuple
<1>7. /\ filled(49, <<Unary(WarmStorageReadCost)>>, 1)
      /\ filled(53, <<Unary(3)>>, 1)
      /\ filled(55, <<Consumer(3, 3)>>, 1)
      /\ filled(57, <<Consumer(3, 3)>>, 1)
      /\ filled(71, <<Metrics(5, 0, 1)>>, 1)
      /\ filled(91, <<Metrics(1, 0, 0)>>, 1)
  BY <1>3, MetricOne
<1>8. /\ filled(48, Base(1), 1)
      /\ filled(50, Base(3), 3)
      /\ filled(54, Base(1), 1)
      /\ filled(56, Base(1), 1)
      /\ filled(58, Base(1), 1)
      /\ filled(61, Base(1), 1)
      /\ filled(65, Base(6), 6)
      /\ filled(72, Base(1), 1)
      /\ filled(88, Base(3), 3)
  BY <1>4, MetricBase
<1>9. /\ filled(73, Undefineds(7), 7)
      /\ filled(92, Undefineds(3), 3)
  BY <1>5, MetricGap
<1> HIDE DEF filled
<1> DEFINE a == Base(1) \o <<Unary(WarmStorageReadCost)>>
           b == a \o Base(3)
           c == b \o <<Unary(3)>>
           d == c \o Base(1)
           e == d \o <<Consumer(3, 3)>>
           f == e \o Base(1)
           g == f \o <<Consumer(3, 3)>>
           h == g \o Base(1)
           i == h \o t1
           j == i \o Base(1)
           k == j \o t2
           l == k \o Base(6)
           m == l \o <<Metrics(5, 0, 1)>>
           n == m \o Base(1)
           o == n \o Undefineds(7)
           p == o \o t3
           q == p \o Base(3)
           r == q \o <<Metrics(1, 0, 0)>>
<1>10. filled(48, a, 2)
  BY <1>1, <1>6, <1>7, <1>8, <1>9
<1> HIDE DEF a
<1>11. filled(48, b, 5)
  BY <1>1, <1>6, <1>7, <1>8, <1>9, <1>10
<1> HIDE DEF b
<1>12. filled(48, c, 6)
  BY <1>1, <1>6, <1>7, <1>8, <1>9, <1>11
<1> HIDE DEF c
<1>13. filled(48, d, 7)
  BY <1>1, <1>6, <1>7, <1>8, <1>9, <1>12
<1> HIDE DEF d
<1>14. filled(48, e, 8)
  BY <1>1, <1>6, <1>7, <1>8, <1>9, <1>13
<1> HIDE DEF e
<1>15. filled(48, f, 9)
  BY <1>1, <1>6, <1>7, <1>8, <1>9, <1>14
<1> HIDE DEF f
<1>16. filled(48, g, 10)
  BY <1>1, <1>6, <1>7, <1>8, <1>9, <1>15
<1> HIDE DEF g
<1>17. filled(48, h, 11)
  BY <1>1, <1>6, <1>7, <1>8, <1>9, <1>16
<1> HIDE DEF h
<1>18. filled(48, i, 13)
  BY <1>1, <1>6, <1>7, <1>8, <1>9, <1>17
<1> HIDE DEF i
<1>19. filled(48, j, 14)
  BY <1>1, <1>6, <1>7, <1>8, <1>9, <1>18
<1> HIDE DEF j
<1>20. filled(48, k, 17)
  BY <1>1, <1>6, <1>7, <1>8, <1>9, <1>19
<1> HIDE DEF k
<1>21. filled(48, l, 23)
  BY <1>1, <1>6, <1>7, <1>8, <1>9, <1>20
<1> HIDE DEF l
<1>22. filled(48, m, 24)
  BY <1>1, <1>6, <1>7, <1>8, <1>9, <1>21
<1> HIDE DEF m
<1>23. filled(48, n, 25)
  BY <1>1, <1>6, <1>7, <1>8, <1>9, <1>22
<1> HIDE DEF n
<1>24. filled(48, o, 32)
  BY <1>1, <1>6, <1>7, <1>8, <1>9, <1>23
<1> HIDE DEF o
<1>25. filled(48, p, 40)
  BY <1>1, <1>6, <1>7, <1>8, <1>9, <1>24
<1> HIDE DEF p
<1>26. filled(48, q, 43)
  BY <1>1, <1>6, <1>7, <1>8, <1>9, <1>25
<1> HIDE DEF q
<1>27. filled(48, r, 44)
  BY <1>1, <1>6, <1>7, <1>8, <1>9, <1>26
<1> HIDE DEF r
<1>28. filled(48, r \o Undefineds(3), 47)
  BY <1>1, <1>6, <1>7, <1>8, <1>9, <1>27
<1> QED BY <1>28 DEF filled, StateMetrics, t1, t2, t3, a, b, c, d, e, f, g, h,
        i, j, k, l, m, n, o, p, q, r

LEMMA StackMetricsFilled == Fills(Rows, MetricRows, 95, StackMetrics, 97)
<1> DEFINE filled(start, s, n) == Fills(Rows, MetricRows, start, s, n)
           t1 == [n \in 1 .. 16 |-> Metrics(3, n, 1)]
           t2 == [n \in 1 .. 16 |-> Metrics(3, n + 1, 0)]
<1>1. ASSUME NEW start \in Nat, NEW n \in Nat, NEW m \in Nat, NEW s, NEW t, NEW second \in Nat,
             filled(start, s, n), second = start + n, filled(second, t, m), NEW l \in Nat, l = n + m
      PROVE  filled(start, s \o t, l)
  BY <1>1, Joined
<1>2. /\ FitEach(160, t1, 16)
      /\ FitEach(176, t2, 16)
  BY DEF FitEach, FitAll, Fit, Takes, Byte, Gaps, Rows, Metrics, Binary, Unary, Consumer,
     WarmStorageReadCost
<1>3. FitAll(96, 64, Metrics(3, 0, 1))
  BY DEF FitEach, FitAll, Fit, Takes, Byte, Gaps, Rows, Metrics, Binary, Unary, Consumer,
     WarmStorageReadCost
<1>4. FitAll(95, 1, Metrics(2, 0, 1))
  BY DEF FitEach, FitAll, Fit, Takes, Byte, Gaps, Rows, Metrics, Binary, Unary, Consumer,
     WarmStorageReadCost
<1> HIDE DEF t1, t2
<1>5. /\ filled(160, t1, 16)
      /\ filled(176, t2, 16)
  BY <1>2, MetricTuple
<1>6. filled(96, Times(64, Metrics(3, 0, 1)), 64)
  BY <1>3, MetricTimes
<1>7. filled(95, Base(1), 1)
  BY <1>4, MetricBase
<1> HIDE DEF filled
<1> DEFINE a == Base(1) \o Times(64, Metrics(3, 0, 1))
           b == a \o t1
<1>8. filled(95, a, 65)
  BY <1>1, <1>5, <1>6, <1>7
<1> HIDE DEF a
<1>9. filled(95, b, 81)
  BY <1>1, <1>5, <1>6, <1>7, <1>8
<1> HIDE DEF b
<1>10. filled(95, b \o t2, 97)
  BY <1>1, <1>5, <1>6, <1>7, <1>9
<1> QED BY <1>10 DEF filled, StackMetrics, t1, t2, a, b

LEMMA SystemMetricsFilled == Fills(Rows, MetricRows, 192, SystemMetrics, 64)
<1> DEFINE filled(start, s, n) == Fills(Rows, MetricRows, start, s, n)
           t1 == [n \in 1 .. 5 |-> Consumer(n * 375, n + 1)]
           t2 == <<Metrics(32000, 3, -2), Metrics(WarmStorageReadCost, 7, -6)>>
           t3 == <<Consumer(0, 2), Metrics(WarmStorageReadCost, 6, -5), Metrics(32000, 4, -3)>>
<1>1. ASSUME NEW start \in Nat, NEW n \in Nat, NEW m \in Nat, NEW s, NEW t, NEW second \in Nat,
             filled(start, s, n), second = start + n, filled(second, t, m), NEW l \in Nat, l = n + m
      PROVE  filled(start, s \o t, l)
  BY <1>1, Joined
<1>2. /\ FitEach(192, t1, 5)
      /\ FitEach(240, t2, 2)
      /\ FitEach(243, t3, 3)
  BY DEF FitEach, FitAll, Fit, Takes, Byte, Gaps, Rows, Metrics, Binary, Unary, Consumer,
     WarmStorageReadCost
<1>3. /\ Fit(250, Metrics(WarmStorageReadCost, 6, -5))
      /\ Fit(253, Consumer(0, 2))
  BY DEF FitEach, FitAll, Fit, Takes, Byte, Gaps, Rows, Metrics, Binary, Unary, Consumer,
     WarmStorageReadCost
<1>4. /\ OnlyGaps(197, 43)
      /\ OnlyGaps(242, 1)
      /\ OnlyGaps(246, 4)
      /\ OnlyGaps(251, 2)
  BY DEF OnlyGaps, Gaps
<1>5. FitAll(254, 2, Metrics(0, 0, 0))
  BY DEF FitEach, FitAll, Fit, Takes, Byte, Gaps, Rows, Metrics, Binary, Unary, Consumer,
     WarmStorageReadCost
<1> HIDE DEF t1, t2, t3
<1>6. /\ filled(192, t1, 5)
      /\ filled(240, t2, 2)
      /\ filled(243, t3, 3)
  BY <1>2, MetricTuple
<1>7. /\ filled(250, <<Metrics(WarmStorageReadCost, 6, -5)>>, 1)
      /\ filled(253, <<Consumer(0, 2)>>, 1)
  BY <1>3, MetricOne
<1>8. /\ filled(197, Undefineds(43), 43)
      /\ filled(242, Undefineds(1), 1)
      /\ filled(246, Undefineds(4), 4)
      /\ filled(251, Undefineds(2), 2)
  BY <1>4, MetricGap
<1>9. filled(254, Undefineds(2), 2)
  BY <1>5, MetricEmpty
<1> HIDE DEF filled
<1> DEFINE a == t1 \o Undefineds(43)
           b == a \o t2
           c == b \o Undefineds(1)
           d == c \o t3
           e == d \o Undefineds(4)
           f == e \o <<Metrics(WarmStorageReadCost, 6, -5)>>
           g == f \o Undefineds(2)
           h == g \o <<Consumer(0, 2)>>
<1>10. filled(192, a, 48)
  BY <1>1, <1>6, <1>7, <1>8, <1>9
<1> HIDE DEF a
<1>11. filled(192, b, 50)
  BY <1>1, <1>6, <1>7, <1>8, <1>9, <1>10
<1> HIDE DEF b
<1>12. filled(192, c, 51)
  BY <1>1, <1>6, <1>7, <1>8, <1>9, <1>11
<1> HIDE DEF c
<1>13. filled(192, d, 54)
  BY <1>1, <1>6, <1>7, <1>8, <1>9, <1>12
<1> HIDE DEF d
<1>14. filled(192, e, 58)
  BY <1>1, <1>6, <1>7, <1>8, <1>9, <1>13
<1> HIDE DEF e
<1>15. filled(192, f, 59)
  BY <1>1, <1>6, <1>7, <1>8, <1>9, <1>14
<1> HIDE DEF f
<1>16. filled(192, g, 61)
  BY <1>1, <1>6, <1>7, <1>8, <1>9, <1>15
<1> HIDE DEF g
<1>17. filled(192, h, 62)
  BY <1>1, <1>6, <1>7, <1>8, <1>9, <1>16
<1> HIDE DEF h
<1>18. filled(192, h \o Undefineds(2), 64)
  BY <1>1, <1>6, <1>7, <1>8, <1>9, <1>17
<1> QED BY <1>18 DEF filled, SystemMetrics, t1, t2, t3, a, b, c, d, e, f, g, h

\* The whole table of metrics.
LEMMA MetricsFilled == Fills(Rows, MetricRows, 0, ZondMetrics, 256)
<1>1. Fills(Rows, MetricRows, 0, WordMetrics \o StateMetrics, 95)
  BY WordMetricsFilled, StateMetricsFilled, Joined
<1>2. Fills(Rows, MetricRows, 0, WordMetrics \o StateMetrics \o StackMetrics, 192)
  BY <1>1, StackMetricsFilled, Joined
<1>3. Fills(Rows, MetricRows, 0, WordMetrics \o StateMetrics \o StackMetrics \o SystemMetrics, 256)
  BY <1>2, SystemMetricsFilled, Joined
<1> QED BY <1>3 DEF ZondMetrics

----------------------------------------------------------------------------
\* A row of each table by its opcode.
LEMMA NameAt ==
    ASSUME NEW b \in Byte
    PROVE  <<b, NameOf("ZOND", b)>> \in NameRows
<1>1. \A j \in 1 .. 256 : <<0 + j - 1, ZondNames[j]>> \in NameRows
  BY NamesFilled DEF Fills
<1>2. b + 1 \in 1 .. 256 /\ 0 + (b + 1) - 1 = b
  BY DEF Byte
<1>3. <<0 + (b + 1) - 1, ZondNames[b + 1]>> \in NameRows
  BY <1>1, <1>2
<1> QED BY <1>2, <1>3 DEF NameOf, NamesTable

LEMMA MetricsAt ==
    ASSUME NEW b \in Byte
    PROVE  Fit(b, MetricsOf("ZOND", b))
<1>1. \A j \in 1 .. 256 : <<0 + j - 1, ZondMetrics[j]>> \in MetricRows
  BY MetricsFilled DEF Fills
<1>2. b + 1 \in 1 .. 256 /\ 0 + (b + 1) - 1 = b
  BY DEF Byte
<1>3. <<b, ZondMetrics[b + 1]>> \in MetricRows
  BY <1>1, <1>2
<1> QED BY <1>3, ListedFit DEF MetricsOf, MetricsTable

\* The three tables agree on every opcode: a name is at the number the enumeration gives it,
\* the opcodes without one have no enumerator and the metrics of an undefined instruction,
\* and no instruction leaves less than nothing on the stack.  The enumeration and the two
\* arrays of lib/instructions are written apart, and a row too few moves all that follow.
THEOREM RowsAlwaysAgree == \A b \in Byte : RowsAgree(b)
<1> SUFFICES ASSUME NEW b \in Byte PROVE RowsAgree(b)
  OBVIOUS
<1> DEFINE name == NameOf("ZOND", b)
           metrics == MetricsOf("ZOND", b)
<1>1. <<b, name>> \in NameRows
  BY NameAt
<1>2. Fit(b, metrics)
  BY MetricsAt
<1> HIDE DEF name, metrics
<1>3. \/ \E e \in Enumerators : e[2] = b /\ e[1] = name
      \/ b \in Gaps /\ name = NoName
  BY <1>1 DEF NameRows
<1>4. CASE b \in Gaps /\ name = NoName
  <2>1. metrics = Metrics(0, 0, 0)
    BY <1>2, <1>4 DEF Fit
  <2>2. ASSUME NEW i \in DOMAIN Opcode, Opcode[i] = b PROVE FALSE
    <3>1. <<i, b>> \in Enumerators
      BY <2>2, OpcodeListed
    <3>2. <<i, b>>[2] = b
      OBVIOUS
    <3> QED BY <1>4, <3>1, <3>2, EnumeratorsNumbered
  <2> QED BY <1>4, <2>1, <2>2 DEF RowsAgree, name, metrics
<1>5. CASE \E e \in Enumerators : e[2] = b /\ e[1] = name
  <2>1. PICK e \in Enumerators : e[2] = b /\ e[1] = name
    BY <1>5
  <2>2. e = <<name, b>>
    BY <2>1 DEF Enumerators, WordOpcodes, StateOpcodes, StackOpcodes, SystemOpcodes, At
  <2>3. <<name, b>> \in Enumerators
    BY <2>2
  <2>4. name \in DOMAIN Opcode /\ Opcode[name] = b
    BY <2>3, OpcodeIs
  <2>5. name # NoName
    BY <2>1, EnumeratorsNumbered
  <2>6. metrics.gas >= 0 /\ metrics.required >= 0 /\ metrics.required + metrics.change >= 0
    BY <1>2 DEF Fit, Rows
  <2> QED BY <2>4, <2>5, <2>6 DEF RowsAgree, name, metrics
<1> QED BY <1>3, <1>4, <1>5

\* The opcodes of the instructions the example VM has.
LEMMA WordOpcode ==
    ASSUME NEW words, NEW first \in Nat, At(first, Plain(words)) \subseteq Enumerators,
           NEW j \in DOMAIN words, NEW n, n = first + j - 1
    PROVE  Opcode[<<words[j], 0>>] = n
<1>1. <<<<words[j], 0>>, n>> \in At(first, Plain(words))
  BY DEF At, Plain
<1> QED BY <1>1, OpcodeIs

LEMMA WordsOfVM ==
    /\ Opcode[<<"STOP", 0>>] = 0 /\ Opcode[<<"ADD", 0>>] = 1 /\ Opcode[<<"ADDRESS", 0>>] = 48
    /\ Opcode[<<"CALLDATALOAD", 0>>] = 53 /\ Opcode[<<"NUMBER", 0>>] = 67
    /\ Opcode[<<"MSTORE", 0>>] = 82 /\ Opcode[<<"SLOAD", 0>>] = 84 /\ Opcode[<<"SSTORE", 0>>] = 85
    /\ Opcode[<<"MSIZE", 0>>] = 89 /\ Opcode[<<"CALL", 0>>] = 241
    /\ Opcode[<<"RETURN", 0>>] = 243 /\ Opcode[<<"REVERT", 0>>] = 253
<1>1. Opcode[<<"STOP", 0>>] = 0 /\ Opcode[<<"ADD", 0>>] = 1
  <2>1. 1 \in DOMAIN Words00 /\ 2 \in DOMAIN Words00 /\ Words00[1] = "STOP" /\ Words00[2] = "ADD"
    BY DEF Words00
  <2>2. Opcode[<<Words00[1], 0>>] = 0 /\ Opcode[<<Words00[2], 0>>] = 1
    BY <2>1, EnumeratorsAre, WordOpcode
  <2> QED BY <2>1, <2>2
<1>2. /\ Opcode[<<"ADDRESS", 0>>] = 48 /\ Opcode[<<"CALLDATALOAD", 0>>] = 53
      /\ Opcode[<<"NUMBER", 0>>] = 67
  <2>1. /\ 1 \in DOMAIN Words30 /\ 6 \in DOMAIN Words30 /\ 20 \in DOMAIN Words30
        /\ Words30[1] = "ADDRESS" /\ Words30[6] = "CALLDATALOAD" /\ Words30[20] = "NUMBER"
    BY DEF Words30
  <2>2. /\ Opcode[<<Words30[1], 0>>] = 48 /\ Opcode[<<Words30[6], 0>>] = 53
        /\ Opcode[<<Words30[20], 0>>] = 67
    BY <2>1, EnumeratorsAre, WordOpcode
  <2> QED BY <2>1, <2>2
<1>3. /\ Opcode[<<"MSTORE", 0>>] = 82 /\ Opcode[<<"SLOAD", 0>>] = 84
      /\ Opcode[<<"SSTORE", 0>>] = 85 /\ Opcode[<<"MSIZE", 0>>] = 89
  <2>1. /\ 3 \in DOMAIN Words50 /\ 5 \in DOMAIN Words50 /\ 6 \in DOMAIN Words50
        /\ 10 \in DOMAIN Words50
        /\ Words50[3] = "MSTORE" /\ Words50[5] = "SLOAD" /\ Words50[6] = "SSTORE"
        /\ Words50[10] = "MSIZE"
    BY DEF Words50
  <2>2. /\ Opcode[<<Words50[3], 0>>] = 82 /\ Opcode[<<Words50[5], 0>>] = 84
        /\ Opcode[<<Words50[6], 0>>] = 85 /\ Opcode[<<Words50[10], 0>>] = 89
    BY <2>1, EnumeratorsAre, WordOpcode
  <2> QED BY <2>1, <2>2
<1>4. /\ Opcode[<<"CALL", 0>>] = 241 /\ Opcode[<<"RETURN", 0>>] = 243
      /\ Opcode[<<"REVERT", 0>>] = 253
  <2>1. /\ 2 \in DOMAIN WordsF0 /\ 1 \in DOMAIN WordsF3 /\ 1 \in DOMAIN WordsFD
        /\ WordsF0[2] = "CALL" /\ WordsF3[1] = "RETURN" /\ WordsFD[1] = "REVERT"
    BY DEF WordsF0, WordsF3, WordsFD
  <2>2. /\ Opcode[<<WordsF0[2], 0>>] = 241 /\ Opcode[<<WordsF3[1], 0>>] = 243
        /\ Opcode[<<WordsFD[1], 0>>] = 253
    BY <2>1, EnumeratorsAre, WordOpcode
  <2> QED BY <2>1, <2>2
<1> QED BY <1>1, <1>2, <1>3, <1>4

\* And those with a number.
LEMMA NumberedOfVM ==
    /\ \A n \in 1 .. 64 : Opcode[<<"PUSH", n>>] = 95 + n
    /\ Opcode[<<"DUP", 1>>] = 160
<1>1. ASSUME NEW n \in 1 .. 64 PROVE Opcode[<<"PUSH", n>>] = 95 + n
  <2> DEFINE run == Numbered("PUSH", 0, 64)
  <2>1. n + 1 \in DOMAIN run /\ run[n + 1] = <<"PUSH", n>>
    BY DEF Numbered
  <2> HIDE DEF run
  <2>2. <<run[n + 1], 95 + (n + 1) - 1>> \in At(95, run)
    BY <2>1 DEF At
  <2>3. 95 + (n + 1) - 1 = 95 + n
    OBVIOUS
  <2>4. <<<<"PUSH", n>>, 95 + n>> \in Enumerators
    BY <2>1, <2>2, <2>3, EnumeratorsAre DEF run
  <2> QED BY <2>4, OpcodeIs
<1>2. Opcode[<<"DUP", 1>>] = 160
  <2> DEFINE run == Numbered("DUP", 1, 16)
  <2>1. 1 \in DOMAIN run /\ run[1] = <<"DUP", 1>>
    BY DEF Numbered
  <2> HIDE DEF run
  <2>2. <<run[1], 160 + 1 - 1>> \in At(160, run)
    BY <2>1 DEF At
  <2>3. <<<<"DUP", 1>>, 160>> \in Enumerators
    BY <2>1, <2>2, EnumeratorsAre DEF run
  <2> QED BY <2>3, OpcodeIs
<1> QED BY <1>1, <1>2

----------------------------------------------------------------------------
\* The tables against execute().
\* The name of a cell's instruction.
LEMMA InstructionsAre ==
    ASSUME NEW cell
    PROVE  /\ cell.op = "PUSH" => InstructionOf(cell) = <<"PUSH", cell.n>>
           /\ cell.op = "DUP1" => InstructionOf(cell) = <<"DUP", 1>>
           /\ cell.op \notin {"PUSH", "DUP1"} => InstructionOf(cell) = <<cell.op, 0>>
BY Zenon DEF InstructionOf

\* What the metrics say of an instruction the VM has: the items it pops and the difference
\* it makes, CALL with all its seven operands.
LEMMA HeightsDeclared ==
    ASSUME NEW cell \in Cell, cell.op # "UNDEFINED",
           cell.op = "PUSH" => cell.n \in 1 .. 64
    PROVE  LET b == Opcode[InstructionOf(cell)]
               m == MetricsOf("ZOND", b)
               popped == IF cell.op = "CALL" THEN CallArgs ELSE Pops[cell.op]
               pushed == IF cell.op = "CALL" THEN 1 ELSE Pushes[cell.op]
           IN  b \in Byte /\ m.required = popped /\ m.change = pushed - popped
<1> DEFINE b == Opcode[InstructionOf(cell)]
           m == MetricsOf("ZOND", b)
           op == cell.op
<1>1. op \in Op \ {"UNDEFINED"}
  BY DEF Cell
<1>2. CASE op = "PUSH"
  <2>1. InstructionOf(cell) = <<"PUSH", cell.n>>
    BY <1>2, InstructionsAre
  <2>2. PICK n \in 1 .. 64 : n = cell.n
    BY <1>2
  <2>3. Opcode[<<"PUSH", n>>] = 95 + n
    BY NumberedOfVM
  <2>4. b = 95 + n
    BY <2>1, <2>2, <2>3
  <2> HIDE DEF b
  <2>5. b \in 96 .. 159 /\ b \in Byte
    BY <2>4 DEF Byte
  <2>6. Takes(m, 0, 1)
    BY <2>5, MetricsAt DEF Fit
  <2> QED BY <1>2, <2>5, <2>6, PopsAndPushes DEF Takes, b
<1>3. CASE op = "DUP1"
  <2>1. InstructionOf(cell) = <<"DUP", 1>>
    BY <1>3, InstructionsAre
  <2>2. b = 160
    BY <2>1, NumberedOfVM
  <2> HIDE DEF b
  <2>3. b \in Byte
    BY <2>2 DEF Byte
  <2>4. Takes(m, 1, 1)
    BY <2>2, <2>3, MetricsAt DEF Fit
  <2> QED BY <1>3, <2>3, <2>4, PopsAndPushes DEF Takes, b
<1>4. CASE op \notin {"PUSH", "DUP1"}
  <2>1. InstructionOf(cell) = <<op, 0>>
    BY <1>4, InstructionsAre
  <2>2. b = Opcode[<<op, 0>>] /\ op \in Op \ {"UNDEFINED"}
    BY <1>1, <2>1
  <2>3. Pushes["STOP"] = 0 /\ Pushes["RETURN"] = 0 /\ Pushes["REVERT"] = 0
    BY DEF Pushes, Op
  <2> HIDE DEF b, op
  <2>4. /\ op = "STOP" => b = 0 /\ Pops[op] = 0 /\ Pushes[op] = 0
        /\ op = "ADD" => b = 1 /\ Pops[op] = 2 /\ Pushes[op] = 1
        /\ op = "ADDRESS" => b = 48 /\ Pops[op] = 0 /\ Pushes[op] = 1
        /\ op = "CALLDATALOAD" => b = 53 /\ Pops[op] = 1 /\ Pushes[op] = 1
        /\ op = "NUMBER" => b = 67 /\ Pops[op] = 0 /\ Pushes[op] = 1
        /\ op = "MSTORE" => b = 82 /\ Pops[op] = 2 /\ Pushes[op] = 0
        /\ op = "SLOAD" => b = 84 /\ Pops[op] = 1 /\ Pushes[op] = 1
        /\ op = "SSTORE" => b = 85 /\ Pops[op] = 2 /\ Pushes[op] = 0
        /\ op = "MSIZE" => b = 89 /\ Pops[op] = 0 /\ Pushes[op] = 1
        /\ op = "CALL" => b = 241
        /\ op = "RETURN" => b = 243 /\ Pops[op] = 2 /\ Pushes[op] = 0
        /\ op = "REVERT" => b = 253 /\ Pops[op] = 2 /\ Pushes[op] = 0
    BY <2>2, <2>3, WordsOfVM, PopsAndPushes
  <2>5. op \in {"STOP", "ADD", "ADDRESS", "CALLDATALOAD", "NUMBER", "MSTORE", "SLOAD", "SSTORE",
                "MSIZE", "CALL", "RETURN", "REVERT"}
    BY <1>4, <2>2 DEF Op
  <2>6. b \in {0, 1, 48, 53, 67, 82, 84, 85, 89, 241, 243, 253}
    BY <2>4, <2>5
  <2>7. b \in Byte
    BY <2>6 DEF Byte
  <2>8. Fit(b, m)
    BY <2>7, MetricsAt
  <2> HIDE DEF m
  <2>9. /\ b = 0 => Takes(m, 0, 0)
        /\ b = 1 => Takes(m, 2, -1)
        /\ b \in {48, 67, 89} => Takes(m, 0, 1)
        /\ b \in {53, 84} => Takes(m, 1, 0)
        /\ b \in {82, 85, 243, 253} => Takes(m, 2, -2)
        /\ b = 241 => Takes(m, 7, -6)
    BY <2>8 DEF Fit
  <2>10. /\ m.required = (IF op = "CALL" THEN CallArgs ELSE Pops[op])
        /\ m.change = (IF op = "CALL" THEN 1 ELSE Pushes[op])
                        - (IF op = "CALL" THEN CallArgs ELSE Pops[op])
    BY <2>4, <2>5, <2>9 DEF Takes, CallArgs
  <2> QED BY <2>7, <2>10 DEF b, m, op
<1> QED BY <1>2, <1>3, <1>4

\* The immediate bytes of the cell that is dispatched.
LEMMA PushIsNumbered ==
    ASSUME IInv, Dispatching, CellAt(TopFrame).op = "PUSH"
    PROVE  CellAt(TopFrame).n \in 1 .. 64
<1>1. TopFrame \in Frame /\ code \in Codes
  BY TopIsFrame DEF IInv, ControlInv, Dispatching, TypeOK, WorldOK
<1>2. TopFrame.msg.recipient \in Word /\ TopFrame.pc \in Nat \ {0}
  BY <1>1, FrameFields, MessageFields
<1>3. code \in [Word -> Seq(Cell)]
  BY <1>1, ConstantsAssumption
<1>4. CodeOf(TopFrame) \in Seq(Cell)
  BY <1>2, <1>3 DEF CodeOf
<1>5. TopFrame.pc \in DOMAIN CodeOf(TopFrame)
  BY <1>2, <1>4 DEF Dispatching, AtEnd
<1> QED BY <1>1, <1>2, <1>5, CodesAssumption DEF CellAt, CodeOf

\* The three tables agree on whatever opcode execute() meets, in every code.
THEOREM TablesAlwaysAgree == Spec => []TablesAgree
<1>1. IInv => TablesAgree
  <2> SUFFICES ASSUME IInv, Dispatching, NEW b \in OpcodesOf(CellAt(TopFrame))
               PROVE  RowsAgree(b)
    BY DEF TablesAgree, Dispatching
  <2> DEFINE cell == CellAt(TopFrame)
  <2>1. cell \in Cell /\ (cell.op = "PUSH" => cell.n \in 1 .. 64)
    BY CellIsTyped, PushIsNumbered
  <2> HIDE DEF cell
  <2>2. b \in OpcodesOf(cell)
    BY DEF cell
  <2>3. b \in Byte
    <3>1. CASE cell.op = "UNDEFINED"
      BY <2>2, <3>1 DEF OpcodesOf
    <3>2. CASE cell.op # "UNDEFINED"
      BY <2>1, <2>2, <3>2, HeightsDeclared DEF OpcodesOf
    <3> QED BY <3>1, <3>2
  <2> QED BY <2>3, RowsAlwaysAgree
<1> QED BY <1>1, Invariance, PTL

\* What a dispatched instruction does to its activation: it goes on with another stack, ends
\* for a reason that is not its stack's height, or it is CALL.
MovesHeight(op) ==
    \E k, s, m : /\ Continue(Advanced(TopFrame, k, s, m))
                 /\ Len(s) = Len(TopFrame.stack) - Pops[op] + Pushes[op]

Ends == \E status \in Status \ {"STACK_UNDERFLOW", "STACK_OVERFLOW"} :
          \E gas, size : Return(status, gas, size)

Dispatched(op) ==
    /\ Paid(op)
    /\ \/ Len(TopFrame.stack) < Pops[op] /\ Fail("STACK_UNDERFLOW")
       \/ /\ Len(TopFrame.stack) >= Pops[op]
          /\ Len(TopFrame.stack) - Pops[op] + Pushes[op] > StackLimit
          /\ Fail("STACK_OVERFLOW")
       \/ op # "CALL" /\ Ready(op) /\ (MovesHeight(op) \/ Ends)
       \/ op = "CALL" /\ (CallRefused \/ CallHost)

\* Popping the operands and pushing words, or only popping.
LEMMA PushMoves ==
    ASSUME IInv, NEW op \in Op, op # "CALL", Ready(op), Pops[op] \in Nat,
           NEW S, Word \subseteq S, NEW ws \in Seq(S), Len(ws) = Pushes[op], Push(op, ws)
    PROVE  Dispatched(op)
<1> DEFINE p == Popped(TopFrame, Pops[op])
           s == p \o ws
<1>1. TopFrame \in Frame /\ Pops[op] <= Len(TopFrame.stack)
  BY ReadyFacts
<1>2. p \in Seq(S) /\ Len(p) = Len(TopFrame.stack) - Pops[op]
  <2>1. p \in Seq(Word) /\ Len(p) = Len(TopFrame.stack) - Pops[op]
    BY <1>1, PoppedItems
  <2> HIDE DEF p
  <2> QED BY <2>1, SeqMonotonic
<1> HIDE DEF p
<1>3. Len(s) = Len(p) + Len(ws)
  BY <1>2, ConcatProperties
<1> HIDE DEF s
<1>4. Continue(Advanced(TopFrame, 0, s, TopFrame.msize))
  BY DEF Push, s, p
<1>5. Len(s) = Len(TopFrame.stack) - Pops[op] + Pushes[op]
  BY <1>2, <1>3
<1> QED BY <1>4, <1>5 DEF Dispatched, MovesHeight, Ready

LEMMA PopMoves ==
    ASSUME IInv, NEW op \in Op, op # "CALL", Ready(op), Pops[op] = 2, Pushes[op] = 0,
           NEW m, Continue(Advanced(TopFrame, 0, Popped(TopFrame, 2), m))
    PROVE  Dispatched(op)
<1> DEFINE s == Popped(TopFrame, 2)
<1>1. TopFrame \in Frame /\ 2 <= Len(TopFrame.stack) /\ Len(TopFrame.stack) \in Nat
  BY ReadyFacts
<1>2. Len(s) = Len(TopFrame.stack) - 2
  BY <1>1, PoppedItems
<1> HIDE DEF s
<1>3. Len(s) = Len(TopFrame.stack) - Pops[op] + Pushes[op]
  BY <1>1, <1>2
<1> QED BY <1>3 DEF Dispatched, MovesHeight, Ready, s

\* Every step that counts as a dispatched instruction has that shape.
LEMMA DispatchShape ==
    ASSUME IInv, Next, steps' = steps + 1
    PROVE  \E op \in Op : Dispatched(op)
<1>1. steps \in Nat
  BY DEF IInv, TypeOK, WorldOK
<1>2. ~OutOfGas /\ ~EndOfCode /\ ~Resume /\ ~Host /\ ~Start
  BY <1>1 DEF OutOfGas, EndOfCode, Resume, Host, HostAnswers, HostExecutes, Enter, Deliver, Start,
     Quiet
<1>3. CASE StackUnderflow
  BY <1>3 DEF StackUnderflow, Dispatched
<1>4. CASE StackOverflow
  BY <1>4 DEF StackOverflow, Dispatched
<1>5. CASE Undefined
  <2>1. Ends /\ Ready("UNDEFINED")
    BY <1>5 DEF Undefined, Ends, Fail, Status
  <2> QED BY <2>1, PopsAndPushes DEF Dispatched, Ready
<1>6. ASSUME NEW op \in {"ADD", "ADDRESS", "CALLDATALOAD", "NUMBER", "SLOAD", "MSIZE"}, NEW w,
             Ready(op), Push(op, <<w>>)
      PROVE  Dispatched(op)
  <2> DEFINE ws == <<w>>
  <2>1. op \in Op /\ op # "CALL" /\ Pops[op] \in Nat /\ Pushes[op] = 1
    BY PopsAndPushes
  <2>2. ws \in Seq(Word \cup {w}) /\ Len(ws) = 1
    OBVIOUS
  <2>3. Push(op, ws)
    BY <1>6
  <2> HIDE DEF ws
  <2> QED BY <1>6, <2>1, <2>2, <2>3, PushMoves
<1>7. CASE Add \/ Address \/ CallDataLoad \/ Number \/ SLoad \/ MSize
  <2>1. \E op \in {"ADD", "ADDRESS", "CALLDATALOAD", "NUMBER", "SLOAD", "MSIZE"} :
          \E w : Ready(op) /\ Push(op, <<w>>)
    BY <1>7 DEF Add, Address, CallDataLoad, Number, SLoad, MSize
  <2> QED BY <1>6, <2>1 DEF Op
<1>8. CASE Dup1
  <2> DEFINE w == Arg(TopFrame, 1)
             ws == <<w, w>>
  <2>1. "DUP1" \in Op /\ "DUP1" # "CALL" /\ Pops["DUP1"] \in Nat /\ Pushes["DUP1"] = 2
    BY PopsAndPushes
  <2>2. Ready("DUP1") /\ Push("DUP1", ws)
    BY <1>8 DEF Dup1
  <2> HIDE DEF w
  <2>3. ws \in Seq(Word \cup {w}) /\ Len(ws) = 2
    OBVIOUS
  <2> HIDE DEF ws
  <2> QED BY <2>1, <2>2, <2>3, PushMoves
<1>9. CASE PushN
  <2> DEFINE c == CellAt(TopFrame)
             s == Append(TopFrame.stack, c.word)
  <2>1. "PUSH" \in Op /\ Pops["PUSH"] = 0 /\ Pushes["PUSH"] = 1
    BY PopsAndPushes
  <2>2. Ready("PUSH") /\ Continue(Advanced(TopFrame, c.n, s, TopFrame.msize))
    BY <1>9 DEF PushN
  <2>3. c.word \in Word
    BY <2>2, CellIsTyped DEF Cell, Ready, Paid
  <2>4. TopFrame.stack \in Seq(Word)
    BY <2>1, <2>2, ReadyFacts
  <2> HIDE DEF c
  <2>5. Len(s) = Len(TopFrame.stack) - Pops["PUSH"] + Pushes["PUSH"]
    BY <2>1, <2>3, <2>4
  <2> HIDE DEF s
  <2> QED BY <2>1, <2>2, <2>5 DEF Dispatched, MovesHeight, Ready
<1>10. CASE MStore \/ SStore
  <2>1. PICK op \in {"MSTORE", "SSTORE"} :
          /\ Ready(op)
          /\ \/ \E m : Continue(Advanced(TopFrame, 0, Popped(TopFrame, 2), m))
             \/ Fail("FAILURE") \/ Fail("STATIC_MODE_VIOLATION")
    BY <1>10 DEF MStore, SStore
  <2>2. op \in Op /\ op # "CALL" /\ Pops[op] = 2 /\ Pushes[op] = 0
    BY PopsAndPushes
  <2>3. CASE \E m : Continue(Advanced(TopFrame, 0, Popped(TopFrame, 2), m))
    BY <2>1, <2>2, <2>3, PopMoves
  <2>4. CASE Fail("FAILURE") \/ Fail("STATIC_MODE_VIOLATION")
    <3>1. Ends
      BY <2>4 DEF Ends, Fail, Status
    <3> QED BY <2>1, <2>2, <3>1 DEF Dispatched, Ready
  <2> QED BY <2>1, <2>3, <2>4
<1>11. CASE Stop \/ OpReturn \/ OpRevert
  <2>1. \E op \in {"STOP", "RETURN", "REVERT"} : Ready(op)
    BY <1>11 DEF Stop, OpReturn, OpRevert, ReturnData
  <2>2. Ends
    BY <1>11 DEF Stop, OpReturn, OpRevert, ReturnData, Ends, Fail, Status
  <2> QED BY <2>1, <2>2 DEF Dispatched, Ready, Op
<1>12. CASE CallRefused \/ CallHost
  <2>1. Ready("CALL")
    BY <1>12 DEF CallRefused, CallHost, CallAllowed
  <2> QED BY <1>12, <2>1, PopsAndPushes DEF Dispatched, Ready
<1> QED BY <1>2, <1>3, <1>4, <1>5, <1>7, <1>8, <1>9, <1>10, <1>11, <1>12
        DEF Next, Execute, Instruction

\* The heights before and after, in numbers.
LEMMA HeightBefore ==
    ASSUME IInv, NEW op \in Op, Paid(op), op # "UNDEFINED"
    PROVE  /\ CellAt(TopFrame).op = op /\ Before \in Nat /\ Before <= StackLimit
           /\ Len(frames) \in Nat \ {0}
           /\ Declared.required = (IF op = "CALL" THEN 7 ELSE Pops[op])
           /\ Declared.change = (IF op = "CALL" THEN -6 ELSE Pushes[op] - Pops[op])
           /\ Pops[op] \in Nat /\ Pushes[op] \in Nat
<1> DEFINE cell == CellAt(TopFrame)
<1>1. Dispatching /\ cell.op = op /\ ctl = "exec" /\ frames # <<>>
  BY DEF Paid, Dispatching, IInv, ControlInv
<1>2. cell \in Cell /\ (cell.op = "PUSH" => cell.n \in 1 .. 64)
  BY <1>1, CellIsTyped, PushIsNumbered
<1>3. TopFrame \in Frame /\ Len(frames) \in Nat \ {0} /\ Len(TopFrame.stack) <= StackLimit
  BY <1>1, TopIsFrame DEF IInv
<1>4. Before \in Nat /\ Before <= StackLimit
  BY <1>3, FrameFields DEF Before
<1>5. Pops[op] \in Nat /\ Pushes[op] \in Nat
  BY DEF Pops, Pushes, Op
<1> HIDE DEF cell
<1>6. /\ Declared.required = (IF op = "CALL" THEN CallArgs ELSE Pops[op])
      /\ Declared.change = (IF op = "CALL" THEN 1 ELSE Pushes[op])
                             - (IF op = "CALL" THEN CallArgs ELSE Pops[op])
  BY <1>1, <1>2, HeightsDeclared DEF Declared, cell
<1>7. Declared.change = (IF op = "CALL" THEN -6 ELSE Pushes[op] - Pops[op])
  BY <1>6 DEF CallArgs
<1> QED BY <1>1, <1>3, <1>4, <1>5, <1>6, <1>7 DEF CallArgs, cell

\* The frame that ends is gone, and its result is under way.
LEMMA EndedBy ==
    ASSUME IInv, ctl = "exec", NEW status, NEW gas, NEW size, Return(status, gas, size)
    PROVE  /\ Len(frames') # Len(frames) /\ ret'.status = status
<1>1. Len(Callers) = Len(frames) - 1 /\ Len(frames) \in Nat \ {0}
  BY TopIsFrame DEF IInv, ControlInv
<1> QED BY <1>1 DEF Return, MakeResult

\* An instruction other than CALL.
LEMMA PlainMatches ==
    ASSUME IInv, NEW op \in Op \ {"CALL", "UNDEFINED"}, Dispatched(op)
    PROVE  DispatchMatches
<1>1. /\ Before \in Nat /\ Before <= StackLimit /\ Len(frames) \in Nat \ {0}
      /\ Declared.required = Pops[op] /\ Declared.change = Pushes[op] - Pops[op]
      /\ Pops[op] \in Nat /\ Pushes[op] \in Nat /\ ctl = "exec" /\ frames # <<>>
  BY HeightBefore DEF Dispatched, Paid, Dispatching, IInv, ControlInv
<1>2. CASE Len(TopFrame.stack) < Pops[op] /\ Fail("STACK_UNDERFLOW")
  <2>1. Len(frames') # Len(frames) /\ ret'.status = "STACK_UNDERFLOW"
    BY <1>1, <1>2, EndedBy DEF Fail
  <2> QED BY <1>1, <1>2, <2>1 DEF DispatchMatches, Before
<1>3. CASE /\ Len(TopFrame.stack) >= Pops[op]
           /\ Len(TopFrame.stack) - Pops[op] + Pushes[op] > StackLimit
           /\ Fail("STACK_OVERFLOW")
  <2>1. Len(frames') # Len(frames) /\ ret'.status = "STACK_OVERFLOW"
    BY <1>1, <1>3, EndedBy DEF Fail
  <2>2. Before >= Pops[op] /\ Before + (Pushes[op] - Pops[op]) > StackLimit
    BY <1>1, <1>3, ConstantsAssumption DEF Before
  <2> QED BY <1>1, <2>1, <2>2 DEF DispatchMatches
<1>4. CASE Ready(op) /\ MovesHeight(op)
  <2>1. PICK k, s, m : /\ Continue(Advanced(TopFrame, k, s, m))
                       /\ Len(s) = Len(TopFrame.stack) - Pops[op] + Pushes[op]
    BY <1>4 DEF MovesHeight
  <2> DEFINE g == Advanced(TopFrame, k, s, m)
  <2>2. g.stack = s
    BY <1>1, TopIsFrame DEF Advanced, Frame, IInv
  <2>3. frames' = Append(Callers, g) /\ ctl' = "exec"
    BY <1>1, <2>1 DEF Continue
  <2> HIDE DEF g
  <2>4. Len(frames') = Len(frames) /\ frames'[Len(frames)] = g
    BY <1>1, <2>3, Swapped DEF IInv
  <2>5. After = Len(s)
    BY <2>2, <2>4 DEF After, TopFrame
  <2>6. After = Before - Pops[op] + Pushes[op] /\ Before >= Pops[op]
        /\ Before - Pops[op] + Pushes[op] <= StackLimit
    BY <1>4, <2>1, <2>5 DEF Before, Ready
  <2>7. After = Before + (Pushes[op] - Pops[op]) /\ Before + (Pushes[op] - Pops[op]) <= StackLimit
    BY <1>1, <2>6, ConstantsAssumption
  <2> HIDE DEF After
  <2> QED BY <1>1, <2>3, <2>4, <2>6, <2>7 DEF DispatchMatches
<1>5. CASE Ready(op) /\ Ends
  <2>1. Len(frames') # Len(frames) /\ ret'.status \notin {"STACK_UNDERFLOW", "STACK_OVERFLOW"}
    BY <1>1, <1>5, EndedBy DEF Ends
  <2>2. Before >= Pops[op]
    BY <1>5 DEF Before, Ready
  <2> QED BY <1>1, <2>1, <2>2 DEF DispatchMatches
<1> QED BY <1>2, <1>3, <1>4, <1>5 DEF Dispatched

\* CALL: it never overflows before the host's answer, the checks that come before its last
\* four operands are popped are the early refusals, and it parts with all seven.
LEMMA CallMatches ==
    ASSUME IInv, Dispatched("CALL")
    PROVE  DispatchMatches
<1>1. "CALL" \in Op /\ Pops["CALL"] = 3 /\ Pushes["CALL"] = 0
  BY PopsAndPushes
<1>2. /\ Before \in Nat /\ Before <= StackLimit /\ Len(frames) \in Nat \ {0}
      /\ Declared.required = 7 /\ Declared.change = -6 /\ CellAt(TopFrame).op = "CALL"
      /\ ctl = "exec" /\ frames # <<>>
  BY <1>1, HeightBefore DEF Dispatched, Paid, Dispatching, IInv, ControlInv
<1>3. CASE Len(TopFrame.stack) < Pops["CALL"] /\ Fail("STACK_UNDERFLOW")
  <2>1. Len(frames') # Len(frames) /\ ret'.status = "STACK_UNDERFLOW"
    BY <1>2, <1>3, EndedBy DEF Fail
  <2>2. Before < 7
    BY <1>1, <1>2, <1>3 DEF Before
  <2> QED BY <1>2, <2>1, <2>2 DEF DispatchMatches
<1>4. ~(Len(TopFrame.stack) - Pops["CALL"] + Pushes["CALL"] > StackLimit)
  BY <1>1, <1>2, ConstantsAssumption DEF Before
<1>5. CASE CallRefused
  <2>1. PICK status \in {"CALL_DEPTH_EXCEEDED", "STATIC_MODE_VIOLATION", "STACK_UNDERFLOW",
                         "FAILURE"} :
          /\ Fail(status)
          /\ status = "STACK_UNDERFLOW" => Len(TopFrame.stack) < CallArgs
          /\ status = "FAILURE" => Len(TopFrame.stack) >= CallArgs
    BY <1>5 DEF CallRefused
  <2>2. Len(frames') # Len(frames) /\ ret'.status = status
    BY <1>2, <2>1, EndedBy DEF Fail
  <2>3. /\ status = "STACK_UNDERFLOW" => Before < 7
        /\ status = "FAILURE" => ~(Before < 7)
    BY <1>2, <2>1 DEF Before, CallArgs
  <2> QED BY <1>2, <2>1, <2>2, <2>3 DEF DispatchMatches, RefusedEarly
<1>6. CASE CallHost
  <2>1. PICK lent, m :
          /\ frames' = Append(Callers, Suspended(TopFrame, lent, Popped(TopFrame, CallArgs), m))
          /\ ctl' = "host" /\ Len(TopFrame.stack) >= CallArgs
    BY <1>6 DEF CallHost
  <2> DEFINE s == Popped(TopFrame, CallArgs)
             g == Suspended(TopFrame, lent, s, m)
  <2>2. TopFrame \in Frame
    BY <1>2, TopIsFrame DEF IInv
  <2>3. Before >= 7 /\ Len(s) = Before - 7
    BY <1>2, <2>1, <2>2, PoppedItems DEF Before, CallArgs
  <2> HIDE DEF s
  <2>4. g.stack = s
    BY <2>2 DEF Suspended, Advanced, Frame
  <2>5. frames' = Append(Callers, g)
    BY <2>1 DEF s
  <2> HIDE DEF g
  <2>6. Len(frames') = Len(frames) /\ frames'[Len(frames)] = g
    BY <1>2, <2>5, Swapped DEF IInv
  <2>7. After = Before - 7
    BY <2>3, <2>4, <2>6 DEF After, TopFrame
  <2>8. After + 1 = Before + -6 /\ Before + -6 <= StackLimit /\ ~(Before < 7)
    BY <1>2, <2>3, <2>7, ConstantsAssumption
  <2> HIDE DEF After
  <2> QED BY <1>2, <2>1, <2>3, <2>6, <2>8 DEF DispatchMatches
<1> QED BY <1>3, <1>4, <1>5, <1>6 DEF Dispatched

\* The other half of CALL: the success flag.
LEMMA ResumePushes ==
    ASSUME IInv, Next, ctl = "return", frames # <<>>, ctl' = "exec"
    PROVE  After = Before + 1
<1>1. Resume
  <2>1. ~Start /\ ~Host
    BY DEF Start, Host, HostAnswers, HostExecutes, Enter, Deliver
  <2>2. ~Advances /\ ~Returns /\ ~CallHost
    BY DEF Advances, Returns, CallHost, CallAllowed, Ready, Paid, Dispatching
  <2> QED BY <2>1, <2>2, StepShape
<1>2. PICK back, flag : /\ frames' = Append(Callers, Resumed(TopFrame, back, flag))
                        /\ flag \in {0, 1}
  BY <1>1 DEF Resume, Fail, Return
<1> DEFINE g == Resumed(TopFrame, back, flag)
           s == Append(TopFrame.stack, flag)
<1>3. TopFrame \in Frame /\ TopFrame.stack \in Seq(Word) /\ flag \in Word
  BY <1>2, TopIsFrame, FrameFields, ConstantsAssumption DEF IInv, Word
<1>4. g.stack = s
  BY <1>3 DEF Resumed, Frame
<1>5. Len(s) = Len(TopFrame.stack) + 1
  BY <1>3
<1> HIDE DEF g, s
<1>6. frames' = Append(Callers, g)
  BY <1>2 DEF g
<1>7. Len(frames') = Len(frames) /\ frames'[Len(frames)] = g
  BY <1>6, Swapped DEF IInv
<1> QED BY <1>4, <1>5, <1>7 DEF After, Before, TopFrame

\* Whatever the code, an activation that goes on has changed its stack by the height the
\* tables declare and had the height they require; it underflows exactly when it had not, and
\* overflows only when the declared change does not fit.
THEOREM HeightsAlwaysMatch == Spec => HeightsMatchTable
<1> DEFINE matches ==
             /\ steps' = steps + 1 /\ CellAt(TopFrame).op # "UNDEFINED" => DispatchMatches
             /\ ctl = "return" /\ frames # <<>> /\ ctl' = "exec" => After = Before + 1
<1>1. IInv /\ [Next]_vars => [matches]_vars
  <2> SUFFICES ASSUME IInv, Next PROVE matches
    OBVIOUS
  <2>1. ASSUME steps' = steps + 1, CellAt(TopFrame).op # "UNDEFINED"
        PROVE  DispatchMatches
    <3>1. PICK op \in Op : Dispatched(op)
      BY <2>1, DispatchShape
    <3>2. op # "UNDEFINED"
      BY <2>1, <3>1 DEF Dispatched, Paid
    <3> QED BY <3>1, <3>2, PlainMatches, CallMatches
  <2>2. ASSUME ctl = "return", frames # <<>>, ctl' = "exec" PROVE After = Before + 1
    BY <2>2, ResumePushes
  <2> HIDE DEF After, Before
  <2> QED BY <2>1, <2>2
<1> QED BY <1>1, Invariance, PTL DEF Spec, HeightsMatchTable
=============================================================================

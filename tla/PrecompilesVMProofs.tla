------------------------ MODULE PrecompilesVMProofs ------------------------
(***************************************************************************)
(* Proofs about PrecompilesVM: for integers of any width and all gas        *)
(* constants, the identity costs what it should.                            *)
(***************************************************************************)
EXTENDS PrecompilesVM, TLAPS

LEMMA SmallMod ==
    ASSUME NEW a \in Nat, NEW b \in Nat, a < b
    PROVE  a % b = a
BY Z3

LEMMA DivBound ==
    ASSUME NEW n \in Nat, NEW w \in Nat \ {0}, NEW k \in Nat
    PROVE  k <= n \div w <=> w * k <= n
BY Z3

LEMMA DivParts ==
    ASSUME NEW n \in Nat, NEW w \in Nat \ {0}
    PROVE  /\ n \div w \in Nat
           /\ n % w \in 0 .. w - 1
           /\ n = (n \div w) * w + (n % w)
<1>1. n \div w \in Nat
  BY Z3
<1>2. n % w \in 0 .. w - 1
  BY Z3
<1>3. n = (n \div w) * w + (n % w)
  BY Z3
<1> QED BY <1>1, <1>2, <1>3

LEMMA Product ==
    ASSUME NEW a \in Int, NEW b \in Int, NEW w \in Nat \ {0}
    PROVE  /\ a * w \in Int /\ (a + b) * w = a * w + b * w /\ 1 * w = w
           /\ a * w < b * w => a < b
           /\ a * w <= b * w => a <= b
           /\ a <= b => a * w <= b * w
<1>1. a * w \in Int /\ (a + b) * w = a * w + b * w /\ 1 * w = w
  BY Z3
<1>2. a * w < b * w => a < b
  BY Z3
<1>3. a * w <= b * w => a <= b
  BY Z3
<1>4. a <= b => a * w <= b * w
  BY Z3
<1> QED BY <1>1, <1>2, <1>3, <1>4

\* What fits an int64_t is not changed by it.
LEMMA Int64Fits ==
    ASSUME NEW n \in 0 .. MaxGas
    PROVE  Int64(n) = n
<1>1. n + MaxGas + 1 \in Nat /\ 2 * (MaxGas + 1) \in Nat /\ n + MaxGas + 1 < 2 * (MaxGas + 1)
  BY PrecompilesAssumption
<1>2. (n + MaxGas + 1) % (2 * (MaxGas + 1)) = n + MaxGas + 1
  BY <1>1, SmallMod
<1> QED BY <1>2, PrecompilesAssumption DEF Int64

LEMMA WordsAreNatural ==
    ASSUME msg.input_size \in Nat
    PROVE  input_words \in Nat
BY DivParts, PrecompilesAssumption DEF input_words

\* The division and the remainder count the words begun.
LEMMA WordsCounted ==
    ASSUME msg.input_size \in Nat, NEW w \in Nat, WordsBegun(w)
    PROVE  input_words = w /\ w \in Nat
<1> DEFINE size == msg.input_size
           q == size \div WordSize
           r == size % WordSize
<1>1. q \in Nat /\ r \in 0 .. WordSize - 1 /\ size = q * WordSize + r
  BY DivParts, PrecompilesAssumption
<1>2. w * WordSize >= size /\ (w - 1) * WordSize < size
  BY DEF WordsBegun
<1>3. WordSize \in Nat \ {0} /\ size \in Nat
  BY PrecompilesAssumption
<1> HIDE DEF size, q, r
<1>4. q * WordSize \in Int /\ (q + 1) * WordSize = q * WordSize + WordSize
  BY <1>1, <1>3, Product
<1>5. w * WordSize \in Int /\ (w - 1) * WordSize \in Int
  BY <1>3, Product
<1>6. CASE r = 0
  <2>1. w >= q
    BY <1>1, <1>2, <1>3, <1>5, <1>6, Product
  <2>2. w - 1 < q
    BY <1>1, <1>2, <1>3, <1>4, <1>5, <1>6, Product
  <2> QED BY <2>1, <2>2, <1>1, <1>6 DEF input_words, q, r, size
<1>7. CASE r # 0
  <2>1. q < w
    <3>1. q * WordSize < w * WordSize
      BY <1>1, <1>2, <1>3, <1>4, <1>5, <1>7
    <3> QED BY <3>1, <1>1, <1>3, Product
  <2>2. w - 1 < q + 1
    <3>1. (w - 1) * WordSize < (q + 1) * WordSize
      BY <1>1, <1>2, <1>3, <1>4, <1>5, <1>7
    <3> QED BY <3>1, <1>1, <1>3, Product
  <2> QED BY <2>1, <2>2, <1>1, <1>7 DEF input_words, q, r, size
<1> QED BY <1>6, <1>7, <1>1

\* The bound is exact: the cost fits an int64_t if and only if the input is not too long, and
\* then it is computed as it is.
LEMMA CostFits ==
    ASSUME input_words \in Nat
    PROVE  LET cost == BaseGas + WordGas * input_words
           IN  /\ cost \in Nat
               /\ TooLong <=> cost > MaxGas
               /\ ~TooLong => gas_cost = cost
<1> DEFINE n == input_words
           pay == WordGas * n
<1>1. pay \in Nat /\ n <= pay
  <2>1. n * WordGas \in Int /\ n * 1 <= n * WordGas
    BY PrecompilesAssumption, Z3
  <2> QED BY <2>1, PrecompilesAssumption, Z3
<1>2. n <= max_input_words <=> pay <= MaxGas - BaseGas
  BY DivBound, PrecompilesAssumption DEF max_input_words
<1>3. max_input_words \in Nat
  BY DivParts, PrecompilesAssumption DEF max_input_words
<1> HIDE DEF n, pay
<1>4. n \in Nat /\ BaseGas \in Nat /\ MaxGas \in Nat /\ BaseGas <= MaxGas
  BY PrecompilesAssumption DEF n
<1>5. TooLong <=> BaseGas + pay > MaxGas
  BY <1>1, <1>2, <1>3, <1>4 DEF TooLong, n
<1>6. ASSUME ~TooLong PROVE gas_cost = BaseGas + pay
  <2>1. n \in 0 .. MaxGas /\ pay \in 0 .. MaxGas /\ BaseGas + pay \in 0 .. MaxGas
    BY <1>1, <1>4, <1>5, <1>6
  <2>2. Int64(n) = n /\ Int64(pay) = pay /\ Int64(BaseGas + pay) = BaseGas + pay
    BY <2>1, Int64Fits
  <2>3. gas_cost = Int64(BaseGas + Int64(WordGas * Int64(n)))
    BY DEF gas_cost, n
  <2>4. WordGas * n = pay
    BY DEF pay
  <2> QED BY <2>2, <2>3, <2>4
<1> QED BY <1>1, <1>4, <1>5, <1>6 DEF n, pay

----------------------------------------------------------------------------
LEMMA MessageSizes ==
    ASSUME NEW m \in Message
    PROVE  m.input_size \in Nat /\ m.gas \in 0 .. MaxGas /\ m.gas \in Nat
<1>1. m.input_size \in Sizes /\ m.gas \in Gases
  BY DEF Message
<1>2. m.input_size \in 0 .. MaxSize /\ m.gas \in 0 .. MaxGas /\ MaxSize \in Nat /\ MaxGas \in Nat
  BY <1>1, PrecompilesAssumption
<1> QED BY <1>2

\* Which messages there are, and what an answer of the identity says of its cost.
IdentityAnswered ==
    /\ TooLong => result.status = "OUT_OF_GAS"
    /\ ~TooLong =>
         /\ result.status = "OUT_OF_GAS" <=> msg.gas < gas_cost
         /\ result.status = "SUCCESS" =>
              result.gas_left = msg.gas - gas_cost /\ result.output_size = msg.input_size

Inv ==
    /\ msg \in Message
    /\ phase = "answered" /\ msg.address = "identity" => IdentityAnswered

LEMMA InvKept ==
    ASSUME Inv, [Next]_vars
    PROVE  Inv'
<1> USE DEF Inv
<1>1. CASE Invoke
  BY <1>1 DEF Invoke
<1>2. CASE Outside \/ NotImplemented \/ ExecuteEmpty
  BY <1>2 DEF Outside, NotImplemented, ExecuteEmpty, Answer
<1>3. ASSUME msg' = msg PROVE /\ (msg \in Message)'
                              /\ TooLong' = TooLong /\ gas_cost' = gas_cost
  BY <1>3 DEF TooLong, gas_cost, input_words, max_input_words, Int64
<1>4. CASE IdentityTooLong
  <2>1. msg' = msg /\ TooLong /\ result'.status = "OUT_OF_GAS"
    BY <1>4 DEF IdentityTooLong, Answer
  <2> QED BY <1>3, <2>1 DEF IdentityAnswered
<1>5. CASE IdentityOutOfGas
  <2>1. msg' = msg /\ ~TooLong /\ result'.status = "OUT_OF_GAS" /\ msg.gas < gas_cost
    BY <1>5 DEF IdentityOutOfGas, Answer
  <2> QED BY <1>3, <2>1 DEF IdentityAnswered
<1>6. CASE Identity
  <2>1. /\ msg' = msg /\ ~TooLong /\ msg.gas >= gas_cost
        /\ \/ result'.status = "OUT_OF_MEMORY"
           \/ /\ result'.status = "SUCCESS" /\ result'.gas_left = msg.gas - gas_cost
              /\ result'.output_size = msg.input_size
    BY <1>6 DEF Identity, MakeResult, Answer
  <2>2. msg.input_size \in Nat /\ msg.gas \in Nat
    BY MessageSizes
  <2>3. input_words \in Nat
    BY <2>2, WordsAreNatural
  <2>4. gas_cost \in Nat
    BY <2>1, <2>3, CostFits
  <2>5. ~(msg.gas < gas_cost)
    BY <2>1, <2>2, <2>4
  <2> QED BY <1>3, <2>1, <2>5 DEF IdentityAnswered
<1>7. CASE Take
  BY <1>7 DEF Take
<1>8. CASE UNCHANGED vars
  <2>1. msg' = msg /\ result' = result /\ phase' = phase
    BY <1>8 DEF vars
  <2> QED BY <1>3, <2>1 DEF IdentityAnswered
<1> QED BY <1>1, <1>2, <1>4, <1>5, <1>6, <1>7, <1>8 DEF Next, Execute

\* The types of execute(), and what the identity answered to the message it was given.
THEOREM Invariant == Spec => []Inv
<1>1. Init => Inv
  BY DEF Init, Inv
<1> QED BY <1>1, InvKept, PTL DEF Spec

\* Whatever the widths of int64_t and size_t, the identity's cost is that of its input in
\* unbounded numbers: no input is long enough to be cheap.
THEOREM AlwaysPaysExactly == Spec => []PaysExactly
<1>1. Inv => PaysExactly
  <2> SUFFICES ASSUME Inv, phase = "answered", msg.address = "identity",
                      NEW w \in 0 .. MaxSize, WordsBegun(w)
               PROVE  LET cost == BaseGas + WordGas * w
                      IN  /\ result.status = "OUT_OF_GAS" <=> msg.gas < cost
                          /\ result.status = "SUCCESS" =>
                               result.gas_left = msg.gas - cost /\ result.output_size = msg.input_size
    BY DEF PaysExactly
  <2>1. msg.input_size \in Nat /\ msg.gas \in 0 .. MaxGas /\ w \in Nat
    BY MessageSizes, PrecompilesAssumption DEF Inv
  <2>2. input_words = w
    BY <2>1, WordsCounted
  <2> DEFINE cost == BaseGas + WordGas * w
  <2>3. cost \in Nat /\ (TooLong <=> cost > MaxGas) /\ (~TooLong => gas_cost = cost)
    BY <2>1, <2>2, CostFits
  <2>4. IdentityAnswered
    BY DEF Inv
  <2> HIDE DEF cost
  <2>5. CASE TooLong
    <3>1. msg.gas < cost
      BY <2>1, <2>3, <2>5, PrecompilesAssumption
    <3> QED BY <2>4, <2>5, <3>1 DEF IdentityAnswered, cost
  <2>6. CASE ~TooLong
    BY <2>3, <2>4, <2>6 DEF IdentityAnswered, cost
  <2> QED BY <2>5, <2>6
<1> QED BY <1>1, Invariant, PTL

----------------------------------------------------------------------------
\* An answer within the contract.
Pays(left) == left \in Nat /\ left <= msg.gas

LEMMA AnswersContract ==
    ASSUME msg \in Message, NEW status, NEW left, NEW size, Answer(status, left, size),
           Pays(left), status # "SUCCESS" => left = 0
    PROVE  Contract!Answer
<1>1. /\ phase = "running" /\ phase' = "answered" /\ msg' = msg
      /\ result'.gas_left = left /\ result'.status = status
  BY DEF Answer
<1> QED BY <1>1 DEF Contract!Answer, Pays

\* The precompiles VM gives back at most the gas it was given, and nothing when it fails.
THEOREM Refinement == Spec => ImplementsMetered
<1>1. Init => Contract!Init
  BY DEF Init, Contract!Init, NoResult
<1>2. Inv /\ [Next]_vars => [Contract!Next]_(Contract!vars)
  <2> SUFFICES ASSUME Inv, [Next]_vars PROVE [Contract!Next]_(Contract!vars)
    OBVIOUS
  <2> USE DEF Contract!Next
  <2>1. msg \in Message /\ msg.gas \in Nat /\ msg.input_size \in Nat
    BY MessageSizes DEF Inv
  <2>2. Pays(0) /\ Pays(msg.gas)
    BY <2>1 DEF Pays
  <2>3. CASE Invoke
    <3>1. msg'.gas \in Nat
      <4>1. msg' \in Message
        BY <2>3 DEF Invoke
      <4> QED BY <4>1, MessageSizes
    <3> QED BY <2>3, <3>1 DEF Invoke, Contract!Begin
  <2>4. CASE Outside \/ NotImplemented
    BY <2>1, <2>2, <2>4, AnswersContract DEF Outside, NotImplemented
  <2>5. CASE ExecuteEmpty
    BY <2>1, <2>2, <2>5, AnswersContract DEF ExecuteEmpty
  <2>6. CASE IdentityTooLong \/ IdentityOutOfGas
    BY <2>1, <2>2, <2>6, AnswersContract DEF IdentityTooLong, IdentityOutOfGas
  <2>7. CASE Identity
    <3>1. input_words \in Nat
      BY <2>1, WordsAreNatural
    <3>2. gas_cost \in Nat /\ gas_cost <= msg.gas
      BY <2>1, <2>7, <3>1, CostFits DEF Identity
    <3>3. Pays(msg.gas - gas_cost)
      BY <2>1, <3>2 DEF Pays
    <3> QED BY <2>1, <2>2, <2>7, <3>3, AnswersContract DEF Identity, MakeResult
  <2>8. CASE Take
    BY <2>8 DEF Take, Contract!Take, NoResult
  <2>9. CASE UNCHANGED vars
    BY <2>9 DEF vars, Contract!vars
  <2> QED BY <2>3, <2>4, <2>5, <2>6, <2>7, <2>8, <2>9 DEF Next, Execute
<1> QED BY <1>1, <1>2, Invariant, PTL DEF Spec, ImplementsMetered, Contract!Spec
=============================================================================

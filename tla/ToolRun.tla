------------------------------ MODULE ToolRun ------------------------------
(***************************************************************************)
(* lib/tooling/run.cpp: the tool that creates, executes and benchmarks code *)
(* on one mocked host.  The VM is any that is a function of the message,    *)
(* the code and the state of the host: its outcomes are picked when they    *)
(* are first needed, and stay.                                              *)
(***************************************************************************)
EXTENDS Integers

CONSTANTS
    Main,         \* the code that is passed to run()
    Outputs,      \* what executions may output; as code, if it is that of a creation
    Worlds,       \* the states of the host
    Fresh,        \* the state of a new MockedHost
    Gas,          \* the gas limit
    CreateGas,    \* create_gas
    Target,       \* bound: target_bench_time in clock ticks
    Nobody, CreateAddress

ASSUME ToolAssumption ==
    /\ Fresh \in Worlds /\ Gas \in Nat /\ CreateGas \in Nat /\ Target \in Nat
    /\ Nobody # CreateAddress

Status == {"SUCCESS", "REVERT", "FAILURE"}
Outcome == [status : Status, gas_left : 0 .. Gas, output : Outputs, world : Worlds]
Message == [kind : {"CALL", "CREATE"}, recipient : {Nobody, CreateAddress}, gas : {Gas, CreateGas}]

VARIABLES
    create, bench,  \* the options
    phase,          \* where run() is
    vm,             \* the VM, as far as it was asked
    host,           \* the state of the host
    msg, exec_code, \* what is executed
    result,         \* the first execution's result
    iterations,     \* of the benchmark loop, to do
    warned,         \* whether a warning was printed
    printed,        \* the result, gas used and output that were printed
    exit            \* the value returned

vars == <<create, bench, phase, vm, host, msg, exec_code, result, iterations, warned, printed, exit>>
options == <<create, bench>>
task == <<msg, exec_code>>
Nothing == [status |-> "none"]

----------------------------------------------------------------------------
create_msg == [kind |-> "CREATE", recipient |-> CreateAddress, gas |-> CreateGas]

\* vm.execute() on the host, with one of the outcomes it can have.
Execute(m, code, outcome) ==
    LET key == <<m, code, host>>
    IN  /\ key \in DOMAIN vm => outcome = vm[key]
        /\ vm' = [k \in DOMAIN vm \cup {key} |-> IF k = key THEN outcome ELSE vm[k]]
        /\ host' = outcome.world

\* The output becomes the code of the new account: outcome.world is the host that has it.
CreateContract(outcome) ==
    /\ phase = "create" /\ create
    /\ Execute(create_msg, Main, outcome)
    /\ outcome.status = "SUCCESS"
    /\ msg' = [msg EXCEPT !.recipient = CreateAddress] /\ exec_code' = outcome.output
    /\ phase' = "execute"
    /\ UNCHANGED <<options, result, iterations, warned, printed, exit>>

\* Mutant of CreateFails: the contract is executed anyway.
CreateFailsOn(outcome) ==
    /\ phase = "create" /\ create
    /\ Execute(create_msg, Main, outcome)
    /\ outcome.status # "SUCCESS"
    /\ exit' = outcome.status /\ phase' = "execute"
    /\ UNCHANGED <<options, task, result, iterations, warned, printed>>

\* Mutant of CreateFails: the failure is printed, but is none for who called.
CreateFailsQuietly(outcome) ==
    /\ phase = "create" /\ create
    /\ Execute(create_msg, Main, outcome)
    /\ outcome.status # "SUCCESS"
    /\ exit' = "0" /\ phase' = "end"
    /\ UNCHANGED <<options, task, result, iterations, warned, printed>>

CreateFails(outcome) ==
    /\ phase = "create" /\ create
    /\ Execute(create_msg, Main, outcome)
    /\ outcome.status # "SUCCESS"
    /\ exit' = outcome.status /\ phase' = "end"
    /\ UNCHANGED <<options, task, result, iterations, warned, printed>>

ExecuteOnce(outcome) ==
    /\ phase = IF create THEN "execute" ELSE "create"
    /\ Execute(msg, exec_code, outcome)
    /\ result' = outcome
    /\ phase' = IF bench THEN "probe" ELSE "report"
    /\ UNCHANGED <<options, task, iterations, warned, printed, exit>>

\* What the warning is about: the result of executing the warm code again.
Differs(outcome) == outcome.gas_left # result.gas_left \/ outcome.output # result.output

\* Mutant of Iterations: not even one iteration for a slow probe.
IterationsMaybeNone(time) == Target \div (IF time > 1 THEN time ELSE 1)

\* The number of iterations that fit, for a probe that took that long.
Iterations(time) ==
    LET probe_time == IF time > 1 THEN time ELSE 1
    IN  IF Target \div probe_time > 1 THEN Target \div probe_time ELSE 1

\* Mutant of Probe: the probe runs the code that was passed instead of the one created.
ProbeMain(outcome, time) ==
    /\ phase = "probe"
    /\ Execute(msg, Main, outcome)
    /\ warned' = Differs(outcome)
    /\ iterations' = Iterations(time) /\ phase' = "loop"
    /\ UNCHANGED <<options, task, result, printed, exit>>

Probe(outcome, time) ==
    /\ phase = "probe"
    /\ Execute(msg, exec_code, outcome)
    /\ warned' = Differs(outcome)
    /\ iterations' = Iterations(time) /\ phase' = "loop"
    /\ UNCHANGED <<options, task, result, printed, exit>>

\* Mutant of Loop: the result is that of the last execution.
LoopResult(outcome) ==
    /\ phase = "loop" /\ iterations >= 1
    /\ Execute(msg, exec_code, outcome)
    /\ result' = outcome
    /\ iterations' = iterations - 1
    /\ phase' = IF iterations = 1 THEN "report" ELSE "loop"
    /\ UNCHANGED <<options, task, warned, printed, exit>>

\* Mutant of Loop: the iterations are not counted.
LoopUncounted(outcome) ==
    /\ phase = "loop" /\ iterations >= 1
    /\ Execute(msg, exec_code, outcome)
    /\ phase' = IF iterations = 1 THEN "report" ELSE "loop"
    /\ UNCHANGED <<options, task, result, iterations, warned, printed, exit>>

\* With no iteration to do bench() would divide by zero: it goes no further.
Loop(outcome) ==
    /\ phase = "loop" /\ iterations >= 1
    /\ Execute(msg, exec_code, outcome)
    /\ iterations' = iterations - 1
    /\ phase' = IF iterations = 1 THEN "report" ELSE "loop"
    /\ UNCHANGED <<options, task, result, warned, printed, exit>>

\* The output is printed for the two statuses that have one.
Report ==
    /\ phase = "report"
    /\ printed' = [status |-> result.status, gas_used |-> msg.gas - result.gas_left,
                   output |-> IF result.status \in {"SUCCESS", "REVERT"}
                              THEN {result.output} ELSE {}]
    /\ exit' = "0" /\ phase' = "end"
    /\ UNCHANGED <<options, task, vm, host, result, iterations, warned>>

----------------------------------------------------------------------------
RunInit ==
    /\ create \in BOOLEAN /\ bench \in BOOLEAN
    /\ phase = "create" /\ vm = [k \in {} |-> 0] /\ host = Fresh
    /\ msg = [kind |-> "CALL", recipient |-> Nobody, gas |-> Gas] /\ exec_code = Main
    /\ result = Nothing /\ iterations = 0 /\ warned = FALSE /\ printed = Nothing /\ exit = "none"

Executes(outcome) ==
    \/ CreateContract(outcome) \/ CreateFails(outcome) \/ ExecuteOnce(outcome)
    \/ \E time \in 0 .. Target + 1 : Probe(outcome, time)
    \/ Loop(outcome)

RunNext == (\E outcome \in Outcome : Executes(outcome)) \/ Report

----------------------------------------------------------------------------
\* What should be executed, from the options and the VM: the message, the code, and the host
\* state after the creation.
Creation == vm[<<create_msg, Main, Fresh>>]
Call == [kind |-> "CALL", recipient |-> IF create THEN CreateAddress ELSE Nobody, gas |-> Gas]
First == IF create THEN <<Call, Creation.output, Creation.world>> ELSE <<Call, Main, Fresh>>
Second == <<First[1], First[2], vm[First].world>>

\* What is printed is the outcome of executing the code once on a fresh host (or what its
\* creation left), whether or not it was benchmarked afterwards on the host it had changed.
\* After a creation that failed, and only then, nothing is, and its status is returned.
ReportsFirst ==
    /\ printed # Nothing =>
         /\ create => Creation.status = "SUCCESS"
         /\ printed.status = vm[First].status
         /\ printed.gas_used = Gas - vm[First].gas_left
         /\ printed.output = (IF vm[First].status = "FAILURE" THEN {} ELSE {vm[First].output})
    /\ phase = "end" /\ printed = Nothing =>
         create /\ Creation.status # "SUCCESS" /\ exit = Creation.status

\* A warning is due exactly if executing the same again differs, and then the first execution
\* must have changed the host: it is never an artefact of what the tool passes to the VM.
WarnsTruly ==
    phase \in {"loop", "report", "end"} /\ bench /\ First \in DOMAIN vm =>
      /\ warned => vm[First].world # First[3]
      /\ warned <=> \/ vm[Second].gas_left # vm[First].gas_left
                    \/ vm[Second].output # vm[First].output
=============================================================================

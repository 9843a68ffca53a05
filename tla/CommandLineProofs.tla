------------------------- MODULE CommandLineProofs -------------------------
(***************************************************************************)
(* Proofs about the command line tool: what it returns is true, whatever    *)
(* the arguments, the files, the loader and the VM do.                      *)
(***************************************************************************)
EXTENDS CommandLine, TLAPS

\* run() prints a result if and only if it returns 0; a result is there before it is printed.
RunInv ==
    /\ phase \in {"probe", "loop", "report"} => result \in Outcome
    /\ exit = "0" <=> printed # Nothing
    /\ printed # Nothing => phase = "end"

\* The VM that was asked for is there from the loader to the end of main(), and run() has not
\* begun before the arguments are decoded.
MainInv ==
    /\ args \in Arguments
    /\ stage \in {"parse", "load", "dispatch", "decode", "run", "exited"}
    /\ stage \in {"parse", "load"} => instance = "none"
    /\ stage = "dispatch" => instance = IF args.vm THEN "live" ELSE "none"
    /\ stage \in {"decode", "run"} => args.vm /\ instance = "live"
    /\ stage \notin {"run", "exited"} => printed = Nothing
    /\ stage # "exited" => status = "none"

IInv == RunInv /\ MainInv /\ ExitsTruly

----------------------------------------------------------------------------
\* A step of run() keeps its own part.
LEMMA RunStep ==
    ASSUME RunInv, RunNext
    PROVE  RunInv'
<1> USE DEF RunInv
<1>1. ASSUME NEW outcome \in Outcome, Executes(outcome) PROVE RunInv'
  <2>1. outcome.status \in Status /\ "0" \notin Status
    BY DEF Outcome, Status
  <2>2. CASE CreateContract(outcome)
    BY <2>2 DEF CreateContract
  <2>3. CASE CreateFails(outcome)
    BY <2>1, <2>3 DEF CreateFails
  <2>4. CASE ExecuteOnce(outcome)
    BY <2>4 DEF ExecuteOnce
  <2>5. ASSUME NEW time \in 0 .. Target + 1, Probe(outcome, time) PROVE RunInv'
    BY <2>5 DEF Probe
  <2>6. CASE Loop(outcome)
    BY <2>6 DEF Loop
  <2> QED BY <1>1, <2>2, <2>3, <2>4, <2>5, <2>6 DEF Executes
<1>2. CASE Report
  <2>1. result.status \in Status
    BY <1>2 DEF Report, Outcome
  <2>2. printed'.status = result.status
    BY <1>2 DEF Report
  <2>3. Nothing.status \notin Status
    BY DEF Nothing, Status
  <2>4. printed' # Nothing
    BY <2>1, <2>2, <2>3
  <2> QED BY <1>2, <2>4 DEF Report
<1> QED BY <1>1, <1>2 DEF RunNext

LEMMA Initially == Init => IInv
<1> SUFFICES ASSUME Init PROVE IInv
  OBVIOUS
<1>1. RunInv
  BY DEF Init, RunInit, RunInv
<1>2. MainInv
  BY DEF Init, RunInit, MainInv
<1>3. ExitsTruly
  BY DEF Init, RunInit, ExitsTruly
<1> QED BY <1>1, <1>2, <1>3 DEF IInv

\* A step of main() outside run().
LEMMA MainSteps ==
    ASSUME IInv, UNCHANGED vars,
           Parse \/ NoVM \/ Load \/ LoadFails \/ Version \/ NoCommand \/ Run \/ Decode \/ Finish
    PROVE  IInv'
<1>1. RunInv'
  BY DEF IInv, RunInv, vars
<1> USE DEF IInv, RunInv, MainInv, ExitsTruly, Arguments, vars, Exit, GoOn, Decodes
<1>2. CASE Parse
  BY <1>1, <1>2 DEF Parse, WellFormed
<1>3. CASE NoVM
  BY <1>1, <1>3 DEF NoVM
<1>4. CASE Load
  BY <1>1, <1>4 DEF Load
<1>5. CASE LoadFails
  BY <1>1, <1>5 DEF LoadFails
<1>6. CASE Version
  BY <1>1, <1>6 DEF Version
<1>7. CASE NoCommand
  BY <1>1, <1>7 DEF NoCommand
<1>8. CASE Run
  BY <1>1, <1>8 DEF Run
<1>9. CASE Decode
  BY <1>1, <1>9 DEF Decode
<1>10. CASE Finish
  BY <1>1, <1>10 DEF Finish
<1> QED BY <1>2, <1>3, <1>4, <1>5, <1>6, <1>7, <1>8, <1>9, <1>10

LEMMA StepHolds == IInv /\ [Next]_allVars => IInv'
<1> SUFFICES ASSUME IInv, [Next]_allVars PROVE IInv'
  OBVIOUS
<1>1. CASE Parse \/ NoVM \/ Load \/ LoadFails \/ Version \/ NoCommand \/ Run \/ Decode \/ Finish
  <2>1. UNCHANGED vars
    BY <1>1 DEF Parse, NoVM, Load, LoadFails, Version, NoCommand, Run, Decode, Finish
  <2> QED BY <1>1, <2>1, MainSteps
<1>2. CASE Running
  <2>1. RunInv'
    BY <1>2, RunStep DEF IInv, Running
  <2>2. MainInv'
    BY <1>2 DEF IInv, MainInv, Running, mainVars
  <2>3. ExitsTruly'
    BY <1>2 DEF IInv, MainInv, ExitsTruly, Running, mainVars, Decodes
  <2> QED BY <2>1, <2>2, <2>3 DEF IInv
<1>3. CASE FileChanges
  BY <1>3 DEF IInv, RunInv, MainInv, ExitsTruly, FileChanges, vars
<1>4. CASE UNCHANGED allVars
  BY <1>4 DEF IInv, RunInv, MainInv, ExitsTruly, Decodes, allVars, mainVars, vars
<1> QED BY <1>1, <1>2, <1>3, <1>4 DEF Next, MainStep

----------------------------------------------------------------------------
\* main() returns zero only for help or after it did what it was asked for, with the VM it was
\* asked to use; code runs only from decoded text and on a loaded VM, and the VM is destroyed.
THEOREM AlwaysExitsTruly == Spec => []ExitsTruly
<1>1. IInv => ExitsTruly
  BY DEF IInv
<1> QED BY Initially, StepHolds, <1>1, PTL DEF Spec

----------------------------------------------------------------------------
CreateKey == <<create_msg, Main, Fresh>>
Created == create => CreateKey \in DOMAIN vm /\ Creation.status = "SUCCESS"

\* What run() is about to execute, and what it has, is what the options ask for.
FirstInv ==
    /\ phase = "create" =>
         host = Fresh /\ exec_code = Main /\ msg = [Call EXCEPT !.recipient = Nobody]
    /\ phase = "execute" =>
         create /\ Created /\ msg = Call /\ exec_code = Creation.output /\ host = Creation.world
    /\ phase \in {"probe", "loop", "report"} =>
         Created /\ msg = Call /\ First \in DOMAIN vm /\ result = vm[First]
    /\ ReportsFirst

\* The VM is a function: what it did once it does again.
LEMMA Remembers ==
    ASSUME NEW m, NEW c, NEW outcome, Execute(m, c, outcome)
    PROVE  /\ \A k \in DOMAIN vm : k \in DOMAIN vm' /\ vm'[k] = vm[k]
           /\ <<m, c, host>> \in DOMAIN vm' /\ vm'[<<m, c, host>>] = outcome
           /\ host' = outcome.world
BY DEF Execute

\* So once the creation is done, what is to be executed first stays the same.
LEMMA FirstStays ==
    ASSUME Created, UNCHANGED create,
           \A k \in DOMAIN vm : k \in DOMAIN vm' /\ vm'[k] = vm[k]
    PROVE  /\ Created' /\ First' = First /\ Call' = Call
           /\ First \in DOMAIN vm => First \in DOMAIN vm' /\ vm'[First] = vm[First]
<1>1. create => CreateKey \in DOMAIN vm' /\ Creation' = Creation
  BY DEF Created, CreateKey, Creation
<1>2. Created' /\ Call' = Call
  BY <1>1 DEF Created, Call, CreateKey
<1>3. First' = First
  BY <1>1, <1>2 DEF First
<1> QED BY <1>2, <1>3

LEMMA FirstStep ==
    ASSUME RunInv, FirstInv, RunNext
    PROVE  FirstInv'
<1>1. ASSUME NEW outcome \in Outcome, CreateContract(outcome) PROVE FirstInv'
  <2>1. /\ phase = "create" /\ create /\ create' = create /\ outcome.status = "SUCCESS"
        /\ phase' = "execute" /\ exec_code' = outcome.output /\ UNCHANGED printed
        /\ msg' = [msg EXCEPT !.recipient = CreateAddress]
    BY <1>1 DEF CreateContract, options
  <2>2. CreateKey \in DOMAIN vm' /\ Creation' = outcome /\ host' = outcome.world
    BY <1>1, <2>1, Remembers DEF CreateContract, FirstInv, CreateKey, Creation
  <2>3. msg' = Call'
    BY <2>1 DEF FirstInv, Call
  <2>4. printed' = Nothing
    BY <2>1 DEF RunInv
  <2> QED BY <2>1, <2>2, <2>3, <2>4 DEF FirstInv, Created, CreateKey, ReportsFirst
<1>2. ASSUME NEW outcome \in Outcome, CreateFails(outcome) PROVE FirstInv'
  <2>1. /\ phase = "create" /\ create /\ create' = create /\ outcome.status # "SUCCESS"
        /\ phase' = "end" /\ printed' = Nothing /\ exit' = outcome.status
    BY <1>2 DEF CreateFails, RunInv, options
  <2>2. Creation' = outcome
    BY <1>2, <2>1, Remembers DEF CreateFails, FirstInv, CreateKey, Creation
  <2> QED BY <2>1, <2>2 DEF FirstInv, ReportsFirst
<1>3. ASSUME NEW outcome \in Outcome, ExecuteOnce(outcome) PROVE FirstInv'
  <2>1. /\ phase = (IF create THEN "execute" ELSE "create") /\ phase' \in {"probe", "report"}
        /\ UNCHANGED <<create, msg, exec_code, printed>> /\ result' = outcome
    BY <1>3 DEF ExecuteOnce, options, task
  <2>2. Created /\ msg = Call /\ <<msg, exec_code, host>> = First
    BY <2>1 DEF FirstInv, Created, Call, First
  <2>3. /\ \A k \in DOMAIN vm : k \in DOMAIN vm' /\ vm'[k] = vm[k]
        /\ First \in DOMAIN vm' /\ vm'[First] = outcome
    BY <1>3, <2>2, Remembers DEF ExecuteOnce
  <2>4. Created' /\ First' = First /\ Call' = Call
    BY <2>1, <2>2, <2>3, FirstStays
  <2>5. printed' = Nothing
    BY <2>1 DEF RunInv
  <2> QED BY <2>1, <2>2, <2>3, <2>4, <2>5 DEF FirstInv, ReportsFirst
<1>4. ASSUME phase \in {"probe", "loop"}, phase' \in {"loop", "report"},
             UNCHANGED <<create, msg, result, printed>>,
             NEW outcome, Execute(msg, exec_code, outcome)
      PROVE  FirstInv'
  <2>1. Created /\ msg = Call /\ First \in DOMAIN vm /\ result = vm[First]
    BY <1>4 DEF FirstInv
  <2>2. /\ Created' /\ First' = First /\ Call' = Call
        /\ First \in DOMAIN vm' /\ vm'[First] = vm[First]
    BY <1>4, <2>1, Remembers, FirstStays
  <2>3. printed' = Nothing
    BY <1>4 DEF RunInv
  <2> QED BY <1>4, <2>1, <2>2, <2>3 DEF FirstInv, ReportsFirst
<1>5. ASSUME NEW outcome, NEW time, Probe(outcome, time) PROVE FirstInv'
  BY <1>4, <1>5 DEF Probe, options, task
<1>6. ASSUME NEW outcome, Loop(outcome) PROVE FirstInv'
  BY <1>4, <1>6 DEF Loop, options, task
<1>7. CASE Report
  <2>1. /\ phase = "report" /\ phase' = "end" /\ UNCHANGED <<create, vm, result, msg>>
        /\ printed' = [status |-> result.status, gas_used |-> msg.gas - result.gas_left,
                       output |-> IF result.status \in {"SUCCESS", "REVERT"}
                                  THEN {result.output} ELSE {}]
    BY <1>7 DEF Report, options, task
  <2>2. Created /\ msg = Call /\ First \in DOMAIN vm /\ result = vm[First]
    BY <2>1 DEF FirstInv
  <2>3. Created' /\ First' = First /\ vm' = vm
    BY <2>1, <2>2, FirstStays
  <2>4. result.status \in Status /\ msg.gas = Gas
    BY <2>1, <2>2 DEF RunInv, Outcome, Call
  <2>5. printed' # Nothing
    BY <2>1, <2>4 DEF Nothing, Status
  <2> QED BY <2>1, <2>2, <2>3, <2>4, <2>5 DEF FirstInv, ReportsFirst, Created, Status
<1> QED BY <1>1, <1>2, <1>3, <1>5, <1>6, <1>7 DEF RunNext, Executes

\* What the tool prints is the outcome of the first execution, on a fresh host or on what a
\* creation that succeeded left there, for any VM, also after a benchmark; and run() returns the
\* status of a creation that failed (tooling::run).
THEOREM AlwaysReportsFirst == Spec => []ReportsFirst
<1>1. Init => FirstInv
  BY DEF Init, RunInit, FirstInv, Call, ReportsFirst
<1>2. IInv /\ FirstInv /\ [Next]_allVars => FirstInv'
  <2> SUFFICES ASSUME IInv, FirstInv, [Next]_allVars PROVE FirstInv'
    OBVIOUS
  <2>1. CASE Running
    BY <2>1, FirstStep DEF Running, IInv
  <2>2. CASE ~Running
    <3>1. UNCHANGED vars
      BY <2>2 DEF Next, MainStep, Parse, NoVM, Load, LoadFails, Version, NoCommand, Run, Decode,
                  Finish, FileChanges, allVars
    <3> QED BY <3>1 DEF FirstInv, ReportsFirst, Created, CreateKey, Creation, First, Call, vars
  <2> QED BY <2>1, <2>2
<1>3. FirstInv => ReportsFirst
  BY DEF FirstInv
<1> QED BY <1>1, <1>2, <1>3, Initially, StepHolds, PTL DEF Spec

----------------------------------------------------------------------------
\* The second execution was asked for, and there is a warning if and only if it differs.
Warned ==
    /\ First \in DOMAIN vm /\ Second \in DOMAIN vm
    /\ warned <=> \/ vm[Second].gas_left # vm[First].gas_left
                  \/ vm[Second].output # vm[First].output

\* The probe runs what ran first, on the host that it left.
WarnInv ==
    /\ phase = "create" => DOMAIN vm = {}
    /\ phase = "probe" => exec_code = First[2] /\ host = vm[First].world
    /\ bench =>
         /\ phase \in {"loop", "report"} => Warned
         /\ phase = "end" => Warned \/ First \notin DOMAIN vm

LEMMA FirstIs ==
    /\ First = <<First[1], First[2], First[3]>> /\ First[1] = Call
    /\ create_msg # Call
BY DEF First, Call, create_msg

\* A warning that was due stays due: the VM's answers do.
LEMMA WarnedStays ==
    ASSUME Created, Warned, UNCHANGED <<create, warned>>,
           \A k \in DOMAIN vm : k \in DOMAIN vm' /\ vm'[k] = vm[k]
    PROVE  Warned'
<1>1. First' = First /\ First \in DOMAIN vm' /\ vm'[First] = vm[First]
  BY FirstStays DEF Warned
<1>2. Second' = Second
  BY <1>1 DEF Second
<1>3. Second \in DOMAIN vm' /\ vm'[Second] = vm[Second]
  BY DEF Warned
<1> QED BY <1>1, <1>2, <1>3 DEF Warned

LEMMA WarnStep ==
    ASSUME RunInv, FirstInv, WarnInv, RunNext
    PROVE  WarnInv'
<1>1. ASSUME NEW outcome \in Outcome, CreateContract(outcome) PROVE WarnInv'
  BY <1>1 DEF CreateContract, WarnInv
<1>2. ASSUME NEW outcome \in Outcome, CreateFails(outcome) PROVE WarnInv'
  <2>1. phase = "create" /\ create /\ create' = create /\ phase' = "end"
        /\ Execute(create_msg, Main, outcome)
    BY <1>2 DEF CreateFails, options
  <2>2. DOMAIN vm' = {<<create_msg, Main, host>>}
    BY <2>1 DEF Execute, WarnInv
  <2>3. First'[1] = Call' /\ Call'.kind = "CALL" /\ create_msg.kind = "CREATE"
    BY DEF First, Call, create_msg
  <2>4. First' \notin DOMAIN vm'
    BY <2>2, <2>3
  <2> QED BY <2>1, <2>4 DEF WarnInv
<1>3. ASSUME NEW outcome \in Outcome, ExecuteOnce(outcome) PROVE WarnInv'
  <2>1. /\ phase = (IF create THEN "execute" ELSE "create")
        /\ phase' = IF bench THEN "probe" ELSE "report"
        /\ UNCHANGED <<create, bench, exec_code>>
    BY <1>3 DEF ExecuteOnce, options, task
  <2>2. Created /\ <<msg, exec_code, host>> = First
    BY <2>1 DEF FirstInv, Created, Call, First
  <2>3. /\ \A k \in DOMAIN vm : k \in DOMAIN vm' /\ vm'[k] = vm[k]
        /\ vm'[First] = outcome /\ host' = outcome.world
    BY <1>3, <2>2, Remembers DEF ExecuteOnce
  <2>4. First' = First
    BY <2>1, <2>2, <2>3, FirstStays
  <2>5. First[2] = exec_code
    BY <2>2
  <2> QED BY <2>1, <2>3, <2>4, <2>5 DEF WarnInv
<1>4. ASSUME NEW outcome \in Outcome, NEW time, Probe(outcome, time) PROVE WarnInv'
  <2>1. /\ phase = "probe" /\ phase' = "loop" /\ UNCHANGED create
        /\ Execute(msg, exec_code, outcome) /\ warned' = Differs(outcome)
    BY <1>4 DEF Probe, options
  <2>2. /\ Created /\ msg = Call /\ First \in DOMAIN vm /\ result = vm[First]
        /\ exec_code = First[2] /\ host = vm[First].world
    BY <2>1 DEF FirstInv, WarnInv
  <2>3. <<msg, exec_code, host>> = Second
    BY <2>2, FirstIs DEF Second
  <2>4. /\ \A k \in DOMAIN vm : k \in DOMAIN vm' /\ vm'[k] = vm[k]
        /\ Second \in DOMAIN vm' /\ vm'[Second] = outcome
    BY <2>1, <2>3, Remembers
  <2>5. First' = First /\ First \in DOMAIN vm' /\ vm'[First] = vm[First]
    BY <2>1, <2>2, <2>4, FirstStays
  <2>6. Second' = Second
    BY <2>5 DEF Second
  <2> QED BY <2>1, <2>2, <2>4, <2>5, <2>6 DEF WarnInv, Warned, Differs
<1>5. ASSUME NEW outcome \in Outcome, Loop(outcome) PROVE WarnInv'
  <2>1. /\ phase = "loop" /\ phase' \in {"loop", "report"} /\ UNCHANGED <<create, bench, warned>>
        /\ Execute(msg, exec_code, outcome)
    BY <1>5 DEF Loop, options
  <2>2. \A k \in DOMAIN vm : k \in DOMAIN vm' /\ vm'[k] = vm[k]
    BY <2>1, Remembers
  <2>3. bench => Warned'
    BY <2>1, <2>2, WarnedStays DEF FirstInv, WarnInv
  <2> QED BY <2>1, <2>3 DEF WarnInv
<1>6. CASE Report
  <2>1. phase = "report" /\ phase' = "end" /\ UNCHANGED <<create, bench, warned, vm>>
    BY <1>6 DEF Report, options
  <2>2. bench => Warned'
    BY <2>1, WarnedStays DEF FirstInv, WarnInv
  <2> QED BY <2>1, <2>2 DEF WarnInv
<1> QED BY <1>1, <1>2, <1>3, <1>4, <1>5, <1>6 DEF RunNext, Executes

\* The benchmark warns exactly if executing the same again differs, and then only because the
\* first execution has changed the host: what the tool passes to the VM is the same.
THEOREM AlwaysWarnsTruly == Spec => []WarnsTruly
<1>1. Init => FirstInv /\ WarnInv
  BY DEF Init, RunInit, FirstInv, Call, ReportsFirst, WarnInv
<1>2. IInv /\ FirstInv /\ WarnInv /\ [Next]_allVars => FirstInv' /\ WarnInv'
  <2> SUFFICES ASSUME IInv, FirstInv, WarnInv, [Next]_allVars PROVE FirstInv' /\ WarnInv'
    OBVIOUS
  <2>1. CASE Running
    BY <2>1, FirstStep, WarnStep DEF Running, IInv
  <2>2. CASE ~Running
    <3>1. UNCHANGED vars
      BY <2>2 DEF Next, MainStep, Parse, NoVM, Load, LoadFails, Version, NoCommand, Run, Decode,
                  Finish, FileChanges, allVars
    <3>2. UNCHANGED <<First, Second>>
      BY <3>1 DEF First, Second, Creation, Call, vars
    <3>3. FirstInv'
      BY <3>1 DEF FirstInv, ReportsFirst, Created, CreateKey, Creation, First, Call, vars
    <3>4. WarnInv'
      BY <3>1, <3>2 DEF WarnInv, Warned, vars
    <3> QED BY <3>3, <3>4
  <2> QED BY <2>1, <2>2
<1>3. WarnInv => WarnsTruly
  <2> SUFFICES ASSUME WarnInv, phase \in {"loop", "report", "end"}, bench, First \in DOMAIN vm
               PROVE  /\ warned => vm[First].world # First[3]
                      /\ warned <=> \/ vm[Second].gas_left # vm[First].gas_left
                                    \/ vm[Second].output # vm[First].output
    BY DEF WarnsTruly
  <2>1. Warned
    BY DEF WarnInv
  <2>2. vm[First].world = First[3] => Second = First
    BY FirstIs DEF Second
  <2> QED BY <2>1, <2>2 DEF Warned
<1> QED BY <1>1, <1>2, <1>3, Initially, StepHolds, PTL DEF Spec
=============================================================================

---------------------------- MODULE CommandLine ----------------------------
(***************************************************************************)
(* tools/qrvmc/main.cpp: the command line of the tool around ToolRun.       *)
(* A hex argument may be @ and the name of a file, which the parser only    *)
(* finds to exist: it is opened, and its text decoded, when the VM has been *)
(* loaded, and may have changed by then.                                    *)
(***************************************************************************)
EXTENDS ToolRun

CONSTANTS
    HexArguments,  \* what a hex argument is: "hex", "not hex", "file"
    Contents       \* what a file is: "hex", "not hex", "missing"

Arguments ==
    [usage : {"fine", "wrong", "help"},  \* the remaining options and --help
     version : BOOLEAN, vm : BOOLEAN, run : BOOLEAN,
     code : HexArguments, input : HexArguments]

VARIABLES
    args,     \* the command line, with QRVMC_VM from the environment
    files,    \* the contents of the files that code and input name
    stage,    \* where main() is
    instance, \* the VM
    status    \* what main() returns

mainVars == <<args, files, stage, instance, status>>
allVars == <<vars, mainVars>>

----------------------------------------------------------------------------
\* main() returns or throws: the VM goes out of scope.
Exit(code) ==
    /\ stage' = "exited" /\ status' = code
    /\ instance' = IF instance = "live" THEN "destroyed" ELSE instance

GoOn(next) == stage' = next /\ UNCHANGED <<instance, status>>

\* HexOrFileValidator.
Accepted(argument) ==
    \/ args[argument] = "hex"
    \/ args[argument] = "file" /\ files[argument] # "missing"

WellFormed ==
    /\ args.usage = "fine"
    /\ args.run => Accepted("code") /\ Accepted("input")

Parse ==
    /\ stage = "parse"
    /\ IF WellFormed THEN GoOn("load")
       ELSE Exit(IF args.usage = "help" THEN "0" ELSE "parse error")
    /\ UNCHANGED <<vars, args, files>>

NoVM ==
    /\ stage = "load" /\ ~args.vm
    /\ GoOn("dispatch")
    /\ UNCHANGED <<vars, args, files>>

Load ==
    /\ stage = "load" /\ args.vm
    /\ instance' = "live" /\ stage' = "dispatch"
    /\ UNCHANGED <<vars, args, files, status>>

\* Mutant of LoadFails: main() goes on after printing the error.
LoadFailsOn ==
    /\ stage = "load" /\ args.vm
    /\ GoOn("dispatch")
    /\ UNCHANGED <<vars, args, files>>

LoadFails ==
    /\ stage = "load" /\ args.vm
    /\ Exit("loader error")
    /\ UNCHANGED <<vars, args, files>>

Version ==
    /\ stage = "dispatch" /\ args.version
    /\ Exit("0")
    /\ UNCHANGED <<vars, args, files>>

NoCommand ==
    /\ stage = "dispatch" /\ ~args.version /\ ~args.run
    /\ Exit("0")
    /\ UNCHANGED <<vars, args, files>>

\* For run command the --vm is required.
Run ==
    /\ stage = "dispatch" /\ ~args.version /\ args.run
    /\ IF args.vm THEN GoOn("decode") ELSE Exit("parse error")
    /\ UNCHANGED <<vars, args, files>>

\* load_from_hex() finds bytes: in the argument, or in the file as it is by now.
Decodes(argument) ==
    \/ args[argument] = "hex"
    \/ args[argument] = "file" /\ files[argument] = "hex"

\* Mutant of Decode: the file is taken to be what the parser accepted.
DecodeAccepted ==
    /\ stage = "decode"
    /\ IF Accepted("code") /\ Accepted("input") THEN GoOn("run") ELSE Exit("-1")
    /\ UNCHANGED <<vars, args, files>>

\* The code, then the input; an exception for either ends main().
Decode ==
    /\ stage = "decode"
    /\ IF Decodes("code") /\ Decodes("input") THEN GoOn("run") ELSE Exit("-1")
    /\ UNCHANGED <<vars, args, files>>

Running ==
    /\ stage = "run" /\ RunNext
    /\ UNCHANGED mainVars

\* What run() returns is what main() returns.
Finish ==
    /\ stage = "run" /\ phase = "end"
    /\ Exit(exit)
    /\ UNCHANGED <<vars, args, files>>

MainStep ==
    \/ Parse \/ NoVM \/ Load \/ LoadFails \/ Version \/ NoCommand
    \/ Run \/ Decode \/ Running \/ Finish

\* Somebody writes or removes a file that is still to be read.
FileChanges ==
    /\ stage \in {"parse", "load", "dispatch", "decode"}
    /\ \E argument \in {"code", "input"}, content \in Contents :
         args[argument] = "file" /\ files' = [files EXCEPT ![argument] = content]
    /\ UNCHANGED <<vars, args, stage, instance, status>>

Init ==
    /\ RunInit
    /\ args \in Arguments /\ files \in [{"code", "input"} -> Contents]
    /\ stage = "parse" /\ instance = "none" /\ status = "none"

Next == MainStep \/ FileChanges

\* main() is sequential, and an execution of the VM ends.
Spec == Init /\ [][Next]_allVars /\ WF_allVars(MainStep)

----------------------------------------------------------------------------
\* Zero is returned only for help, or if the VM that was asked for was loaded and what was asked
\* of it is done; and always once a result was printed.  Whatever happens to the files, no code is
\* executed but by a loaded VM and from text that was decoded; and no VM is left behind.
ExitsTruly ==
    /\ status = "0" =>
         \/ args.usage = "help"
         \/ /\ args.vm => instance = "destroyed"
            /\ args.version \/ ~args.run \/ printed # Nothing
    /\ printed # Nothing /\ stage = "exited" => status = "0"
    /\ stage = "run" => instance = "live" /\ Decodes("code") /\ Decodes("input")
    /\ stage = "exited" => instance # "live"

\* The tool ends, also the benchmark of code that takes no measurable time or more than there is.
Exits == <>(stage = "exited")
=============================================================================

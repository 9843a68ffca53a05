-------------------------- MODULE ExampleProgram ---------------------------
(***************************************************************************)
(* examples/example.c: a program that takes a VM, from the loader or linked *)
(* in, executes one message on the example host, prints what came of it and *)
(* gives everything back.  The VM is any: what it asks of the host, and the *)
(* status it returns, are arbitrary.  A VM may return negative codes that   *)
(* no header defines (qrvmc.h:253-255), so no bound is put on a status, and *)
(* one that fails with -256, say, makes the process end with status zero.   *)
(***************************************************************************)
EXTENDS ExampleHost

CONSTANTS
    LoaderErrors,   \* qrvmc_loader_error_code, but for QRVMC_LOADER_SUCCESS: small numbers
    StatusCodes,    \* qrvmc_status_code: those of the header, and any others of the VM
    Recipient       \* the address of the message

ASSUME ExampleProgramAssumption ==
    /\ LoaderErrors \subseteq (-255 .. 255) \ {0} /\ StatusCodes \subseteq Int
    /\ Recipient \in Address /\ ZeroBytes \in Key

SUCCESS == 0
OUT_OF_MEMORY == -3
VM_CREATION_FAILURE == 4
ABI_VERSION_MISMATCH == 5

VARIABLES
    linked,     \* whether STATICALLY_LINKED_EXAMPLE is defined
    phase,      \* where main() is
    result,     \* the status of the result: <<status>>, or <<>> if there is none
    exit,       \* exit_code, what main() returns
    printed,    \* the storage value that is printed
    made, gone, \* history: the VMs, contexts and results made, and those given back
    written     \* history: what the VM last wrote to the slot that is printed

vars == <<hostVars, linked, phase, result, exit, printed, made, gone, written>>
lifetimes == <<made, gone>>
output == <<exit, printed>>

Objects == {"vm", "context", "result"}

Make(object) == made' = [made EXCEPT ![object] = @ + 1] /\ UNCHANGED gone
GiveBack(object) == gone' = [gone EXCEPT ![object] = @ + 1] /\ UNCHANGED made

Return(code) == exit' = code /\ phase' = "exited"

----------------------------------------------------------------------------
\* The linked VM: NULL, or one of another ABI version, which is destroyed.
CreateFails ==
    /\ phase = "start" /\ linked
    /\ Return(VM_CREATION_FAILURE)
    /\ UNCHANGED <<hostVars, linked, result, printed, lifetimes, written>>

CreateMismatched ==
    /\ phase = "start" /\ linked
    /\ made' = [made EXCEPT !["vm"] = @ + 1] /\ gone' = [gone EXCEPT !["vm"] = @ + 1]
    /\ Return(ABI_VERSION_MISMATCH)
    /\ UNCHANGED <<hostVars, linked, result, printed, written>>

\* qrvmc_load_and_configure() returns NULL and an error.
LoadFails(error) ==
    /\ phase = "start" /\ ~linked
    /\ Return(error)
    /\ UNCHANGED <<hostVars, linked, result, printed, lifetimes, written>>

\* A VM, by either way.
GetVM ==
    /\ phase = "start"
    /\ Make("vm")
    /\ phase' = "context"
    /\ UNCHANGED <<hostVars, linked, result, output, written>>

\* example_host_create_context() has memory or not.
CreateContext ==
    /\ phase = "context"
    /\ Make("context")
    /\ phase' = "execute"
    /\ UNCHANGED <<hostVars, linked, result, output, written>>

\* Mutant of ContextFails: the program returns at once.
ContextFailsKeepsVM ==
    /\ phase = "context"
    /\ Return(OUT_OF_MEMORY)
    /\ UNCHANGED <<hostVars, linked, result, printed, lifetimes, written>>

ContextFails ==
    /\ phase = "context"
    /\ GiveBack("vm")
    /\ Return(OUT_OF_MEMORY)
    /\ UNCHANGED <<hostVars, linked, result, printed, written>>

----------------------------------------------------------------------------
IsPrinted(slot) == slot = <<Recipient, ZeroBytes>>

\* During qrvmc_execute() the VM calls the host; one call is left for the program itself.
Request ==
    /\ phase = "execute" /\ requests + 1 < MaxRequests
    /\ HostNext
    /\ written' = IF reply'.method = "set_storage" /\ IsPrinted(reply'.slot)
                  THEN reply'.word ELSE written
    /\ UNCHANGED <<linked, phase, result, output, lifetimes>>

\* Then it returns.
Execute(status) ==
    /\ phase = "execute"
    /\ result' = <<status>> /\ Make("result")
    /\ phase' = "report"
    /\ UNCHANGED <<hostVars, linked, output, written>>

ReportFailure ==
    /\ phase = "report" /\ result # <<SUCCESS>>
    /\ exit' = result[1] /\ phase' = "release"
    /\ UNCHANGED <<hostVars, linked, result, printed, lifetimes, written>>

\* Mutant of ReportSuccess: the value is read from the last slot that was asked for.
ReportLast ==
    /\ phase = "report" /\ result = <<SUCCESS>>
    /\ GetStorage(Recipient, ZeroBytes)
    /\ printed' = <<reply.word>>
    /\ exit' = 0 /\ phase' = "release"
    /\ UNCHANGED <<linked, result, lifetimes, written>>

ReportSuccess ==
    /\ phase = "report" /\ result = <<SUCCESS>>
    /\ GetStorage(Recipient, ZeroBytes)
    /\ printed' = <<reply'.word>>
    /\ exit' = 0 /\ phase' = "release"
    /\ UNCHANGED <<linked, result, lifetimes, written>>

\* The result, the context and the VM, in this order.
Release ==
    /\ phase = "release"
    /\ GiveBack("result") /\ phase' = "destroy_context"
    /\ UNCHANGED <<hostVars, linked, result, output, written>>

DestroyContext ==
    /\ phase = "destroy_context"
    /\ GiveBack("context") /\ phase' = "destroy"
    /\ UNCHANGED <<hostVars, linked, result, output, written>>

Destroy ==
    /\ phase = "destroy"
    /\ GiveBack("vm") /\ phase' = "exited"
    /\ UNCHANGED <<hostVars, linked, result, output, written>>

----------------------------------------------------------------------------
Init ==
    /\ HostInit
    /\ linked \in BOOLEAN /\ phase = "start" /\ result = <<>>
    /\ exit = 0 /\ printed = <<>>
    /\ made = [object \in Objects |-> 0] /\ gone = made
    /\ written = ZeroBytes

Next ==
    \/ CreateFails \/ CreateMismatched \/ GetVM
    \/ \E error \in LoaderErrors : LoadFails(error)
    \/ CreateContext \/ ContextFails
    \/ Request \/ \E status \in StatusCodes : Execute(status)
    \/ ReportFailure \/ ReportSuccess
    \/ Release \/ DestroyContext \/ Destroy

Spec == Init /\ [][Next]_vars

----------------------------------------------------------------------------
Live(object) == made[object] > gone[object]

\* However the program ends it has given back, once, all that it made; the context and the VM
\* are there for as long as the VM executes and its result is not released.
CleansUp ==
    /\ \A object \in Objects : gone[object] <= made[object]
    /\ phase = "execute" \/ Live("result") => Live("vm") /\ Live("context")
    /\ phase = "exited" => made = gone

\* main() returns zero exactly for an execution that succeeded, and then the value that is
\* printed is what the VM last wrote to that slot, whatever it wrote to others; zero if nothing.
\* Who started the process sees the last byte of it: zero too for a VM that fails with a
\* multiple of 256, but for no other failure of the VM or of the program.
ReportsTruly ==
    phase = "exited" =>
      /\ exit = 0 <=> result = <<SUCCESS>>
      /\ exit % 256 = 0 <=> \E status \in StatusCodes : result = <<status>> /\ status % 256 = 0
      /\ result = <<SUCCESS>> <=> printed = <<written>>
      /\ result # <<SUCCESS>> <=> printed = <<>>
=============================================================================

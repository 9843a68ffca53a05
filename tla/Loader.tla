------------------------------- MODULE Loader -------------------------------
(***************************************************************************)
(* lib/loader/loader.c: threads that load VM libraries, create VMs and      *)
(* configure them, on top of a dynamic loader that counts how often each    *)
(* library has been opened.  Each call into the dynamic loader or into a    *)
(* VM is a step of its own, between which the other threads run.            *)
(*                                                                          *)
(* qrvmc_load() stops after the create function is found,                   *)
(* qrvmc_load_and_create() after the VM is found compatible, and            *)
(* qrvmc_load_and_configure() after its options are set.                    *)
(***************************************************************************)
EXTENDS Integers, FiniteSets

CONSTANTS
    Threads,
    Names,         \* the file names a user may pass, beyond the invalid ones
    Libraries,     \* those that the dynamic loader can open
    WithFunction,  \* the libraries with a create function,
    Compatible,    \* with VMs of this ABI version,
    Configurable,  \* with VMs that have a set_option()
    MaxOptions,    \* bound: options in a configuration
    MaxCalls       \* bound: loader calls in a behaviour

ASSUME LoaderAssumption ==
    /\ Names # {} /\ Libraries \subseteq Names
    /\ WithFunction \subseteq Libraries /\ Compatible \subseteq Libraries
    /\ Configurable \subseteq Libraries
    /\ MaxOptions \in Nat /\ MaxCalls \in Nat
    /\ IsFiniteSet(Threads)

Function == {"load", "create", "configure"}
Code == {"SUCCESS", "CANNOT_OPEN", "SYMBOL_NOT_FOUND", "INVALID_ARGUMENT", "VM_CREATION_FAILURE",
         "ABI_VERSION_MISMATCH", "INVALID_OPTION_NAME", "INVALID_OPTION_VALUE",
         "UNSPECIFIED_ERROR"}

VARIABLES
    pc,        \* thread -> where it is
    fn,        \* thread -> the function it called last
    name,      \* thread -> the file name
    options,   \* thread -> the options still to be set
    number,    \* thread -> the number of its last call
    code,      \* thread -> the error code variable its user passed
    result,    \* thread -> what its last call returned: "null", "function" or "vm"
    message,   \* thread -> the call that last_error_msg is about, 0 for NULL
    opened,    \* library -> how often the dynamic loader has opened and not closed it
    alive,     \* the VMs that exist: the call that created each and its library
    owned,     \* the VMs that users own
    granted,   \* history: library -> create functions and VMs returned to users
    calls      \* loader calls made

vars == <<pc, fn, name, options, number, code, result, message, opened, alive, owned, granted, calls>>
called == <<fn, name, number, calls>>

Location == {"idle", "open", "symbol", "unknown", "create", "check", "configure", "destroy", "close"}

\* Where a thread's last_error_msg is.  Mutant: without thread-local storage.
SharedSlot(t) == CHOOSE u \in Threads : TRUE
ErrorSlot(t) == t

VM(t) == [call |-> number[t], library |-> name[t]]

----------------------------------------------------------------------------
Goto(t, location) == pc' = [pc EXCEPT ![t] = location]
Report(t, ec) == code' = [code EXCEPT ![t] = ec]

\* set_error: the message is kept only if it fits the buffer.
SetError(t, ec) ==
    /\ Report(t, ec)
    /\ \E fits \in BOOLEAN :
         message' = IF fits THEN [message EXCEPT ![ErrorSlot(t)] = number[t]] ELSE message

Return(t, r) == Goto(t, "idle") /\ result' = [result EXCEPT ![t] = r]

OpenCount(library, change) == opened' = [opened EXCEPT ![library] = @ + change]
Grant(t) == granted' = [granted EXCEPT ![name[t]] = @ + 1]

----------------------------------------------------------------------------
\* A user calls a loader function.
Call(t, f) ==
    /\ pc[t] = "idle" /\ calls < MaxCalls
    /\ calls' = calls + 1
    /\ fn' = [fn EXCEPT ![t] = f]
    /\ number' = [number EXCEPT ![t] = calls + 1]

\* ... with a name that load_internal refuses, or a configuration that is null or too long:
\* the messages of these errors always fit.
InvalidArgument(t) ==
    \E f \in Function :
      /\ Call(t, f)
      /\ Report(t, "INVALID_ARGUMENT")
      /\ message' = [message EXCEPT ![ErrorSlot(t)] = calls + 1]
      /\ result' = [result EXCEPT ![t] = "null"]
      /\ UNCHANGED <<pc, name, options, opened, alive, owned, granted>>

\* ... with a name that is tried: load_internal first resets the last error.
Begin(t) ==
    \E f \in Function, file \in Names, n \in 0 .. MaxOptions :
      /\ f # "configure" => n = 0
      /\ Call(t, f)
      /\ name' = [name EXCEPT ![t] = file]
      /\ options' = [options EXCEPT ![t] = n]
      /\ message' = [message EXCEPT ![ErrorSlot(t)] = 0]
      /\ Report(t, "UNSPECIFIED_ERROR")
      /\ Goto(t, "open")
      /\ UNCHANGED <<result, opened, alive, owned, granted>>

\* DLL_OPEN, which may fail for a library too.  The error message is the dynamic loader's,
\* if it has one.
Open(t) ==
    /\ pc[t] = "open" /\ name[t] \in Libraries
    /\ OpenCount(name[t], 1)
    /\ Goto(t, "symbol")
    /\ UNCHANGED <<called, options, code, result, message, alive, owned, granted>>

CannotOpen(t) ==
    /\ pc[t] = "open"
    /\ \/ SetError(t, "CANNOT_OPEN")
       \/ /\ Report(t, "CANNOT_OPEN")
          /\ message' = [message EXCEPT ![ErrorSlot(t)] = number[t]]
    /\ Return(t, "null")
    /\ UNCHANGED <<called, options, opened, alive, owned, granted>>

\* Mutant of FindFunction: the search for the name derived from the file reports an error
\* although the search for "qrvmc_create" succeeds.
FindFunctionLoudly(t) ==
    /\ pc[t] = "symbol" /\ name[t] \in WithFunction
    /\ Report(t, "SUCCESS")
    /\ message' = [message EXCEPT ![ErrorSlot(t)] = number[t]]
    /\ IF fn[t] = "load" THEN Return(t, "function") /\ Grant(t)
                         ELSE Goto(t, "create") /\ UNCHANGED <<result, granted>>
    /\ UNCHANGED <<called, options, opened, alive, owned>>

\* DLL_GET_CREATE_FN, under either of the two function names.
FindFunction(t) ==
    /\ pc[t] = "symbol" /\ name[t] \in WithFunction
    /\ Report(t, "SUCCESS")
    /\ IF fn[t] = "load" THEN Return(t, "function") /\ Grant(t)
                         ELSE Goto(t, "create") /\ UNCHANGED <<result, granted>>
    /\ UNCHANGED <<called, options, message, opened, alive, owned>>

NoFunction(t) ==
    /\ pc[t] = "symbol" /\ name[t] \notin WithFunction
    /\ Goto(t, "unknown")
    /\ UNCHANGED <<called, options, code, result, message, opened, alive, owned, granted>>

CloseUnknown(t) ==
    /\ pc[t] = "unknown"
    /\ OpenCount(name[t], -1)
    /\ SetError(t, "SYMBOL_NOT_FOUND")
    /\ Return(t, "null")
    /\ UNCHANGED <<called, options, alive, owned, granted>>

----------------------------------------------------------------------------
\* create_fn().
Create(t) ==
    /\ pc[t] = "create"
    /\ alive' = alive \cup {VM(t)}
    /\ Goto(t, "check")
    /\ UNCHANGED <<called, options, code, result, message, opened, owned, granted>>

\* Mutant of CreateFails: the library stays open.
CreateFailsOpen(t) ==
    /\ pc[t] = "create"
    /\ SetError(t, "VM_CREATION_FAILURE")
    /\ Return(t, "null")
    /\ UNCHANGED <<called, options, opened, alive, owned, granted>>

\* Mutant of CreateFails: the library is closed here and again at the end.
CreateFailsTwice(t) ==
    /\ pc[t] = "create"
    /\ SetError(t, "VM_CREATION_FAILURE")
    /\ OpenCount(name[t], -1)
    /\ Goto(t, "close")
    /\ UNCHANGED <<called, options, result, alive, owned, granted>>

\* Mutant of CreateFails: the error code is not stored.
CreateFailsUnreported(t) ==
    /\ pc[t] = "create"
    /\ Goto(t, "close")
    /\ UNCHANGED <<called, options, code, result, message, opened, alive, owned, granted>>

CreateFails(t) ==
    /\ pc[t] = "create"
    /\ SetError(t, "VM_CREATION_FAILURE")
    /\ Goto(t, "close")
    /\ UNCHANGED <<called, options, result, opened, alive, owned, granted>>

HandOver(t) == Return(t, "vm") /\ Grant(t) /\ owned' = owned \cup {VM(t)}

\* qrvmc_is_abi_compatible().
CheckVersion(t) ==
    /\ pc[t] = "check" /\ name[t] \in Compatible
    /\ Report(t, "SUCCESS")
    /\ IF fn[t] = "create" THEN HandOver(t)
                           ELSE Goto(t, "configure") /\ UNCHANGED <<result, owned, granted>>
    /\ UNCHANGED <<called, options, message, opened, alive>>

\* Mutant of WrongVersion: the library is closed before the VM is destroyed.
WrongVersionClosesFirst(t) ==
    /\ pc[t] = "check" /\ name[t] \notin Compatible
    /\ SetError(t, "ABI_VERSION_MISMATCH")
    /\ OpenCount(name[t], -1)
    /\ Goto(t, "destroy")
    /\ UNCHANGED <<called, options, result, alive, owned, granted>>

WrongVersion(t) ==
    /\ pc[t] = "check" /\ name[t] \notin Compatible
    /\ SetError(t, "ABI_VERSION_MISMATCH")
    /\ Goto(t, "destroy")
    /\ UNCHANGED <<called, options, result, opened, alive, owned, granted>>

----------------------------------------------------------------------------
\* One turn of the loop over the options.
SetOption(t) ==
    /\ pc[t] = "configure" /\ options[t] > 0 /\ name[t] \in Configurable
    /\ options' = [options EXCEPT ![t] = @ - 1]
    /\ UNCHANGED <<called, pc, code, result, message, opened, alive, owned, granted>>

\* Mutant of OptionFails: the VM is forgotten.
OptionFailsEarly(t) ==
    /\ pc[t] = "configure" /\ options[t] > 0
    /\ SetError(t, "INVALID_OPTION_NAME")
    /\ Goto(t, "close")
    /\ UNCHANGED <<called, options, result, opened, alive, owned, granted>>

\* Mutant of OptionFails: another VM is tried, with the same options.
OptionFailsRetries(t) ==
    /\ pc[t] = "configure" /\ options[t] > 0
    /\ Goto(t, "create")
    /\ UNCHANGED <<called, options, code, result, message, opened, alive, owned, granted>>

\* The VM has no set_option(), or refuses the name, the value, or with an unknown result.
OptionFails(t) ==
    /\ pc[t] = "configure" /\ options[t] > 0
    /\ \/ SetError(t, "INVALID_OPTION_NAME")
       \/ name[t] \in Configurable /\ SetError(t, "INVALID_OPTION_VALUE")
    /\ Goto(t, "destroy")
    /\ UNCHANGED <<called, options, result, opened, alive, owned, granted>>

Configured(t) ==
    /\ pc[t] = "configure" /\ options[t] = 0
    /\ Report(t, "SUCCESS")
    /\ HandOver(t)
    /\ UNCHANGED <<called, options, message, opened, alive>>

----------------------------------------------------------------------------
\* The failure paths: destroy the VM, then close the library.
Destroy(t) ==
    /\ pc[t] = "destroy"
    /\ alive' = alive \ {VM(t)}
    /\ Goto(t, "close")
    /\ UNCHANGED <<called, options, code, result, message, opened, owned, granted>>

Close(t) ==
    /\ pc[t] = "close"
    /\ OpenCount(name[t], -1)
    /\ Return(t, "null")
    /\ UNCHANGED <<called, options, code, message, alive, owned, granted>>

----------------------------------------------------------------------------
\* qrvmc_last_error_msg(): the message is read and consumed.
TakeMessage(t) ==
    /\ pc[t] = "idle" /\ message[ErrorSlot(t)] # 0
    /\ message' = [message EXCEPT ![ErrorSlot(t)] = 0]
    /\ UNCHANGED <<called, pc, options, code, result, opened, alive, owned, granted>>

\* The user destroys a VM it owns, in any thread; nobody closes the library.
DestroyOwned(t) ==
    /\ pc[t] = "idle"
    /\ \E vm \in owned :
         /\ owned' = owned \ {vm}
         /\ alive' = alive \ {vm}
    /\ UNCHANGED <<called, pc, options, code, result, message, opened, granted>>

Init ==
    /\ pc = [t \in Threads |-> "idle"]
    /\ fn = [t \in Threads |-> "load"]
    /\ name = [t \in Threads |-> CHOOSE file \in Names : TRUE]
    /\ options = [t \in Threads |-> 0]
    /\ number = [t \in Threads |-> 0]
    /\ code = [t \in Threads |-> "UNSPECIFIED_ERROR"]
    /\ result = [t \in Threads |-> "null"]
    /\ message = [t \in Threads |-> 0]
    /\ opened = [l \in Libraries |-> 0]
    /\ granted = [l \in Libraries |-> 0]
    /\ alive = {} /\ owned = {} /\ calls = 0

User(t) == InvalidArgument(t) \/ Begin(t) \/ TakeMessage(t) \/ DestroyOwned(t)

Load(t) == Open(t) \/ CannotOpen(t) \/ FindFunction(t) \/ NoFunction(t) \/ CloseUnknown(t)

CreateAndConfigure(t) ==
    \/ Create(t) \/ CreateFails(t) \/ CheckVersion(t) \/ WrongVersion(t)
    \/ SetOption(t) \/ OptionFails(t) \/ Configured(t) \/ Destroy(t) \/ Close(t)

Progress(t) == Load(t) \/ CreateAndConfigure(t)

Next == \E t \in Threads : User(t) \/ Progress(t)

Spec == Init /\ [][Next]_vars

\* A thread inside a loader function keeps running; nobody has to call one.
FairSpec == Spec /\ \A t \in Threads : WF_vars(Progress(t))

----------------------------------------------------------------------------
\* The types; no reference count becomes negative.
TypeOK ==
    /\ pc \in [Threads -> Location] /\ fn \in [Threads -> Function]
    /\ name \in [Threads -> Names] /\ options \in [Threads -> 0 .. MaxOptions]
    /\ number \in [Threads -> 0 .. MaxCalls] /\ code \in [Threads -> Code]
    /\ result \in [Threads -> {"null", "function", "vm"}]
    /\ message \in [Threads -> 0 .. MaxCalls]
    /\ opened \in [Libraries -> Nat] /\ granted \in [Libraries -> Nat]
    /\ alive \subseteq [call : 1 .. MaxCalls, library : Libraries]
    /\ owned \subseteq [call : 1 .. MaxCalls, library : Libraries]
    /\ calls \in 0 .. MaxCalls

\* A thread whose call has the library open.
Holds(t, library) == pc[t] \notin {"idle", "open"} /\ name[t] = library

\* Every error path closes what the call opened, once: a library is open once for every
\* create function or VM that users got from it and for every call at work on it.  (So
\* libraries stay mapped after their last VM is gone: the loader has no unload.)
LibrariesBalanced ==
    \A library \in Libraries :
      opened[library] = granted[library] + Cardinality({t \in Threads : Holds(t, library)})

\* The code of a VM is mapped as long as the VM exists, also while it is destroyed on an
\* error path of one thread and others close the library.
VMsMapped == \A vm \in alive : opened[vm.library] > 0

\* A VM that is not handed out is destroyed: every VM is owned by a user or by the one call
\* that works on it ("performs the following actions atomically", loader.h).
NoOrphans ==
    /\ owned \subseteq alive
    /\ \A vm \in alive \ owned :
         \E t \in Threads : pc[t] \in {"check", "configure", "destroy"} /\ vm = VM(t)

\* What a call returns agrees with the error code it stored, on all paths.
ResultMatchesCode ==
    \A t \in Threads :
      pc[t] = "idle" /\ number[t] > 0 =>
        /\ result[t] # "null" <=> code[t] = "SUCCESS"
        /\ code[t] # "UNSPECIFIED_ERROR"

\* A thread's error message is about its own last call: not about another thread's, nor an
\* older one's.
ErrorsOwn == \A t \in Threads : message[ErrorSlot(t)] \in {0, number[t]}

\* "In case any loading function returned QRVMC_LOADER_SUCCESS this function always returns
\* NULL" (loader.h on qrvmc_last_error_msg).
SuccessHasNoMessage ==
    \A t \in Threads : pc[t] = "idle" /\ code[t] = "SUCCESS" => message[ErrorSlot(t)] = 0

\* What a thread reads after its call is true of that call, whatever the others did: its error
\* code, its message or that there is none.
ErrorsTrue == ErrorsOwn /\ SuccessHasNoMessage /\ ResultMatchesCode

\* Every call returns.
Returns == \A t \in Threads : pc[t] # "idle" ~> pc[t] = "idle"
=============================================================================

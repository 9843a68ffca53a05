# Verification of QRVMC

TLA+ models of QRVMC, the C interface between a virtual machine (VM) that executes contract
code and the client (Host) that runs it, with its helper libraries, example VMs and hosts. The
modules are checked by TLC on small instances and, where noted, their properties are proved by
TLAPS for every value of the constants.

## The system

| Component | State | Operations | Interacts with |
|---|---|---|---|
| Example VM (`examples/example_vm`) | per activation: gas, program counter, stack, memory | `execute`, with one case per instruction; `set_option` | calls its Host; a Host may call it back (nested activations) |
| Mocked host (`include/qrvmc/mocked_host.hpp`) | accounts with storage; records of accesses, calls, logs, block hashes | the Host methods; copying | called by VMs, inspected and set up by its user |
| Loader (`lib/loader`) | per thread: the last error message; per process: the dynamic loader's reference counts | `qrvmc_load`, `qrvmc_load_and_create`, `qrvmc_load_and_configure`, `qrvmc_last_error_msg` | the dynamic loader, VMs it creates and destroys |
| C++ wrappers (`include/qrvmc/qrvmc.hpp`) | which `Result` or `VM` object owns which resource | construction, moves, release; the Host trampolines and `HostContext`; comparison of values | VMs and Hosts in C |
| C helpers (`include/qrvmc/helpers.h`) | none | `qrvmc_make_result`, release, optional storage, pass-throughs | all |
| Example host (`examples/example_host.cpp`, `example.c`) | accounts; the objects the program holds | the Host methods; the program that executes a VM on them | VMs, loader |
| Precompiles VM (`examples/example_precompiles_vm`) | none | `execute` for the precompiles | Hosts |
| Hex, filter iterator (`hex.hpp`, `filter_iterator.hpp`) | iterator position | encoding, validation, decoding | tools |
| Tooling run, command line (`lib/tooling`, `tools/qrvmc`) | one mocked host; the VM | parse, load, decode; create, execute, benchmark | loader, hex, VM, mocked host |
| VM tester (`tools/vmtester`) | none | conformance tests of a loaded VM | loader, VM, mocked host |
| Instruction tables (`lib/instructions`) | constant tables | lookup | users |

The hard parts are these. Gas crosses the boundary between a VM and its Host in both
directions, through nested calls to any depth, and neither side may trust the other's
arithmetic. Results carry buffers that the receiver releases exactly once. The Host's storage
statuses and access answers must add up over long sequences of calls, beyond the limits of the
records they are computed from. The loader has error paths after each of its steps, runs on
several threads, and shares libraries between them. The hazards in `PROJECT.json` name the
lines.

## Modules

| Module | Models | Level |
|---|---|---|
| `Metered` | the contract of an execution towards the host that starts it | abstract |
| `ExampleVM` | `execute()` and the tree of activations it builds through a Host | detailed, implements `Metered` |
| `ExampleVMProofs` | proofs about `ExampleVM` and `InstructionHeights` | |
| `InstructionTables` | the opcodes, names and metrics, row by row | constant operators |
| `InstructionHeights` | `ExampleVM` against the tables | composition |
| `StorageStatus` | the classification of storage changes, its documented cases and gas | pure operators |
| `HostStorage` | what a VM may expect of the storage of any host | abstract |
| `MockedHost` | the methods of `MockedHost` | detailed, implements `HostStorage` |
| `BoundHost` | a VM's calls through the interface table to `MockedHost` | composition |
| `HostProofs` | proofs about the three | |
| `CallLog` | what the record of calls promises: hosts are values | abstract |
| `RecordedCalls` | the record of calls, with its pointers into the copies of the inputs | detailed, implements `CallLog` |
| `Loader` | the loading functions, on several threads | detailed |
| `LoaderProofs` | proofs about `Loader` | |
| `Ownership` | `Result` and `VM` objects and C result structs | detailed |
| `OwnershipProofs` | proofs about `Ownership` and `RecordedCalls` | |
| `HexDecoding` | the functions on hex text, character by character | detailed, against a reference |
| `HexDecodingProofs` | proofs about `HexDecoding` | |
| `PrecompilesVM` | `execute()` of the precompiles VM, in integers of limited width | detailed, implements `Metered` |
| `PrecompilesVMProofs` | proofs about `PrecompilesVM` | |
| `CppValues` | addresses and 64-byte values, their order, and maps keyed by them | pure operators |
| `ExampleHost` | the methods of `ExampleHost` | detailed, implements `HostStorage` |
| `ExampleProgram` | `example.c`, with a VM on `ExampleHost` | composition |
| `ExampleProgramProofs` | proofs about `ExampleProgram` | |
| `ToolRun` | `run()` and `bench()` of the tooling library | detailed |
| `CommandLine` | `main()` of the command line tool | composition, around `ToolRun` |
| `CommandLineProofs` | proofs about `CommandLine` and `ToolRun` | |

`Metered` and `HostStorage` are the two sides of the interface: what a host may expect of a VM
and what a VM may expect of a host's storage. `ExampleVM` and `PrecompilesVM` implement the
first, `MockedHost` and `ExampleHost` the second. Modules named `MC...` give the constants of a
module values, or symmetries, where a `.cfg` cannot.

### ExampleVM

`frames` is the native stack of `execute()` activations: the locals of each are one record
(`gas` is `gas_left`, `stack` and `msize` the two structs, `pc` counts from 1). `ctl` says who
has control; `call` and `ret` are the message and the result on their way. Every iteration of
the interpreter's loop is one action: the loop header's charge, the operand checks in their
order and the case of the `switch`. `OutOfGas`, `StackUnderflow` and `StackOverflow` are shared
by all instructions. `CALL` takes two steps: `CallHost` up to `host->call()`, and `Resume`
after it. Between them the host runs: `HostAnswers` answers at once (as `MockedHost` does),
also with a `gas_left` outside the contract; `HostExecutes` runs the callee's code on the same
VM, whose frame goes on top. `buffers` counts output buffers that exist. `Words` are numbers
whose low "32 bits" are their remainder modulo `U32`; memory contents are left out because no
instruction reads them back except into outputs, which are represented by their size.

`steps` and `allowance` are histories. Fairness (`FairSpec`) is weak fairness of everything but
starting an execution: the code is sequential, so while an execution is in progress its next
step is taken. A host that is called must answer, which is an obligation of the host.

Runs:
- `vm_calls` (`MCExampleVM_calls.cfg`): accounts 0 and 1 with code, depth limit 2 reached from
  depths 0 and 1, gas from -1 to 29. The code pushes the operands of `CALL`, calls, and then
  stores, returns, falls off the end or calls again with too few operands. The callee stores,
  reverts or fails; account 0 also calls itself. Words go up to 63 with U32 = 32, so that the
  value 32 is not zero although its low part is. Hosts answer with gas -1 and 30, outside what
  they were lent. These bounds reach each refusal of `CALL`, each clamp, and three levels of
  activation.
- `vm_ops` (`MCExampleVM_ops.cfg`): every program of three bytes over all instructions but
  `CALL`, on a stack of two words and a memory of one byte, in static and normal mode, with gas
  for fewer and for more instructions than the program has.

Proved in `ExampleVMProofs`, for all limits, codes, messages and host answers: `TypeCorrect`
(`TypeOK`), `DepthAlwaysBounded`, `StaticAlwaysInherited`, `BuffersAlwaysReleased`,
`GasAlwaysConserved`, `AlwaysMeteredExactly`, `StaticSafety`, `ResultsConform` and `Refinement`
(`ExampleVM` implements `Metered`). The inductive invariant
`IInv` adds to `TypeOK` which control states go with which frames (`ControlInv`), the chain
between a frame and the one below it, that every frame holds and lends at most its message's
gas (`WithinAllowance`), and the fact the code relies on silently: a frame that waits for a
call has popped seven words, so the push of the success flag never overflows and the early
return there, which would leak the callee's buffer, is never taken. The proof shows one lemma
per kind of step (`Advances`, `Returns`, `CallHost`, `Resume`, the host) and combines them.
`GasConserved` sums over the native stack with a recursive function; the lemmas about it say
what a push, a pop and a change of the top frame do to the sum, by induction over the depth, and
each step is shown to move gas between the top frame, what is in flight and the count of
instructions. `AlwaysMeteredExactly` assumes what `vm_ops` has, that no code has a `CALL`
(`WithoutCalls`): a host may answer with less gas than it used, so that with calls the meter is
an inequality. `Terminates` is model-checked only.

### InstructionTables and InstructionHeights

The tables of `lib/instructions` are two arrays of 256 rows and an enumeration, written apart:
only the position of a row ties it to its opcode. `InstructionTables` has them as sequences in
the order of the source, put together from runs of rows that are alike. `InstructionHeights`
checks them where they are used: at every cell `ExampleVM` dispatches, `TablesAgree` compares
the rows of all opcodes the cell stands for (an undefined cell stands for every opcode the VM
has no case for, so all 256 rows are compared), and `HeightsMatchTable` compares what the VM
did to its stack with the declared change and the declared requirement, `CALL` in its two
halves, and each underflow and overflow with them too. The runs are `vm_ops`, which dispatches
every instruction but `CALL`, and `vm_calls`, which dispatches `CALL`. The gas costs of the
metrics are in the rows but the example VM charges one for everything, so nothing compares
them.

Both properties are proved as well, in the last part of `ExampleVMProofs`. `RowsAlwaysAgree`
says that the three tables agree on each of the 256 opcodes, whether or not a code uses it. A
prover cannot compute an array of 256 rows as TLC does, so the proof follows the way the arrays
are written: a piece (`Fills`) is n rows that stand where they belong from some opcode on, two
pieces one after the other are a piece (`Joined`), and the pieces of the source, a run of names,
of equal rows or of gaps, add up to the whole. What a row must be for its opcode is `NumberOf`
(the enumeration read backwards) for the names and `Fit` for the metrics. `TablesAlwaysAgree`
follows for every code, and `HeightsAlwaysMatch` for every code, stack limit and host: of the
metrics it uses what `Fit` says of the instructions the VM has (`HeightsDeclared`), of the VM the
inductive invariant `IInv` and the shape of a dispatched instruction (`DispatchShape`), which
goes on with another stack, ends, or is `CALL`. `CALL` is the special case: the proof shows that
it cannot overflow before the host is asked, and that only its depth and static checks, which
come before its last four operands are popped, can hide an underflow. One assumption is added,
`CodesAssumption`: the cell of a `PUSH` has 1 to 64 immediate bytes, which is what the opcodes
`PUSH1` to `PUSH64` are.

### StorageStatus, MockedHost and BoundHost

`MockedHost` has one action per Host method; the record `reply` is what the last call answered.
Account and storage maps are functions on the keys they contain, so that the entries
`accounts[addr].storage[key]` creates are visible. `touched`, `warmed`, `cold` and `meter` are
histories: `meter` is the ledger of a consumer that charges and refunds each change by the
table of `docs/QRVM_Storage_Change_Status.md`. The properties relate answers to earlier
answers: `NetMetered` says that any sequence of changes of a slot costs one warm access each
plus what the net change owes, and `RefundsCovered` that no prefix of it takes back more refund
than was given.

`BoundHost` puts the C++ wrappers between: a VM calls the i-th member of the table
`qrvmc_host_interface`, whose i-th place holds a trampoline (`Interface`, in the order of
`Host::get_interface()`), which calls the method of that name. `emit_log` copies the topics
into an array of four, in the trampoline and, for a VM written in C++, in `HostContext` before
it. `CallsArrive` says that the host's answer is that of the method the VM named and of the
account it named, and the log has the topics it passed, up to four.

Runs:
- `host` (`MCBoundHost.cfg`): all sequences of five calls of the members, on a user address and
  a precompile, with one slot and four values, from no account or from a slot that is clean, set
  and warm, or cleared. A record of one access, so that it is full while calls that depend on it
  go on; lists of none, one and five topics, and a null list with a count. Four values are
  enough: a status depends only on which of original, current and new value are equal or zero.
- `host_access_documented` is expected to fail: the documentation of `access_account` promises
  WARM for every account accessed before, but accesses after the 200th (here: after the record
  is full) are not recorded.

Proved in `HostProofs`:
- About `StorageStatus`, for all values and gas constants with `GWarm <= GSet` and
  `GWarm <= GReset`: the status is the documented one, four checks determine it, and the two
  ledger properties hold for every single change. The assertion in the default case of the
  `switch` and the two before it cannot fail.
- About `MockedHost`, for any addresses, keys, values, initial accounts and record size:
  `AlwaysNetMetered`, `RefundsAlwaysCovered`, `OriginalsAlwaysFixed`, `StatusAlwaysDocumented`.
  The invariant `HostInv` adds types to the two equations of the ledger. A write moves each side
  of them by what `NetStep` and `RefundStep` say; every other method leaves the values of
  existing entries and adds only clean, zero ones.
- `AccessAlwaysSound` and `AlwaysWarmForGood`. The invariant `RecordInv` relates the record to
  the history `touched`: what is recorded was touched, and what was touched is recorded while
  there is room.
- `AlwaysColdOnce`: a slot that was answered cold has an entry that is warm.
- `StorageImplemented`: the entries that reads, writes and accesses create in `accounts` are
  invisible to a VM, which sees the map of `HostStorage`.
- About `BoundHost`: `BoundIsMocked`, every behaviour seen through the table is one of
  `MockedHost`, hence `BoundSafety`, all of the above for a VM at the other end of it; and
  `AlwaysArrive`, for any lists of topics.

### CallLog and RecordedCalls

`MockedHost::record_account_access()` is above; this is `MockedHost::call()`, which keeps a
copy of each input in a vector and lets `recorded_calls` point into it. The model has a memory:
`memory` maps the buffers in use to the strings in them, and a freed buffer may be used again.
A short string lives inside the vector's storage (`std::basic_string` keeps it in the object),
so it moves when the vector reallocates or is copied; a long one has a heap block, which a move
hands over. Users clear the record, erase its last entries, and construct, copy, move, assign
and destroy hosts. `InputsValid` says that no pointer in a live host's record dangles or shows
another input; `CopiesIndependent` that, dereferenced, the record is the one of `CallLog`, which
includes it wherever the promise is kept.

Runs, with two hosts, two recorded calls in place of 100 (below, at and beyond the limit
occur), one input of each kind and six buffers, which are enough for two full records and the
temporary of an assignment:
- `records`: users either clear the record as a whole or not at all; or they erase entries too,
  and then use long inputs (`ErasersInputs`). `SYMMETRY` interchanges buffers and hosts: the
  code tests neither, and the properties are safety properties.
- `records_erased` is expected to fail: the code drops old copies and reserves room only when
  the record is empty (`mocked_host.hpp:429`), so after entries are erased but not all, the
  copies grow past the reserve and short inputs move. The comment at line 100 promises that
  recording more calls does not invalidate pointers into the copies.

Proved in `OwnershipProofs`, for any hosts, inputs, limit and places, and for users who either do
not erase or use long inputs (`ErasersUseLong`, whose necessity `records_erased` shows):
`RecordsAreValues`, the refinement, and `PointersStayValid` (`InputsValid`). The invariant
`RecordsInv` says of each host that its strings are in use, at different places, and its pointers
lead to them (`HostInv`), and that two hosts share no place. It is inductive only because nothing
moves (`Emplaced`): with users who do not erase, a record that is not empty has at least as many
entries as there are copies, and room for `MaxRecorded` of them, so the vector reallocates only
when the record is empty; long strings survive a reallocation. A step of one host then leaves
what all others show (`UntouchedShows`), and the copy constructor's loop turns the i-th pointer of
the source into one that shows the same (`CopyIs`).

### Loader

Each thread has its place in the chain `qrvmc_load_and_configure` > `qrvmc_load_and_create` >
`qrvmc_load`, and each call into the dynamic loader or a VM is a step. `opened` is the dynamic
loader's reference count of a library, `alive` and `owned` are the VMs that exist and those
users own, `message` is the `last_error_msg` of a thread, represented by the call it is about.
`granted` is a history: what users got from a library and never give back, because the loader
has no unload. `SetError` keeps the message only if it fits the buffer. A library fails at the
stage its constants say (no create function, another ABI version, no options), and may fail to
open and fail to create a VM at any time.

The run `loader` has two threads, two calls, up to two options, and five names: a library that
works, one without options, one of another ABI version, one without a create function, and no
library. Two calls are by one thread, one after the other, or by two at the same time, and
threads share only the reference counts; for longer sequences there are the proofs. Fairness is
weak fairness of a thread that is inside a loader function, as of any thread that runs; a
thread outside need not call.

`ErrorsTrue` has three parts: the message a thread reads is about its own last call
(`ErrorsOwn`), there is none after a success (`SuccessHasNoMessage`), and the code says whether
there is a VM (`ResultMatchesCode`).

Proved in `LoaderProofs`, for any threads, libraries, VMs and number of calls:
`LibrariesAlwaysBalanced`, `NeverOrphans`, `VMsAlwaysMapped`, `ErrorsReported` (`ErrorsTrue`) and
`TypeCorrect`. The invariant `IInv` says which places in the chain a thread can be in with
which locals (`Placed`), that VM numbers grow (`Numbered`), that a VM a user owns is alive and
its library open (`Granted`), and the balance itself: the reference count of a library is the
number of threads that hold it plus what was granted to users. The steps of `ErrorsReported`
follow the return values back through the chain. `Returns` is model-checked only.

### Ownership

A result is an object of class `Result` or a C struct; each has `output_data` and perhaps a
release function. Instances belong to `VM` objects. The actions are the constructors, moves,
move assignments (also to itself, where the code tests for it), destructors, `release_raw()`,
`qrvmc_release_result()` and `VM::execute()`. A C struct is used once, as the C interface asks
of whoever receives it. The C++ trampoline `internal::call()` constructs a temporary and
releases it raw, which together is `MakeStruct`; `ReleaseRaw` and `Release` in any order cover
its two halves. The run `ownership` has two objects, two structs, two VM objects, three buffers
and two instances: two of a kind are what moves need, and the third buffer lets one be freed
and used again while two are held. Everything it checks is also proved, in `OwnershipProofs`, for any
number of them.

### HexDecoding

The loop of `from_hex()` is one action per kind of character, on the position of its iterator.
Five functions enter it: `from_hex()`, `validate_hex()`, which decodes into nothing,
`from_spaced_hex()`, and the two for types of fixed size, `from_hex<T>()` and
`from_prefixed_hex<T>()`. `ForwardFrom` is what the iterator's increment does: one step, or, for
the `filter_iterator`, on to the next character that is no space. `ScanInto` computes where the
first byte goes from the length of the text, as the two functions for types do; `from_hex()`
itself knows nothing of that place. `Decodes` compares the outcome with what the text means as a
whole (`Accepted`, `Meaning`), for every function, so that `validate_hex()` accepts what
`from_hex()` decodes, and demands that encoding (`hex`) gives the digits back.

The run `hex` has all texts of up to five characters out of three digits (zero, the largest,
and one between), both letters of prefixes, a space and a character for the caller's prefix,
and a type of one byte. Five characters hold two prefixes and an odd digit, and overflow the
type by one byte.

Proved in `HexDecodingProofs`, for texts and types of any length: `TypeCorrect`,
`AlwaysHalfAsLong` (what the documentation of `from_hex()` guarantees), `AlwaysInBounds` and
`AlwaysDecodes`. The invariant adds that two characters were read for each byte (`Paced`) and
that the whole rest of the text still fits the array (`Positioned`). For `AlwaysDecodes` it adds
the link between the two ways to read a text: the characters the iterator has shown so far are
the first ones of the text without its spaces (`Shows`, a correspondence of places that grows
with each increment), a prefix was dropped exactly if one is meant, all digits before the
iterator were digits, and the bytes written are the meaning of what was shown. The lemmas are
by induction over the places of the text.

### PrecompilesVM

`execute()` keeps nothing between calls; the state is the last message and result. Integers
wrap at the constants `MaxGas` (`int64_t`) and `MaxSize` (`size_t`), so that an input longer
than the gas can pay for exists in the model. With the real widths and word size the check at
line 27 never fires, since `size_t` divided by 32 is below the bound; the properties are about
the code for any widths. A message has gas of at least zero: a negative gas would be a violation
of the contract by the host, as the example VM says where it refuses one (`example_vm.cpp:199`),
and this VM does not look for it. The run `precompiles` has integers of six bits, `int64_t` with
a sign and `size_t` without, with all gases and sizes next to a boundary.
`PaysExactly` compares the cost charged with the cost in unbounded numbers; it and the
refinement of `Metered` are proved in `PrecompilesVMProofs` for all widths and gas constants.

### CppValues, ExampleHost and ExampleProgram

A C++ address or 64-byte value is a sequence of bytes; its operators load it in words, `==` in
little-endian order and `<` in big-endian order, and `std::map` finds a key by `<` alone.
`Found`, `Lookup` and `Insert` are what `find()` and `[]` make of that order, so that a
comparison that overlooks a difference would join two accounts or two slots.

`ExampleHost` has one action per method. It keeps no original values, answers `COLD` to every
access, reverts every call, and knows the hash of the blocks its history reaches. No method
gives an account code or balance, and `example_host_create_context()` starts from none, so
those stay zero. `ExampleProgram` is `main()` of `example.c` around it: get a VM from the loader
or from the linked function, make the context, execute (any sequence of host calls, then any
status), report, and give back. `made`, `gone` and `written` are histories.

The run `example` has two addresses that differ in their last word only, two keys, two values,
two words of two "bytes" of base 2, three calls by the VM and one by the program, and a history
of 30 blocks before block 42, with one block before it, one inside and the current one. A write
to one slot that shows in another, or is lost, needs two calls. The statuses are an internal
error of the header, one that no header defines, a success and a failure. `CleansUp` says that
however the program ends, it has given back once each VM, context and result it made;
`ReportsTruly` that what `main()` returns and the value it prints are those of the execution;
`ImplementsHostStorage` that its storage is the map of `HostStorage`, though it is nested maps of
byte arrays.

`example.c` returns the status of the VM as it is, and a VM may return negative codes that no
header defines (`qrvmc.h:253-255`). A process keeps eight bits of what `main()` returns, so a VM
that fails with -256 makes the example end with status zero, like a success. No documentation
promises otherwise, and `ReportsTruly` says both: the `int` is zero exactly for a success, its
last byte also for the failures of the VM that are multiples of 256, and for nothing else.

Proved in `ExampleProgramProofs`, for any values, host and VM:
- `AlwaysCleansUp`. The invariant says which objects each phase of `main()` has.
- `StorageImplemented`. Two values that differ in a byte differ in the word that holds it, by
  induction over the bytes a word is loaded from, little-endian for `==` and big-endian for `<`;
  so neither of two values is less than the other only if they are equal (`LessDecides`), and
  the maps find, under a key, what was stored under that key and nothing else (`LookupIs`,
  `InsertIs`). A step of the host is then a read or a write of `HostStorage`.
- `AlwaysReportsTruly`. The host's storage at the slot that is printed is what the VM last
  wrote there (`Told`). Nothing is assumed of the status codes but that they are integers. The
  loader's errors are its own, and assumed between -255 and 255 ("the values are small enough
  for casting", `example.c:36`), so that none of them is taken for zero.

### ToolRun and CommandLine

`run()` is one action per execution. The VM is any function of message, code and host state:
`vm` holds its outcomes as far as they were asked, each picked when it is first needed, so TLC
explores every such VM. `world` is the state of the host after an execution; after a creation
it includes the code the tool installs in the new account. `Differs` compares gas and output
and not the status, as `bench()` does. A probe takes from no time to longer than the target, so
that both ends of the division occur; with no iteration to do, `bench()` would divide by zero
and the model goes no further, which `Exits` would find.

`CommandLine` is `main()`: parsing, where a hex argument is decoded and forgotten and a file is
only found to exist; loading, with an instance or an error; the version; decoding, for which the
file is opened; `run()`; and the ways out, by return or exception, where the VM is destroyed.
`args` is any command line, as far as `main()` tells them apart. `FileChanges` lets someone else
write or remove a file until it is read. The calls of the loader and of the decoder are one step
each; `Loader` and `HexDecoding` have their steps.

The run `tool` has every command line, two host states, two outputs, a gas of one and a target
of three ticks; since the VM is deterministic, a third state would only lengthen the loop.
`ReportsFirst` says that what is printed is the first execution's outcome, and that a creation
that failed ends `run()` with its status and nothing printed, `WarnsTruly` when a warning is
due, `ExitsTruly` that a zero means that what was asked is done (and that no code is
executed but decoded text on a loaded VM, which does not survive), and `Exits` that `main()`
ends. Fairness is weak fairness of `MainStep`, which is sequential code; an execution of the VM
ends (for `ExampleVM` that is `Terminates`). Files need not change.

Proved in `CommandLineProofs`, for any gas, target, outputs and host states: `AlwaysExitsTruly`,
from an invariant about what the stages of `main()` have (`MainInv`) and when `run()` has
printed (`RunInv`), and `AlwaysReportsFirst`. Its invariant `FirstInv` says that what is about
to be executed is what the options ask for, on the host the creation left, and that the result
kept is the outcome of that; a VM that is a function keeps it (`FirstStays`) whatever the
benchmark asks of it later. `AlwaysWarnsTruly` adds the same for the benchmark's first execution
(`WarnInv`): it is of the same message and code, so that only the host's state can make a
difference.

## What is out of the prover's reach

Liveness (`Terminates`, `Returns`, `Exits`) depends on fairness and is model-checked only.
The library's induction theorems take an operator as a parameter, which the provers cannot
instantiate. Where a proof needs induction over numbers (places of a text, depths of the native
stack, bytes of a word) it is done on a set of numbers, whose complement would have a least
member (`WFMin` of the library); the lemma `Induction` of the three modules that need it says so
once for all. What these proofs are about is written with recursive functions; that such a
function exists and obeys its equation is shown in the same way (`SumExists`, `LoadedExists`).

Every other property of a passing run, invariant or action property or refinement, is stated by
a theorem. The two properties of the runs that expect a violation are claims of the documentation
that the code does not keep.

## Not modelled

Contents of memory, outputs, code bytes and log data, except for their sizes; the text of
messages; `get_capabilities` and `set_option` of the example VM, which return constants and set
the verbosity of its log. Of `qrvmc.hpp` the hashes (whose quality is no matter of correctness),
the stream operators, and the members of `VM` that pass a call through. Its constructor with a
list of options ignores what `set_option()` returns, as no documentation forbids. Of `helpers.h`
the pass-throughs, the optional storage (a cast), and conversions to text. The VM tester is a
test program without state: what it expects of a VM, that its results obey the contract
(`ResultContract`) and its precompiles answer, is used as properties. CMake files and tests
have no model. Who owns the output that `MockedHost::call()` answers with is left to the user by
the comment at `mocked_host.hpp:85`; nothing in the code can be checked about it.

## Plan

One extension is left: `ExampleVM` on a `HostStorage`, so that a read of the code sees what the
code stored, with the statuses of `MockedHost`.

----------------------------- MODULE Ownership ------------------------------
(***************************************************************************)
(* include/qrvmc/qrvmc.hpp: who releases the output of a result and who     *)
(* destroys a VM instance.  Results exist as objects of the class Result    *)
(* and as C structs (qrvmc_result) that VMs and hosts hand to each other;   *)
(* instances belong to objects of the class VM.                             *)
(***************************************************************************)
CONSTANTS
    Results,    \* objects of class Result, before, while and after they exist
    Structs,    \* qrvmc_result structs in the hands of C code
    VMs,        \* objects of class VM
    Buffers,    \* the addresses malloc() returns
    Instances,  \* the addresses of VM instances
    None        \* the null pointer

Holders == Results \cup Structs

ASSUME OwnershipAssumption ==
    /\ Results \cap Structs = {}
    /\ None \notin Buffers /\ None \notin Instances

VARIABLES
    exists,     \* the results, objects and structs, that exist
    data,       \* result -> output_data
    release,    \* result -> whether its release function is set
    buffers,    \* the buffers that are allocated
    vms,        \* the VM objects that exist
    instance,   \* VM object -> m_instance
    instances   \* the instances that were created and not destroyed

results == <<exists, data, release, buffers>>
machines == <<vms, instance, instances>>
vars == <<exists, data, release, buffers, vms, instance, instances>>

----------------------------------------------------------------------------
\* A new result x.  qrvmc_make_result() attaches a copy of the output, or nothing if there
\* is no output or malloc() fails; C code may also set a release function without output.
Make(x) ==
    /\ exists' = exists \cup {x}
    /\ \/ \E b \in Buffers \ buffers :
            /\ data' = [data EXCEPT ![x] = b]
            /\ release' = [release EXCEPT ![x] = TRUE]
            /\ buffers' = buffers \cup {b}
       \/ \E releases \in BOOLEAN :
            /\ data' = [data EXCEPT ![x] = None]
            /\ release' = [release EXCEPT ![x] = releases]
            /\ UNCHANGED buffers

\* What the release function of x frees, if there is one.
Released(x) == IF release[x] THEN {data[x]} ELSE {}

\* The fields of x are copied to y, and x will not release them (HandOver).
HandOver(x, y) ==
    /\ data' = [data EXCEPT ![y] = data[x]]
    /\ release' = [release EXCEPT ![x] = FALSE, ![y] = release[x]]

\* One of the constructors from values.
ConstructResult(o) == o \notin exists /\ Make(o) /\ UNCHANGED machines

\* A C host or VM produces a result.  So does a C++ host called by a C VM: the trampoline
\* internal::call() calls release_raw() on the temporary Result.
MakeStruct(s) == s \notin exists /\ Make(s) /\ UNCHANGED machines

\* VM::execute(): the result of the instance becomes a Result.
Execute(v, o) ==
    /\ v \in vms /\ instance[v] # None
    /\ o \notin exists /\ Make(o)
    /\ UNCHANGED machines

\* Result(const qrvmc_result&): the object takes the resources, the struct is not used again.
TakeStruct(s, o) ==
    /\ s \in exists /\ o \notin exists
    /\ HandOver(s, o)
    /\ exists' = (exists \ {s}) \cup {o}
    /\ UNCHANGED <<buffers, machines>>

\* release_raw().  Mutant: the object keeps its release function.
ReleaseRawCopy(o, s) ==
    /\ o \in exists /\ s \notin exists
    /\ data' = [data EXCEPT ![s] = data[o]]
    /\ release' = [release EXCEPT ![s] = release[o]]
    /\ exists' = exists \cup {s}
    /\ UNCHANGED <<buffers, machines>>
ReleaseRaw(o, s) ==
    /\ o \in exists /\ s \notin exists
    /\ HandOver(o, s)
    /\ exists' = exists \cup {s}
    /\ UNCHANGED <<buffers, machines>>

MoveConstruct(p, o) ==
    /\ p \in exists /\ o \notin exists
    /\ HandOver(p, o)
    /\ exists' = exists \cup {o}
    /\ UNCHANGED <<buffers, machines>>

\* Move assignment releases what the object had.  To itself it does nothing.
\* Mutant: without the test for self-assignment.
MoveAssignSelf(p, o) ==
    /\ p \in exists /\ o \in exists
    /\ buffers' = buffers \ Released(o)
    /\ data' = [data EXCEPT ![o] = data[p]]
    /\ release' = IF p = o THEN [release EXCEPT ![o] = FALSE]
                           ELSE [release EXCEPT ![o] = release[p], ![p] = FALSE]
    /\ UNCHANGED <<exists, machines>>
MoveAssign(p, o) ==
    /\ p \in exists /\ o \in exists /\ p # o
    /\ buffers' = buffers \ Released(o)
    /\ HandOver(p, o)
    /\ UNCHANGED <<exists, machines>>

\* The destructor, and qrvmc_release_result() as the last use of a struct.
Release(x) ==
    /\ x \in exists
    /\ buffers' = buffers \ Released(x)
    /\ release' = [release EXCEPT ![x] = FALSE]
    /\ exists' = exists \ {x}
    /\ UNCHANGED <<data, machines>>

----------------------------------------------------------------------------
\* VM(qrvmc_vm*): of a new instance, or of null when the create function failed.  The
\* options of the other constructor do not change who owns what.
ConstructVM(v) ==
    /\ v \notin vms
    /\ vms' = vms \cup {v}
    /\ \/ \E i \in Instances \ instances :
            instance' = [instance EXCEPT ![v] = i] /\ instances' = instances \cup {i}
       \/ instance' = [instance EXCEPT ![v] = None] /\ UNCHANGED instances
    /\ UNCHANGED results

MoveConstructVM(w, v) ==
    /\ w \in vms /\ v \notin vms
    /\ vms' = vms \cup {v}
    /\ instance' = [instance EXCEPT ![v] = instance[w], ![w] = None]
    /\ UNCHANGED <<results, instances>>

\* Mutant of MoveAssignVM: the source still has the instance.
MoveAssignVMShares(w, v) ==
    /\ w \in vms /\ v \in vms /\ w # v
    /\ instances' = instances \ {instance[v]}
    /\ instance' = [instance EXCEPT ![v] = instance[w]]
    /\ UNCHANGED <<results, vms>>
MoveAssignVM(w, v) ==
    /\ w \in vms /\ v \in vms /\ w # v
    /\ instances' = instances \ {instance[v]}
    /\ instance' = [instance EXCEPT ![v] = instance[w], ![w] = None]
    /\ UNCHANGED <<results, vms>>

DestroyVM(v) ==
    /\ v \in vms
    /\ vms' = vms \ {v}
    /\ instances' = instances \ {instance[v]}
    /\ instance' = [instance EXCEPT ![v] = None]
    /\ UNCHANGED results

Init ==
    /\ exists = {} /\ buffers = {} /\ vms = {} /\ instances = {}
    /\ data = [x \in Holders |-> None] /\ release = [x \in Holders |-> FALSE]
    /\ instance = [v \in VMs |-> None]

ResultStep ==
    \/ \E o \in Results : ConstructResult(o) \/ Release(o)
    \/ \E s \in Structs : MakeStruct(s) \/ Release(s)
    \/ \E o \in Results, v \in VMs : Execute(v, o)
    \/ \E o \in Results, s \in Structs : TakeStruct(s, o) \/ ReleaseRaw(o, s)
    \/ \E o, p \in Results : MoveConstruct(p, o) \/ MoveAssign(p, o)

VMStep ==
    \/ \E v \in VMs : ConstructVM(v) \/ DestroyVM(v)
    \/ \E v, w \in VMs : MoveConstructVM(w, v) \/ MoveAssignVM(w, v)

Next == ResultStep \/ VMStep

Spec == Init /\ [][Next]_vars

----------------------------------------------------------------------------
\* Types; only what exists has something to release.
TypeOK ==
    /\ exists \subseteq Holders /\ buffers \subseteq Buffers
    /\ data \in [Holders -> Buffers \cup {None}] /\ release \in [Holders -> BOOLEAN]
    /\ \A x \in Holders : release[x] => x \in exists
    /\ vms \subseteq VMs /\ instances \subseteq Instances
    /\ instance \in [VMs -> Instances \cup {None}]
    /\ \A v \in VMs : instance[v] # None => v \in vms

Owns(x, b) == release[x] /\ data[x] = b

\* Every allocated buffer has exactly one result that will release it, and no result will
\* release a buffer that is gone: over any sequence of constructions, moves, raw releases and
\* destructions nothing is released twice or never (Result in qrvmc.hpp).
ReleasedOnce ==
    /\ \A b \in buffers : \E x \in Holders : Owns(x, b)
    /\ \A x \in Holders : release[x] => data[x] \in buffers \cup {None}
    /\ \A x, y \in Holders : release[x] /\ release[y] /\ data[x] = data[y] /\ data[x] # None
                               => x = y

\* The same of VM instances and the class VM.
DestroyedOnce ==
    /\ \A i \in instances : \E v \in VMs : instance[v] = i
    /\ \A v \in VMs : instance[v] \in instances \cup {None}
    /\ \A v, w \in VMs : instance[v] = instance[w] /\ instance[v] # None => v = w

\* The output of a result that goes on existing is released in one case only: the result is
\* assigned another one, and then has that one's fields.  So not by an assignment to itself,
\* by taking its struct form, nor by the end of a result it was moved from.
OutputKept ==
    [][\A x \in exists \cap exists' :
         release[x] /\ data[x] \notin buffers' \cup {None} =>
           \E y \in exists \ {x} : data'[x] = data[y] /\ release'[x] = release[y]]_vars
=============================================================================

---------------------------- MODULE LoaderProofs ----------------------------
(***************************************************************************)
(* Proofs about Loader, for any number of threads, libraries and calls.     *)
(* The invariants hold together: that a library is mapped while one of its  *)
(* VMs exists follows from its count, the count from who has it open, and   *)
(* that from where each thread is.                                          *)
(***************************************************************************)
EXTENDS Loader, FiniteSetTheorems, TLAPS

\* The types; that the counts are not negative follows from LibrariesBalanced.
Types ==
    /\ pc \in [Threads -> Location] /\ fn \in [Threads -> Function]
    /\ name \in [Threads -> Names] /\ options \in [Threads -> 0 .. MaxOptions]
    /\ number \in [Threads -> 0 .. MaxCalls] /\ code \in [Threads -> Code]
    /\ result \in [Threads -> {"null", "function", "vm"}]
    /\ message \in [Threads -> 0 .. MaxCalls]
    /\ opened \in [Libraries -> Int] /\ granted \in [Libraries -> Nat]
    /\ alive \subseteq [call : 1 .. MaxCalls, library : Libraries]
    /\ owned \subseteq [call : 1 .. MaxCalls, library : Libraries]
    /\ calls \in 0 .. MaxCalls

\* Calls are numbered; the VM of a call that is not at its creation yet does not exist.
Numbered ==
    /\ \A t \in Threads : number[t] <= calls /\ (pc[t] # "idle" => number[t] > 0)
    /\ \A t, u \in Threads : number[t] = number[u] /\ number[t] > 0 => t = u
    /\ \A vm \in alive : vm.call <= calls
    /\ \A t \in Threads : pc[t] \in {"open", "symbol", "create"} =>
         \A vm \in alive : vm.call # number[t]

\* A call is past "open" only on a library, and its VM is its own.
Placed ==
    /\ \A t \in Threads : pc[t] \notin {"idle", "open"} => name[t] \in Libraries
    /\ \A t \in Threads : pc[t] \in {"check", "configure", "destroy"} => VM(t) \in alive \ owned

\* A library that a user has a VM of was granted.
Granted == \A vm \in owned : granted[vm.library] > 0

IInv == Types /\ Numbered /\ Placed /\ NoOrphans /\ Granted /\ LibrariesBalanced

----------------------------------------------------------------------------
LEMMA TypesKept ==
    ASSUME Types, Numbered, Placed, NEW t \in Threads, User(t) \/ Progress(t)
    PROVE  Types'
<1> USE LoaderAssumption DEF Types, Call, Report, Goto, Return, OpenCount, Grant, called, Location, Code,
        SetError, ErrorSlot
<1>0. pc[t] # "idle" /\ name[t] \in Libraries => VM(t) \in [call : 1 .. MaxCalls, library : Libraries]
  BY DEF VM, Numbered
<1>1. CASE InvalidArgument(t) BY <1>1 DEF InvalidArgument
<1>2. CASE Begin(t) BY <1>2 DEF Begin
<1>3. CASE TakeMessage(t) BY <1>3 DEF TakeMessage
<1>4. CASE DestroyOwned(t) BY <1>4 DEF DestroyOwned
<1>5. CASE Open(t) BY <1>5 DEF Open
<1>6. CASE CannotOpen(t) BY <1>6 DEF CannotOpen
<1>7. CASE FindFunction(t) BY <1>7 DEF FindFunction
<1>8. CASE NoFunction(t) BY <1>8 DEF NoFunction
<1>9. CASE CloseUnknown(t) BY <1>9 DEF CloseUnknown, Placed
<1>10. CASE Create(t) BY <1>0, <1>10 DEF Create, Placed
<1>11. CASE CreateFails(t) BY <1>11 DEF CreateFails
<1>12. CASE CheckVersion(t) BY <1>0, <1>12 DEF CheckVersion, HandOver, Placed
<1>13. CASE WrongVersion(t) BY <1>13 DEF WrongVersion
<1>14. CASE SetOption(t) BY <1>14 DEF SetOption
<1>15. CASE OptionFails(t) BY <1>15 DEF OptionFails
<1>16. CASE Configured(t) BY <1>0, <1>16 DEF Configured, HandOver, Placed
<1>17. CASE Destroy(t) BY <1>17 DEF Destroy
<1>18. CASE Close(t) BY <1>18 DEF Close, Placed
<1> QED BY <1>1, <1>2, <1>3, <1>4, <1>5, <1>6, <1>7, <1>8, <1>9, <1>10, <1>11, <1>12, <1>13, <1>14,
           <1>15, <1>16, <1>17, <1>18 DEF User, Progress, Load, CreateAndConfigure

----------------------------------------------------------------------------
\* What the steps of a thread do to places, libraries and VMs: eleven shapes.
WithVM == {"check", "configure", "destroy"}
resources == <<opened, granted, alive, owned>>

OthersKept(t) ==
    \A u \in Threads \ {t} : pc'[u] = pc[u] /\ name'[u] = name[u] /\ number'[u] = number[u]

Goes(t, from, to) == pc[t] \in from /\ pc'[t] \in to /\ UNCHANGED <<name, number, calls>>

Starts(t) ==
    /\ pc[t] = "idle" /\ pc'[t] \in {"idle", "open"}
    /\ number'[t] = calls + 1 /\ calls' = calls + 1 /\ UNCHANGED resources
Stays(t) == UNCHANGED <<pc, name, number, calls, resources>>
UserDestroys(t) ==
    /\ \E vm \in owned : owned' = owned \ {vm} /\ alive' = alive \ {vm}
    /\ UNCHANGED <<pc, name, number, calls, opened, granted>>
GivesUp(t) == Goes(t, {"open"}, {"idle"}) /\ UNCHANGED resources
Opens(t) ==
    /\ Goes(t, {"open"}, {"symbol"}) /\ name[t] \in Libraries
    /\ OpenCount(name[t], 1) /\ UNCHANGED <<granted, alive, owned>>
WorksWithout(t) ==
    /\ Goes(t, {"symbol", "create"}, {"create", "unknown", "close"})
    /\ pc'[t] = "create" => pc[t] = "symbol"
    /\ UNCHANGED resources
WorksWith(t) == Goes(t, WithVM, WithVM) /\ UNCHANGED resources
Creates(t) ==
    /\ Goes(t, {"create"}, {"check"})
    /\ alive' = alive \cup {VM(t)} /\ UNCHANGED <<opened, granted, owned>>
Grants(t) ==
    /\ Grant(t) /\ UNCHANGED <<opened, alive>>
    /\ \/ Goes(t, {"symbol"}, {"idle"}) /\ UNCHANGED owned
       \/ Goes(t, WithVM, {"idle"}) /\ owned' = owned \cup {VM(t)}
Destroys(t) ==
    /\ Goes(t, {"destroy"}, {"close"})
    /\ alive' = alive \ {VM(t)} /\ UNCHANGED <<opened, granted, owned>>
Closes(t) ==
    /\ Goes(t, {"unknown", "close"}, {"idle"})
    /\ OpenCount(name[t], -1) /\ UNCHANGED <<granted, alive, owned>>

Shape(t) ==
    \/ Starts(t) \/ Stays(t) \/ UserDestroys(t) \/ GivesUp(t) \/ Opens(t) \/ WorksWithout(t)
    \/ WorksWith(t) \/ Creates(t) \/ Grants(t) \/ Destroys(t) \/ Closes(t)

LEMMA Shapes ==
    ASSUME Types, NEW t \in Threads, User(t) \/ Progress(t)
    PROVE  Shape(t) /\ OthersKept(t)
<1> USE DEF Types, Goto, Return, called, resources, Goes, OthersKept
<1>1. CASE InvalidArgument(t) BY <1>1 DEF InvalidArgument, Call, Shape, Starts
<1>2. CASE Begin(t) BY <1>2 DEF Begin, Call, Shape, Starts
<1>3. CASE TakeMessage(t) BY <1>3 DEF TakeMessage, Shape, Stays
<1>4. CASE DestroyOwned(t) BY <1>4 DEF DestroyOwned, Shape, UserDestroys
<1>5. CASE Open(t) BY <1>5 DEF Open, Shape, Opens
<1>6. CASE CannotOpen(t) BY <1>6 DEF CannotOpen, Shape, GivesUp
<1>7. CASE FindFunction(t)
  BY <1>7 DEF FindFunction, Shape, WorksWithout, Grants, Grant
<1>8. CASE NoFunction(t) BY <1>8 DEF NoFunction, Shape, WorksWithout
<1>9. CASE CloseUnknown(t) BY <1>9 DEF CloseUnknown, Shape, Closes
<1>10. CASE Create(t) BY <1>10 DEF Create, Shape, Creates
<1>11. CASE CreateFails(t) BY <1>11 DEF CreateFails, Shape, WorksWithout
<1>12. CASE CheckVersion(t)
  BY <1>12 DEF CheckVersion, HandOver, Shape, WorksWith, Grants, WithVM
<1>13. CASE WrongVersion(t) BY <1>13 DEF WrongVersion, Shape, WorksWith, WithVM
<1>14. CASE SetOption(t) BY <1>14 DEF SetOption, Shape, Stays
<1>15. CASE OptionFails(t) BY <1>15 DEF OptionFails, Shape, WorksWith, WithVM
<1>16. CASE Configured(t) BY <1>16 DEF Configured, HandOver, Shape, Grants, WithVM
<1>17. CASE Destroy(t) BY <1>17 DEF Destroy, Shape, Destroys
<1>18. CASE Close(t) BY <1>18 DEF Close, Shape, Closes
<1> QED BY <1>1, <1>2, <1>3, <1>4, <1>5, <1>6, <1>7, <1>8, <1>9, <1>10, <1>11, <1>12, <1>13, <1>14,
           <1>15, <1>16, <1>17, <1>18 DEF User, Progress, Load, CreateAndConfigure

----------------------------------------------------------------------------
LEMMA NumberedKept ==
    ASSUME Types, Numbered, NoOrphans, NEW t \in Threads, Shape(t), OthersKept(t)
    PROVE  Numbered'
<1> USE DEF Types, Numbered, OthersKept, Goes, resources
<1>1. CASE Starts(t) BY <1>1 DEF Starts
<1>2. CASE Stays(t) BY <1>2 DEF Stays
<1>3. CASE UserDestroys(t) BY <1>3 DEF UserDestroys
<1>4. CASE GivesUp(t) BY <1>4 DEF GivesUp
<1>5. CASE Opens(t) BY <1>5 DEF Opens
<1>6. CASE WorksWithout(t) BY <1>6 DEF WorksWithout
<1>7. CASE WorksWith(t) BY <1>7 DEF WorksWith, WithVM
<1>8. CASE Creates(t) BY <1>8 DEF Creates, VM
<1>9. CASE Grants(t) BY <1>9 DEF Grants, WithVM
<1>10. CASE Destroys(t) BY <1>10 DEF Destroys
<1>11. CASE Closes(t) BY <1>11 DEF Closes
<1> QED BY <1>1, <1>2, <1>3, <1>4, <1>5, <1>6, <1>7, <1>8, <1>9, <1>10, <1>11 DEF Shape

\* The VMs of different threads at work are different, since their calls are.
LEMMA OwnVM ==
    ASSUME Types, Numbered, NEW t \in Threads, NEW u \in Threads, pc[t] # "idle", t # u
    PROVE  VM(t) # VM(u)
<1>1. number[t] # number[u]
  BY DEF Numbered, Types
<1> QED BY <1>1 DEF VM

LEMMA PlacedKept ==
    ASSUME Types, Numbered, Placed, NoOrphans, NEW t \in Threads, Shape(t), OthersKept(t)
    PROVE  Placed'
<1>0. \A u \in Threads \ {t} : VM(u)' = VM(u) /\ (pc[t] # "idle" => VM(t) # VM(u))
  BY OwnVM DEF OthersKept, VM
<1> USE DEF Types, Placed, OthersKept, Goes, resources, WithVM
<1>1. CASE Starts(t) BY <1>0, <1>1 DEF Starts
<1>2. CASE Stays(t) BY <1>0, <1>2 DEF Stays, VM
<1>3. CASE UserDestroys(t) BY <1>0, <1>3 DEF UserDestroys, VM
<1>4. CASE GivesUp(t) BY <1>0, <1>4 DEF GivesUp
<1>5. CASE Opens(t) BY <1>0, <1>5 DEF Opens
<1>6. CASE WorksWithout(t) BY <1>0, <1>6 DEF WorksWithout
<1>7. CASE WorksWith(t) BY <1>0, <1>7 DEF WorksWith, VM
<1>8. CASE Creates(t)
  <2>1. VM(t) \notin alive /\ VM(t)' = VM(t)
    BY <1>8 DEF Creates, Numbered, VM
  <2> QED BY <1>0, <1>8, <2>1 DEF Creates, NoOrphans
<1>9. CASE Grants(t) BY <1>0, <1>9 DEF Grants
<1>10. CASE Destroys(t) BY <1>0, <1>10 DEF Destroys
<1>11. CASE Closes(t) BY <1>0, <1>11 DEF Closes
<1> QED BY <1>1, <1>2, <1>3, <1>4, <1>5, <1>6, <1>7, <1>8, <1>9, <1>10, <1>11 DEF Shape

LEMMA NoOrphansKept ==
    ASSUME Types, Numbered, Placed, NoOrphans, NEW t \in Threads, Shape(t), OthersKept(t)
    PROVE  NoOrphans'
<1>0. \A u \in Threads \ {t} : VM(u)' = VM(u) /\ pc'[u] = pc[u]
  BY DEF OthersKept, VM
<1> USE DEF NoOrphans, Types, Goes, resources, WithVM
<1>1. CASE Starts(t) BY <1>0, <1>1 DEF Starts
<1>2. CASE Stays(t) BY <1>0, <1>2 DEF Stays, VM
<1>3. CASE UserDestroys(t) BY <1>0, <1>3 DEF UserDestroys, VM
<1>4. CASE GivesUp(t) BY <1>0, <1>4 DEF GivesUp
<1>5. CASE Opens(t) BY <1>0, <1>5 DEF Opens
<1>6. CASE WorksWithout(t) BY <1>0, <1>6 DEF WorksWithout
<1>7. CASE WorksWith(t) BY <1>0, <1>7 DEF WorksWith, VM
<1>8. CASE Creates(t) BY <1>0, <1>8 DEF Creates, VM
<1>9. CASE Grants(t) BY <1>0, <1>9 DEF Grants, Placed
<1>10. CASE Destroys(t) BY <1>0, <1>10 DEF Destroys, Placed
<1>11. CASE Closes(t) BY <1>0, <1>11 DEF Closes
<1> QED BY <1>1, <1>2, <1>3, <1>4, <1>5, <1>6, <1>7, <1>8, <1>9, <1>10, <1>11 DEF Shape

LEMMA GrantedKept ==
    ASSUME Types, Numbered, Placed, Granted, NEW t \in Threads, Shape(t)
    PROVE  Granted'
<1> USE DEF Granted, Types, Goes, resources
<1>1. CASE Grants(t)
  <2>1. name[t] \in Libraries /\ granted' = [granted EXCEPT ![name[t]] = @ + 1]
    BY <1>1 DEF Grants, Grant, Placed, WithVM
  <2>2. ASSUME NEW vm \in owned' PROVE vm \in owned \/ vm.library = name[t]
    BY <1>1, <2>2 DEF Grants, VM
  <2>3. owned \subseteq [call : 1 .. MaxCalls, library : Libraries]
    OBVIOUS
  <2> QED BY <2>1, <2>2, <2>3
<1>2. CASE ~Grants(t)
  BY <1>2 DEF Shape, Starts, Stays, UserDestroys, GivesUp, Opens, WorksWithout, WorksWith, Creates,
              Destroys, Closes
<1> QED BY <1>1, <1>2

----------------------------------------------------------------------------
\* The threads that have a library open.
Users(library) == {t \in Threads : Holds(t, library)}

LEMMA UsersCount ==
    ASSUME NEW library
    PROVE  /\ IsFiniteSet(Users(library)) /\ Cardinality(Users(library)) \in Nat
           /\ \A t \in Users(library) : Cardinality(Users(library)) > 0
           /\ \A t : IsFiniteSet(Users(library) \ {t})
<1>1. IsFiniteSet(Users(library))
  BY LoaderAssumption, FS_Subset DEF Users
<1>2. Cardinality(Users(library)) \in Nat
  BY <1>1, FS_CardinalityType
<1>3. ASSUME NEW t \in Users(library) PROVE Cardinality(Users(library)) > 0
  BY <1>1, <1>2, <1>3, FS_EmptySet
<1>4. ASSUME NEW t PROVE IsFiniteSet(Users(library) \ {t})
  BY <1>1, FS_RemoveElement
<1> QED BY <1>1, <1>2, <1>3, <1>4

LEMMA BalancedKept ==
    ASSUME Types, Placed, LibrariesBalanced, NEW t \in Threads, Shape(t), OthersKept(t)
    PROVE  LibrariesBalanced'
<1> SUFFICES ASSUME NEW library \in Libraries
             PROVE  opened'[library] = granted'[library] + Cardinality(Users(library)')
  BY DEF LibrariesBalanced, Users, Holds
<1>1. opened[library] = granted[library] + Cardinality(Users(library))
  BY DEF LibrariesBalanced, Users
<1>2. /\ opened[library] \in Int /\ granted[library] \in Nat
      /\ Cardinality(Users(library)) \in Nat /\ IsFiniteSet(Users(library))
  BY UsersCount DEF Types
<1>3. \A u \in Threads \ {t} : u \in Users(library)' <=> u \in Users(library)
  BY DEF OthersKept, Users, Holds
<1> USE DEF Types, Goes, resources
\* The thread does not open or close this library.
<1>4. ASSUME t \in Users(library)' <=> t \in Users(library),
             opened'[library] = opened[library], granted'[library] = granted[library]
      PROVE  opened'[library] = granted'[library] + Cardinality(Users(library)')
  <2>1. Users(library)' = Users(library)
    BY <1>3, <1>4 DEF Users
  <2> QED BY <1>1, <1>4, <2>1
<1>5. CASE Opens(t) /\ name[t] = library
  <2>1. t \notin Users(library) /\ t \in Users(library)'
    BY <1>5 DEF Opens, Users, Holds
  <2>2. Users(library)' = Users(library) \cup {t}
    BY <2>1, <1>3 DEF Users
  <2>3. Cardinality(Users(library)') = Cardinality(Users(library)) + 1
    BY <2>1, <2>2, <1>2, FS_AddElement
  <2>4. opened'[library] = opened[library] + 1 /\ granted' = granted
    BY <1>5 DEF Opens, OpenCount
  <2> QED BY <1>1, <1>2, <2>3, <2>4
\* The thread closes this library, or hands what it opened to its user.
<1>6. CASE (Closes(t) \/ Grants(t)) /\ name[t] = library
  <2>1. t \in Users(library) /\ t \notin Users(library)'
    BY <1>6 DEF Closes, Grants, Users, Holds, WithVM
  <2>2. Users(library)' = Users(library) \ {t}
    BY <2>1, <1>3 DEF Users
  <2>3. Cardinality(Users(library)') = Cardinality(Users(library)) - 1
    BY <2>1, <2>2, <1>2, FS_RemoveElement
  <2>4. \/ opened'[library] = opened[library] - 1 /\ granted' = granted
        \/ opened' = opened /\ granted'[library] = granted[library] + 1
    BY <1>6 DEF Closes, Grants, OpenCount, Grant
  <2> QED BY <1>1, <1>2, <2>3, <2>4
<1>7. CASE (Opens(t) \/ Closes(t) \/ Grants(t)) /\ name[t] # library
  <2>1. opened'[library] = opened[library] /\ granted'[library] = granted[library]
    BY <1>7 DEF Opens, Closes, Grants, OpenCount, Grant
  <2>2. name' = name
    BY <1>7 DEF Opens, Closes, Grants
  <2> QED BY <1>4, <1>7, <2>1, <2>2 DEF Users, Holds
<1>8. CASE ~(Opens(t) \/ Closes(t) \/ Grants(t))
  <2>1. opened' = opened /\ granted' = granted
    BY <1>8 DEF Shape, Starts, Stays, UserDestroys, GivesUp, WorksWithout, WorksWith, Creates, Destroys
  <2>2. t \in Users(library)' <=> t \in Users(library)
    BY <1>8 DEF Shape, Starts, Stays, UserDestroys, GivesUp, WorksWithout, WorksWith, Creates, Destroys,
                WithVM, Users, Holds
  <2> QED BY <1>4, <2>1, <2>2
<1> QED BY <1>5, <1>6, <1>7, <1>8

----------------------------------------------------------------------------
\* The invariant of the loader.
THEOREM Invariant == Spec => []IInv
<1>1. Init => IInv
  <2> SUFFICES ASSUME Init PROVE IInv
    OBVIOUS
  <2>1. Types /\ Numbered /\ Placed /\ NoOrphans /\ Granted
    BY LoaderAssumption
    DEF Init, Types, Numbered, Placed, NoOrphans, Granted, Location, Function, Code
  <2>2. ASSUME NEW library \in Libraries PROVE Cardinality(Users(library)) = 0
    <3>1. Users(library) = {}
      BY DEF Init, Users, Holds
    <3> QED BY <3>1, FS_EmptySet
  <2>3. LibrariesBalanced
    BY <2>2 DEF LibrariesBalanced, Init, Users
  <2> QED BY <2>1, <2>3 DEF IInv
<1>2. IInv /\ [Next]_vars => IInv'
  <2>1. ASSUME IInv, NEW t \in Threads, User(t) \/ Progress(t) PROVE IInv'
    <3>1. Types'
      BY <2>1, TypesKept DEF IInv
    <3>2. Shape(t) /\ OthersKept(t)
      BY <2>1, Shapes DEF IInv
    <3> QED BY <2>1, <3>1, <3>2, NumberedKept, PlacedKept, NoOrphansKept, GrantedKept, BalancedKept
            DEF IInv
  <2>2. ASSUME IInv, UNCHANGED vars PROVE IInv'
    BY <2>2 DEF vars, IInv, Types, Numbered, Placed, NoOrphans, Granted, LibrariesBalanced, VM, Holds
  <2> QED BY <2>1, <2>2 DEF Next
<1> QED BY <1>1, <1>2, PTL DEF Spec

\* The types; counts of the dynamic loader are never negative: no library is closed too often.
THEOREM TypeCorrect == Spec => []TypeOK
<1>1. IInv => TypeOK
  <2> SUFFICES ASSUME IInv PROVE TypeOK
    OBVIOUS
  <2>1. ASSUME NEW library \in Libraries PROVE opened[library] \in Nat
    <3>1. opened[library] = granted[library] + Cardinality(Users(library))
      BY DEF IInv, LibrariesBalanced, Users
    <3>2. granted[library] \in Nat /\ Cardinality(Users(library)) \in Nat
      BY UsersCount DEF IInv, Types
    <3> QED BY <3>1, <3>2
  <2> QED BY <2>1 DEF IInv, Types, TypeOK
<1> QED BY <1>1, Invariant, PTL

\* load_internal() and its callers close a library on every error path, exactly once.
THEOREM LibrariesAlwaysBalanced == Spec => []LibrariesBalanced
<1>1. IInv => LibrariesBalanced
  BY DEF IInv
<1> QED BY <1>1, Invariant, PTL

\* The error paths destroy the VM they created, and only that.
THEOREM NeverOrphans == Spec => []NoOrphans
<1>1. IInv => NoOrphans
  BY DEF IInv
<1> QED BY <1>1, Invariant, PTL

\* No thread unmaps the code of a VM that exists: it is destroyed before its library is closed.
THEOREM VMsAlwaysMapped == Spec => []VMsMapped
<1>1. IInv => VMsMapped
  <2> SUFFICES ASSUME IInv, NEW vm \in alive PROVE opened[vm.library] > 0
    BY DEF VMsMapped
  <2> DEFINE library == vm.library
  <2>1. library \in Libraries
    BY DEF IInv, Types
  <2>2. /\ opened[library] = granted[library] + Cardinality(Users(library))
        /\ granted[library] \in Nat /\ Cardinality(Users(library)) \in Nat
    BY <2>1, UsersCount DEF IInv, Types, LibrariesBalanced, Users
  <2>3. CASE vm \in owned
    BY <2>2, <2>3 DEF IInv, Granted
  <2>4. CASE vm \notin owned
    <3>1. PICK t \in Threads : pc[t] \in {"check", "configure", "destroy"} /\ vm = VM(t)
      BY <2>4 DEF IInv, NoOrphans
    <3>2. t \in Users(library)
      BY <3>1 DEF Users, Holds, VM
    <3> QED BY <2>2, <3>2, UsersCount
  <2> QED BY <2>3, <2>4
<1> QED BY <1>1, Invariant, PTL

----------------------------------------------------------------------------
\* What a thread reports: until its call fails it has no message, and once it fails it has
\* stored the error.
Reports(t) ==
    /\ message[t] \in {0, number[t]}
    /\ pc[t] \in {"open", "symbol", "unknown", "create", "check", "configure"} => message[t] = 0
    /\ pc[t] \in {"destroy", "close"} => code[t] \notin {"SUCCESS", "UNSPECIFIED_ERROR"}
    /\ pc[t] = "idle" /\ number[t] > 0 => (result[t] # "null" <=> code[t] = "SUCCESS")
    /\ pc[t] = "idle" /\ number[t] > 0 => code[t] # "UNSPECIFIED_ERROR"
    /\ pc[t] = "idle" /\ code[t] = "SUCCESS" => message[t] = 0

\* A step changes nothing that another thread reports.
LEMMA OtherReports ==
    ASSUME Types, NEW t \in Threads, User(t) \/ Progress(t), NEW u \in Threads, t # u
    PROVE  /\ message'[u] = message[u] /\ number'[u] = number[u] /\ pc'[u] = pc[u]
           /\ code'[u] = code[u] /\ result'[u] = result[u]
BY DEF Types, User, Progress, Load, CreateAndConfigure, InvalidArgument, Begin, TakeMessage, DestroyOwned,
       Open, CannotOpen, FindFunction, NoFunction, CloseUnknown, Create, CreateFails, CheckVersion,
       WrongVersion, SetOption, OptionFails, Configured, Destroy, Close,
       Call, Report, Goto, Return, SetError, ErrorSlot, HandOver, called

LEMMA OwnReports ==
    ASSUME Types, NEW t \in Threads, Reports(t), User(t) \/ Progress(t)
    PROVE  Reports(t)'
<1> USE DEF Types, Reports, Call, Report, Goto, Return, SetError, ErrorSlot, called
<1>1. CASE InvalidArgument(t) BY <1>1 DEF InvalidArgument
<1>2. CASE Begin(t) BY <1>2 DEF Begin
<1>3. CASE TakeMessage(t) BY <1>3 DEF TakeMessage
<1>4. CASE DestroyOwned(t) BY <1>4 DEF DestroyOwned
<1>5. CASE Open(t) BY <1>5 DEF Open
<1>6. CASE CannotOpen(t) BY <1>6 DEF CannotOpen
<1>7. CASE FindFunction(t) BY <1>7 DEF FindFunction
<1>8. CASE NoFunction(t) BY <1>8 DEF NoFunction
<1>9. CASE CloseUnknown(t) BY <1>9 DEF CloseUnknown
<1>10. CASE Create(t) BY <1>10 DEF Create
<1>11. CASE CreateFails(t) BY <1>11 DEF CreateFails
<1>12. CASE CheckVersion(t) BY <1>12 DEF CheckVersion, HandOver
<1>13. CASE WrongVersion(t) BY <1>13 DEF WrongVersion
<1>14. CASE SetOption(t) BY <1>14 DEF SetOption
<1>15. CASE OptionFails(t) BY <1>15 DEF OptionFails
<1>16. CASE Configured(t) BY <1>16 DEF Configured, HandOver
<1>17. CASE Destroy(t) BY <1>17 DEF Destroy
<1>18. CASE Close(t) BY <1>18 DEF Close
<1> QED BY <1>1, <1>2, <1>3, <1>4, <1>5, <1>6, <1>7, <1>8, <1>9, <1>10, <1>11, <1>12, <1>13, <1>14,
           <1>15, <1>16, <1>17, <1>18 DEF User, Progress, Load, CreateAndConfigure

\* Errors stay with their thread and its last call, agree with what was returned, and leave no
\* message behind a success.
THEOREM ErrorsReported == Spec => []ErrorsTrue
<1> DEFINE AllReport == \A t \in Threads : Reports(t)
<1>1. Init => AllReport
  BY DEF Init, Reports
<1>2. IInv /\ AllReport /\ [Next]_vars => AllReport'
  <2>1. ASSUME IInv, AllReport, NEW t \in Threads, User(t) \/ Progress(t), NEW u \in Threads
        PROVE  Reports(u)'
    <3>1. CASE t = u
      BY <2>1, <3>1, OwnReports DEF IInv
    <3>2. CASE t # u
      BY <2>1, <3>2, OtherReports DEF IInv, Reports
    <3> QED BY <3>1, <3>2
  <2>2. ASSUME AllReport, UNCHANGED vars PROVE AllReport'
    BY <2>2 DEF vars, Reports
  <2> QED BY <2>1, <2>2 DEF Next
<1>3. IInv /\ AllReport => ErrorsTrue
  BY DEF Reports, ErrorsTrue, ErrorsOwn, SuccessHasNoMessage, ResultMatchesCode, ErrorSlot
<1> HIDE DEF AllReport
<1> QED BY <1>1, <1>2, <1>3, Invariant, PTL DEF Spec
=============================================================================

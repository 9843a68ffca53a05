----------------------------- MODULE BoundHost ------------------------------
(***************************************************************************)
(* The way from a VM to a host object (include/qrvmc/qrvmc.hpp): a VM calls *)
(* a member of the C table qrvmc_host_interface, a VM written in C++ through *)
(* a HostContext; the table holds the trampolines of qrvmc::internal, which *)
(* call the virtual method of the Host, here MockedHost.                    *)
(*                                                                          *)
(* The table is initialised by position, and members of the same type (as   *)
(* get_balance and get_code_hash) may be swapped there unnoticed.           *)
(***************************************************************************)
EXTENDS MockedHost

CONSTANT TopicLists  \* what a VM may pass as topics: [null, list]

\* Topics are natural numbers.
ASSUME TopicsAssumption == TopicLists \subseteq [null : BOOLEAN, list : Seq(Nat)]

VARIABLES
    asked,  \* the member a VM has called last, its address and its topics
    topics  \* the topics that this call has added to recorded_logs

boundVars == <<vars, asked, topics>>

\* struct qrvmc_host_interface.
Members == <<"account_exists", "get_storage", "set_storage", "get_balance", "get_code_size",
             "get_code_hash", "copy_code", "call", "get_tx_context", "get_block_hash",
             "emit_log", "access_account", "access_storage">>

\* Mutant of Interface: two functions of the same type are swapped.
InterfaceSwapped ==
    <<"account_exists", "get_storage", "set_storage", "get_code_hash", "get_code_size",
      "get_balance", "copy_code", "call", "get_tx_context", "get_block_hash",
      "emit_log", "access_account", "access_storage">>

\* Host::get_interface: the trampoline at each member's place.
Interface == <<"account_exists", "get_storage", "set_storage", "get_balance", "get_code_size",
               "get_code_hash", "copy_code", "call", "get_tx_context", "get_block_hash",
               "emit_log", "access_account", "access_storage">>

MaxLogTopics == 4
NoTopics == [null |-> FALSE, list |-> <<>>]

\* Mutant of Copied: a null array is read.
CopiedUnchecked(t) ==
    [null |-> FALSE,
     list |-> SubSeq(t.list, 1, IF Len(t.list) <= MaxLogTopics THEN Len(t.list) ELSE MaxLogTopics)]

\* The array of at most four topics that emit_log of HostContext, and that of the trampoline,
\* put together; it is never null.
Copied(t) ==
    IF t.null THEN NoTopics
    ELSE [null |-> FALSE,
          list |-> SubSeq(t.list, 1, IF Len(t.list) <= MaxLogTopics THEN Len(t.list) ELSE MaxLogTopics)]

----------------------------------------------------------------------------
\* The trampolines: each calls the method of the host with the arguments it got.
OnAccount(trampoline, addr) ==
    \/ trampoline = "account_exists" /\ AccountExists(addr)
    \/ trampoline = "get_balance" /\ GetBalance(addr)
    \/ trampoline = "get_code_size" /\ GetCodeSize(addr)
    \/ trampoline = "get_code_hash" /\ GetCodeHash(addr)
    \/ trampoline = "call" /\ Call(addr)
    \/ trampoline = "access_account" /\ AccessAccount(addr)
    \/ trampoline = "copy_code" /\ \E b \in Buffers : CopyCode(addr, b)

OnStorage(trampoline, addr) ==
    \E key \in Key :
      \/ trampoline = "get_storage" /\ GetStorage(addr, key)
      \/ trampoline = "set_storage" /\ \E value \in Values : SetStorage(addr, key, value)
      \/ trampoline = "access_storage" /\ AccessStorage(addr, key)

OnBlock(trampoline) ==
    \/ trampoline = "get_tx_context" /\ GetTxContext
    \/ trampoline = "get_block_hash" /\ \E number \in Blocks : GetBlockHash(number)

\* The trampoline of emit_log; a VM that uses a HostContext has its topics copied there too.
OnLog(member, trampoline, addr) ==
    /\ trampoline = "emit_log"
    /\ \E t \in TopicLists, context \in BOOLEAN :
         /\ topics' = Copied(IF context THEN Copied(t) ELSE t).list
         /\ asked' = [member |-> member, addr |-> addr, topics |-> t]
    /\ EmitLog(addr)

\* A VM calls the i-th member of the table it was given.
CallMember(i, addr) ==
    \/ OnLog(Members[i], Interface[i], addr)
    \/ /\ \/ OnAccount(Interface[i], addr)
          \/ OnStorage(Interface[i], addr)
          \/ OnBlock(Interface[i]) /\ addr = AnyAddress
       /\ asked' = [member |-> Members[i], addr |-> addr, topics |-> NoTopics]
       /\ topics' = <<>>

BoundInit ==
    /\ Init
    /\ asked = [member |-> "none", addr |-> AnyAddress, topics |-> NoTopics]
    /\ topics = <<>>

BoundNext == \E i \in 1 .. Len(Members), addr \in Address : CallMember(i, addr)

BoundSpec == BoundInit /\ [][BoundNext]_boundVars

----------------------------------------------------------------------------
\* What a VM asks is what the host answers: the method and the account of the answer are
\* those of the member called, and a log is recorded with the first four topics the VM
\* passed, or none for a null array, whether they were copied once or twice on the way.
\* (Host::get_interface() lists the functions by position, and the compiler accepts any
\* order of those with the same type.)
TopicsArrive ==
    LET sent == IF asked.topics.null THEN <<>> ELSE asked.topics.list
    IN  /\ Len(topics) = (IF Len(sent) <= 4 THEN Len(sent) ELSE 4)
        /\ \A i \in 1 .. Len(topics) : topics[i] = sent[i]

CallsArrive == reply.method = asked.member /\ reply.addr = asked.addr /\ TopicsArrive
=============================================================================

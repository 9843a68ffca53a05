---------------------------- MODULE ExampleHost ----------------------------
(***************************************************************************)
(* examples/example_host.cpp: a Host with an account map and nothing else.  *)
(* Every lookup is one of std::map, by operator< of the key.                *)
(***************************************************************************)
EXTENDS CppValues

CONSTANTS
    Address, Key, Values,
    History,      \* block_hash_history
    BlockNumber,  \* tx_context.block_number
    Blocks,       \* block numbers to ask for
    BlockHash,    \* the hash of every known block
    Buffers,      \* requests of copy_code: [offset, size, null]
    MaxRequests   \* bound: Host calls in a behaviour

Slot == Address \X Key

ASSUME ExampleHostAssumption ==
    /\ Address \subseteq Bytes /\ Key \subseteq Bytes /\ Values \subseteq Bytes
    /\ ZeroBytes \in Values /\ BlockHash \in Values
    /\ History \in Nat /\ MaxRequests \in Nat
    /\ BlockNumber \in Int /\ Blocks \subseteq Int
    /\ \A request \in Buffers : request.offset \in Nat /\ request.size \in Nat

VARIABLES
    accounts,  \* the account map
    reply,     \* the last method called, its subject and its answer
    requests   \* history: Host calls so far

hostVars == <<accounts, reply, requests>>

\* An answer is a status, a value or a number.
Reply(method, slot, status, word, number) ==
    [method |-> method, slot |-> slot, status |-> status, word |-> word, number |-> number]
NoSlot == <<>>
NoReply == Reply("none", NoSlot, "none", ZeroBytes, 0)

----------------------------------------------------------------------------
Exists(addr) == Found(accounts, addr) # {}
\* An account's code is its size; its hash is that of the code.
EmptyAccount ==
    [balance |-> ZeroBytes, codesize |-> 0, codehash |-> ZeroBytes,
     storage |-> [k \in {} |-> ZeroBytes]]
\* The account, or the one accounts[addr] would make.
AccountAt(addr) == Lookup(accounts, addr, EmptyAccount)

StoredValue(addr, key) == Lookup(AccountAt(addr).storage, key, ZeroBytes)

\* Mutant of Stored: an account that is missing is not created.
StoredIfThere(addr, key, value) ==
    IF ~Exists(addr) THEN accounts
    ELSE Insert(accounts, addr,
                [AccountAt(addr) EXCEPT !.storage = Insert(@, key, value)])

\* accounts[addr].storage[key] = value.
Stored(addr, key, value) ==
    Insert(accounts, addr, [AccountAt(addr) EXCEPT !.storage = Insert(@, key, value)])

Answer(r) ==
    /\ requests < MaxRequests
    /\ requests' = requests + 1 /\ reply' = r

\* A method that changes nothing.
Ask(method, status, word, number) ==
    Answer(Reply(method, NoSlot, status, word, number)) /\ UNCHANGED accounts
AskStatus(method, status) == Ask(method, status, ZeroBytes, 0)
AskWord(method, word) == Ask(method, "none", word, 0)
AskNumber(method, number) == Ask(method, "none", ZeroBytes, number)

----------------------------------------------------------------------------
AccountExists(addr) == AskStatus("account_exists", IF Exists(addr) THEN "true" ELSE "false")

GetBalance(addr) == AskWord("get_balance", AccountAt(addr).balance)

CodeSize(addr) == AccountAt(addr).codesize
GetCodeSize(addr) == AskNumber("get_code_size", CodeSize(addr))

GetCodeHash(addr) == AskWord("get_code_hash", AccountAt(addr).codehash)

\* The bytes copy_code() writes and returns; the buffer is null or not.
CopiedBytes(codesize, request) ==
    IF request.offset >= codesize \/ request.null THEN 0
    ELSE IF request.size <= codesize - request.offset THEN request.size
    ELSE codesize - request.offset
CopyCode(addr, request) == AskNumber("copy_code", CopiedBytes(CodeSize(addr), request))

GetStorage(addr, key) ==
    /\ Answer(Reply("get_storage", <<addr, key>>, "none", StoredValue(addr, key), 0))
    /\ UNCHANGED accounts

\* The status is the new value compared to the current one, whatever the original was.
SetStorage(addr, key, value) ==
    /\ Answer(Reply("set_storage", <<addr, key>>,
                    IF Equal(StoredValue(addr, key), value) THEN "ASSIGNED" ELSE "MODIFIED",
                    value, 0))
    /\ accounts' = Stored(addr, key, value)

\* Every call is reverted, with all of its gas and with its input as output.
Call == AskStatus("call", "REVERT")

GetTxContext == AskNumber("get_tx_context", BlockNumber)

\* Blocks of the past as far as the history reaches.
KnownBlock(number) ==
    number >= 0 /\ number < BlockNumber /\ BlockNumber - number <= History
GetBlockHash(number) ==
    AskWord("get_block_hash", IF KnownBlock(number) THEN BlockHash ELSE ZeroBytes)

EmitLog == AskStatus("emit_log", "none")

\* Neither of the two looks at what was accessed before.
AccessAccount == AskStatus("access_account", "COLD")
AccessStorage == AskStatus("access_storage", "COLD")

----------------------------------------------------------------------------
\* As example_host_create_context() makes it: no method gives an account code or balance.
HostInit ==
    /\ accounts = [addr \in {} |-> EmptyAccount]
    /\ reply = NoReply /\ requests = 0

HostNext ==
    \/ \E addr \in Address :
         \/ AccountExists(addr) \/ GetBalance(addr) \/ GetCodeSize(addr) \/ GetCodeHash(addr)
         \/ \E request \in Buffers : CopyCode(addr, request)
    \/ \E addr \in Address, key \in Key :
         GetStorage(addr, key) \/ (\E value \in Values : SetStorage(addr, key, value))
    \/ Call \/ GetTxContext \/ EmitLog \/ AccessAccount \/ AccessStorage
    \/ \E number \in Blocks : GetBlockHash(number)

----------------------------------------------------------------------------
\* What a VM sees of the storage.
StorageView == [slot \in Slot |-> StoredValue(slot[1], slot[2])]
LastStorageCall ==
    IF reply.method \in {"get_storage", "set_storage"}
    THEN [method |-> reply.method, slot |-> reply.slot, value |-> reply.word]
    ELSE [method |-> "other"]
Storage == INSTANCE HostStorage WITH view <- StorageView, last <- LastStorageCall

\* The storage is the map a VM expects: accounts and slots whose addresses and keys differ
\* anywhere are different, those the host does not have are zero, and a write is to one slot.
\* The comparison operators decide which entry of the nested std::map a lookup finds.
ImplementsHostStorage == Storage!Spec
=============================================================================

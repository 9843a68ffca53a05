----------------------------- MODULE MockedHost -----------------------------
(***************************************************************************)
(* include/qrvmc/mocked_host.hpp: the Host that keeps accounts in memory,   *)
(* records what a VM asks of it, and answers the access queries of EIP-2929 *)
(* and the storage changes of EIP-2200.  One action per Host method; a VM   *)
(* may make any call at any time.  Histories keep what the answers must be  *)
(* consistent with.                                                         *)
(*                                                                          *)
(* The buffers behind recorded_calls are the subject of RecordedCalls.      *)
(***************************************************************************)
EXTENDS StorageStatus, Sequences

CONSTANTS
    Address, Key,    \* accounts and storage keys
    Precompiles,     \* the addresses 1..9
    InitialAccounts, \* the account maps a user may set the host up with
    MaxRecorded,     \* max_recorded_account_accesses
    MaxCalls,        \* max_recorded_calls
    BlockHash,       \* the value of block_hash
    Blocks,          \* block numbers to ask for
    Buffers,         \* requests of copy_code: [offset, size, null]
    MaxRequests      \* bound: Host calls in a behaviour

Access == {"COLD", "WARM"}
StorageValue == [current : Values, original : Values, access : Access]
Slot == Address \X Key

\* Maps are functions on what they hold, an account's code is its size.
Account(keys) == [balance : Values, codesize : Nat, codehash : Values,
                  storage : [keys -> StorageValue]]

ASSUME HostAssumption ==
    /\ Precompiles \subseteq Address
    /\ MaxRecorded \in Nat /\ MaxCalls \in Nat /\ MaxRequests \in Nat
    /\ BlockHash \in Values
    /\ Blocks \subseteq Int
    /\ Buffers \subseteq [offset : Nat, size : Nat, null : BOOLEAN]
    /\ \A map \in InitialAccounts :
         /\ DOMAIN map \subseteq Address
         /\ \A a \in DOMAIN map : \E keys \in SUBSET Key : map[a] \in Account(keys)

VARIABLES
    accounts,     \* the account map
    accesses,     \* recorded_account_accesses
    calls,        \* the recipients in recorded_calls
    blockhashes,  \* recorded_blockhashes
    logs,         \* the creators in recorded_logs
    reply,        \* the last method called, its subject and its answer
    requests,     \* history: Host calls so far
    touched,      \* history: the addresses given to a method that records them
    warmed,       \* history: the addresses access_account answered WARM for
    cold,         \* history: how often access_storage answered COLD for a slot
    meter         \* history: gas charged and refunded for the changes of a slot

vars == <<accounts, accesses, calls, blockhashes, logs, reply, requests, touched, warmed,
          cold, meter>>
store == <<accounts, warmed, cold, meter>>
logged == <<calls, blockhashes, logs>>

\* Answers: a status, a word or a size, as the method has it.
Reply(method, addr, key, status, word, size) ==
    [method |-> method, addr |-> addr, key |-> key, status |-> status, word |-> word,
     size |-> size]
AnyAddress == CHOOSE a \in Address : TRUE
AnyKey == CHOOSE k \in Key : TRUE
NoReply == Reply("none", AnyAddress, AnyKey, "none", Zero, 0)

----------------------------------------------------------------------------
Exists(addr) == addr \in DOMAIN accounts
HasSlot(addr, key) == Exists(addr) /\ key \in DOMAIN accounts[addr].storage

EmptyAccount == [balance |-> Zero, codesize |-> 0, codehash |-> Zero, storage |-> [k \in {} |-> 0]]
EmptyValue == [current |-> Zero, original |-> Zero, access |-> "COLD"]

\* accounts[addr].storage[key], which creates what is missing.
SlotValue(addr, key) ==
    IF HasSlot(addr, key) THEN accounts[addr].storage[key] ELSE EmptyValue
PutSlot(addr, key, item) ==
    LET account == IF Exists(addr) THEN accounts[addr] ELSE EmptyAccount
        keys == DOMAIN account.storage \cup {key}
        changed == [account EXCEPT !.storage =
                      [k \in keys |-> IF k = key THEN item ELSE account.storage[k]]]
    IN  accounts' = [a \in DOMAIN accounts \cup {addr} |->
                       IF a = addr THEN changed ELSE accounts[a]]

\* Mutant of RecordAccess: the record keeps the latest accesses instead of the first.
RecordAccessLatest(addr) ==
    /\ accesses' = IF Len(accesses) < MaxRecorded
                   THEN Append(accesses, addr)
                   ELSE Append(Tail(accesses), addr)
    /\ touched' = touched \cup {addr}

\* record_account_access: the first MaxRecorded accesses are kept.
RecordAccess(addr) ==
    /\ accesses' = IF Len(accesses) < MaxRecorded THEN Append(accesses, addr) ELSE accesses
    /\ touched' = touched \cup {addr}

Answer(r) ==
    /\ requests < MaxRequests
    /\ requests' = requests + 1
    /\ reply' = r

----------------------------------------------------------------------------
\* Queries.
AccountExists(addr) ==
    /\ Answer(Reply("account_exists", addr, AnyKey, IF Exists(addr) THEN "yes" ELSE "no", Zero, 0))
    /\ RecordAccess(addr)
    /\ UNCHANGED <<store, logged>>

GetStorage(addr, key) ==
    /\ Answer(Reply("get_storage", addr, key, "none", SlotValue(addr, key).current, 0))
    /\ RecordAccess(addr)
    /\ UNCHANGED <<store, logged>>

GetBalance(addr) ==
    /\ Answer(Reply("get_balance", addr, AnyKey, "none",
                    IF Exists(addr) THEN accounts[addr].balance ELSE Zero, 0))
    /\ RecordAccess(addr)
    /\ UNCHANGED <<store, logged>>

CodeSize(addr) == IF Exists(addr) THEN accounts[addr].codesize ELSE 0

GetCodeSize(addr) ==
    /\ Answer(Reply("get_code_size", addr, AnyKey, "none", Zero, CodeSize(addr)))
    /\ RecordAccess(addr)
    /\ UNCHANGED <<store, logged>>

GetCodeHash(addr) ==
    /\ Answer(Reply("get_code_hash", addr, AnyKey, "none",
                    IF Exists(addr) THEN accounts[addr].codehash ELSE Zero, 0))
    /\ RecordAccess(addr)
    /\ UNCHANGED <<store, logged>>

\* The bytes copy_code() writes and returns.
CopiedBytes(size, b) ==
    IF b.offset >= size \/ b.null THEN 0
    ELSE IF b.size <= size - b.offset THEN b.size ELSE size - b.offset

CopyCode(addr, b) ==
    /\ Answer(Reply("copy_code", addr, AnyKey, "none", Zero, CopiedBytes(CodeSize(addr), b)))
    /\ RecordAccess(addr)
    /\ UNCHANGED <<store, logged>>

GetTxContext ==
    /\ Answer(Reply("get_tx_context", AnyAddress, AnyKey, "none", Zero, 0))
    /\ UNCHANGED <<store, logged, accesses, touched>>

GetBlockHash(number) ==
    /\ Answer(Reply("get_block_hash", AnyAddress, AnyKey, "none", BlockHash, 0))
    /\ blockhashes' = Append(blockhashes, number)
    /\ UNCHANGED <<store, calls, logs, accesses, touched>>

----------------------------------------------------------------------------
\* Call records the recipient and the message, and answers with call_result.
Call(addr) ==
    /\ Answer(Reply("call", addr, AnyKey, "none", Zero, 0))
    /\ RecordAccess(addr)
    /\ calls' = IF Len(calls) < MaxCalls THEN Append(calls, addr) ELSE calls
    /\ UNCHANGED <<store, blockhashes, logs>>

EmitLog(addr) ==
    /\ Answer(Reply("emit_log", addr, AnyKey, "none", Zero, 0))
    /\ logs' = Append(logs, addr)
    /\ UNCHANGED <<store, calls, blockhashes, accesses, touched>>

\* The ledger of a consumer that charges and refunds by the statuses.
Charged(addr, key, status) ==
    LET slot == <<addr, key>>
        before == IF slot \in DOMAIN meter THEN meter[slot]
                  ELSE [from |-> SlotValue(addr, key).current, cost |-> 0, refund |-> 0, writes |-> 0]
        after == [from |-> before.from, cost |-> before.cost + Cost(status),
                  refund |-> before.refund + Refund(status), writes |-> before.writes + 1]
    IN  meter' = [s \in DOMAIN meter \cup {slot} |-> IF s = slot THEN after ELSE meter[s]]

\* Mutant of SetStorage: the original value follows the current one.
SetStorageCommits(addr, key, value) ==
    LET item == SlotValue(addr, key)
        status == ChangeStatus(item.original, item.current, value)
    IN  /\ Answer(Reply("set_storage", addr, key, status, value, 0))
        /\ PutSlot(addr, key, [item EXCEPT !.current = value, !.original = value])
        /\ Charged(addr, key, status)
        /\ RecordAccess(addr)
        /\ UNCHANGED <<warmed, cold, logged>>

SetStorage(addr, key, value) ==
    LET item == SlotValue(addr, key)
        status == ChangeStatus(item.original, item.current, value)
    IN  /\ Answer(Reply("set_storage", addr, key, status, value, 0))
        /\ PutSlot(addr, key, [item EXCEPT !.current = value])
        /\ Charged(addr, key, status)
        /\ RecordAccess(addr)
        /\ UNCHANGED <<warmed, cold, logged>>

\* Mutant of AccessAccount: the access is recorded before the record is searched.
AccessAccountRecordedFirst(addr) ==
    /\ RecordAccess(addr)
    /\ LET warm == (\E i \in 1 .. Len(accesses') : accesses'[i] = addr) \/ addr \in Precompiles
       IN  /\ Answer(Reply("access_account", addr, AnyKey, IF warm THEN "WARM" ELSE "COLD", Zero, 0))
           /\ warmed' = IF warm THEN warmed \cup {addr} ELSE warmed
    /\ UNCHANGED <<accounts, cold, meter, logged>>

AccessAccount(addr) ==
    LET already == \E i \in 1 .. Len(accesses) : accesses[i] = addr
        warm == already \/ addr \in Precompiles
    IN  /\ Answer(Reply("access_account", addr, AnyKey, IF warm THEN "WARM" ELSE "COLD", Zero, 0))
        /\ RecordAccess(addr)
        /\ warmed' = IF warm THEN warmed \cup {addr} ELSE warmed
        /\ UNCHANGED <<accounts, cold, meter, logged>>

ColdCount(slot) == IF slot \in DOMAIN cold THEN cold[slot] ELSE 0
CountCold(slot, item) ==
    cold' = [s \in DOMAIN cold \cup {slot} |->
               IF s = slot /\ item.access = "COLD" THEN ColdCount(s) + 1 ELSE ColdCount(s)]

\* Mutant of AccessStorage: the entry is replaced by a fresh warm one.
AccessStorageAfresh(addr, key) ==
    LET item == SlotValue(addr, key)
    IN  /\ Answer(Reply("access_storage", addr, key, item.access, Zero, 0))
        /\ PutSlot(addr, key, [EmptyValue EXCEPT !.access = "WARM"])
        /\ CountCold(<<addr, key>>, item)
        /\ UNCHANGED <<warmed, meter, logged, accesses, touched>>

\* Mutant of AccessStorage: the entry stays as it is.
AccessStorageUnmarked(addr, key) ==
    LET item == SlotValue(addr, key)
    IN  /\ Answer(Reply("access_storage", addr, key, item.access, Zero, 0))
        /\ PutSlot(addr, key, item)
        /\ CountCold(<<addr, key>>, item)
        /\ UNCHANGED <<warmed, meter, logged, accesses, touched>>

AccessStorage(addr, key) ==
    LET item == SlotValue(addr, key)
    IN  /\ Answer(Reply("access_storage", addr, key, item.access, Zero, 0))
        /\ PutSlot(addr, key, [item EXCEPT !.access = "WARM"])
        /\ CountCold(<<addr, key>>, item)
        /\ UNCHANGED <<warmed, meter, logged, accesses, touched>>

----------------------------------------------------------------------------
Init ==
    /\ accounts \in InitialAccounts
    /\ accesses = <<>> /\ calls = <<>> /\ blockhashes = <<>> /\ logs = <<>>
    /\ reply = NoReply
    /\ requests = 0 /\ touched = {} /\ warmed = {}
    /\ cold = [s \in {} |-> 0] /\ meter = [s \in {} |-> 0]

Query ==
    \/ \E addr \in Address : AccountExists(addr) \/ GetBalance(addr)
    \/ \E addr \in Address : GetCodeSize(addr) \/ GetCodeHash(addr)
    \/ \E addr \in Address, b \in Buffers : CopyCode(addr, b)
    \/ \E addr \in Address, key \in Key : GetStorage(addr, key)
    \/ GetTxContext
    \/ \E number \in Blocks : GetBlockHash(number)

Effect ==
    \/ \E addr \in Address : Call(addr) \/ EmitLog(addr) \/ AccessAccount(addr)
    \/ \E addr \in Address, key \in Key : AccessStorage(addr, key)
    \/ \E addr \in Address, key \in Key, value \in Values : SetStorage(addr, key, value)

Next == Query \/ Effect

Spec == Init /\ [][Next]_vars

----------------------------------------------------------------------------
\* A step that is a Host call of the given method (each call counts one request).
Called(method) == requests' = requests + 1 /\ reply'.method = method

\* The status of a change is the one documented for its case at qrvmc_storage_status, and
\* the comment's four checks determine it.
StatusDocumented ==
    [][Called("set_storage") =>
         LET item == SlotValue(reply'.addr, reply'.key)
             o == item.original
             c == item.current
             v == reply'.word
         IN  /\ reply'.status = DocumentedStatus(o, c, v)
             /\ reply'.status = FourCheckStatus(o # c, o = v, c # Zero, v # Zero)]_vars

\* Net metering: whatever sequence of changes a slot went through, what a consumer of the
\* statuses charged less what it refunded is one warm access per change plus what the net
\* change owes.
NetMetered ==
    \A slot \in DOMAIN meter :
      LET m == meter[slot]
          item == SlotValue(slot[1], slot[2])
      IN  m.cost - m.refund
            = m.writes * GWarm + Owed(item.original, item.current) - Owed(item.original, m.from)

\* The refund counter covers at any time what a later change may take back, so it never
\* goes below zero for an item that was clean at first.
RefundsCovered ==
    \A slot \in DOMAIN meter :
      LET m == meter[slot]
          item == SlotValue(slot[1], slot[2])
      IN  m.refund + Revocable(item.original, m.from) >= Revocable(item.original, item.current)

\* What a VM sees of the storage through get_storage and set_storage.
StorageView == [slot \in Slot |-> SlotValue(slot[1], slot[2]).current]
LastStorageCall ==
    IF reply.method \in {"get_storage", "set_storage"}
    THEN [method |-> reply.method, slot |-> <<reply.addr, reply.key>>, value |-> reply.word]
    ELSE [method |-> "other"]
Storage == INSTANCE HostStorage WITH view <- StorageView, last <- LastStorageCall

\* The storage is the map a VM expects: reads find what was written last, and creating
\* accounts and entries on the way, or an access of the slot, changes no value.
ImplementsHostStorage == Storage!Spec

\* The original value of a slot, on which all statuses depend, never changes: neither by
\* writing it, nor by creating its entry through access_storage or set_storage.
OriginalsFixed ==
    [][\A slot \in Slot :
         SlotValue(slot[1], slot[2])'.original = SlotValue(slot[1], slot[2]).original]_vars

\* A slot is cold for at most one access, whatever is written in between.
ColdOnce == \A slot \in DOMAIN cold : cold[slot] <= 1

\* An account answered WARM has been accessed (or is a precompile), and until the record
\* is full the answer is exact: all methods that record count as accesses.
AccessSound ==
    [][Called("access_account") =>
         LET known == reply'.addr \in touched \cup Precompiles
         IN  /\ reply'.status = "WARM" => known
             /\ Len(accesses) < MaxRecorded /\ known => reply'.status = "WARM"]_vars

\* Once WARM, always WARM: an address that access_account called WARM is never COLD again,
\* also when the record has filled up in between.
WarmForGood ==
    [][Called("access_account") /\ reply'.addr \in warmed => reply'.status = "WARM"]_vars

\* access_account as documented: WARM exactly if the account has been accessed before.
AccessDocumented ==
    [][Called("access_account") =>
         (reply'.status = "WARM" <=> reply'.addr \in touched \cup Precompiles)]_vars
=============================================================================

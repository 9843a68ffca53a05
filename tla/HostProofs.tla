---------------------------- MODULE HostProofs -----------------------------
(***************************************************************************)
(* Proofs about the mocked host: the classification of storage changes, for *)
(* all values and all gas constants; MockedHost, whatever a VM asks in any  *)
(* order and number; and BoundHost, the way through the table and the       *)
(* trampolines, which adds no behaviour to the host behind it.              *)
(***************************************************************************)
EXTENDS BoundHost, TLAPS, SequenceTheorems

----------------------------------------------------------------------------
\* StorageStatus.

\* The clauses triggered for a dirty item (o # c) that changes (c # v), case by case: each
\* combination the switch does not list is impossible.
LEMMA DirtyClauses ==
    ASSUME NEW o \in Values, NEW c \in Values, NEW v \in Values, o # c, c # v
    PROVE  /\ "RemoveClearsSchedule" \in TriggeredClauses(o, c, v) <=> o # Zero /\ c = Zero
           /\ "AddClearsSchedule" \in TriggeredClauses(o, c, v) <=> o # Zero /\ v = Zero
           /\ "RestoredBySet" \in TriggeredClauses(o, c, v) <=> o = Zero /\ v = Zero
           /\ "RestoredByReset" \in TriggeredClauses(o, c, v) <=> o # Zero /\ v = o
           /\ TriggeredClauses(o, c, v) \subseteq
                {"RemoveClearsSchedule", "AddClearsSchedule", "RestoredBySet", "RestoredByReset"}
BY DEF TriggeredClauses

\* What the switch answers for a dirty item: in particular assert(false) is never reached.
LEMMA DirtyStatus ==
    ASSUME NEW o \in Values, NEW c \in Values, NEW v \in Values, o # c, c # v
    PROVE  CombinedClauses(TriggeredClauses(o, c, v)) = DocumentedStatus(o, c, v)
<1> DEFINE t == TriggeredClauses(o, c, v)
<1> HIDE DEF t
<1>1. CASE o = Zero /\ v = Zero
  <2>1. t = {"RestoredBySet"}
    BY <1>1, DirtyClauses DEF t
  <2>2. CombinedClauses(t) = "ADDED_DELETED"
    BY <2>1 DEF CombinedClauses
  <2>3. DocumentedStatus(o, c, v) = "ADDED_DELETED"
    BY <1>1 DEF DocumentedStatus
  <2> QED BY <2>2, <2>3 DEF t
<1>2. CASE o = Zero /\ v # Zero
  <2>1. t = {}
    BY <1>2, DirtyClauses DEF t
  <2>2. CombinedClauses(t) = "ASSIGNED"
    BY <2>1 DEF CombinedClauses
  <2>3. DocumentedStatus(o, c, v) = "ASSIGNED"
    BY <1>2 DEF DocumentedStatus
  <2> QED BY <2>2, <2>3 DEF t
<1>3. CASE o # Zero /\ c = Zero /\ v = o
  <2>1. t = {"RemoveClearsSchedule", "RestoredByReset"}
    BY <1>3, DirtyClauses DEF t
  <2>2. CombinedClauses(t) = "DELETED_RESTORED"
    BY <2>1 DEF CombinedClauses
  <2>3. DocumentedStatus(o, c, v) = "DELETED_RESTORED"
    BY <1>3 DEF DocumentedStatus
  <2> QED BY <2>2, <2>3 DEF t
<1>4. CASE o # Zero /\ c = Zero /\ v # o
  <2>1. t = {"RemoveClearsSchedule"}
    BY <1>4, DirtyClauses DEF t
  <2>2. CombinedClauses(t) = "DELETED_ADDED"
    BY <2>1 DEF CombinedClauses
  <2>3. DocumentedStatus(o, c, v) = "DELETED_ADDED"
    BY <1>4 DEF DocumentedStatus
  <2> QED BY <2>2, <2>3 DEF t
<1>5. CASE o # Zero /\ c # Zero /\ v = Zero
  <2>1. t = {"AddClearsSchedule"}
    BY <1>5, DirtyClauses DEF t
  <2>2. CombinedClauses(t) = "MODIFIED_DELETED"
    BY <2>1 DEF CombinedClauses
  <2>3. DocumentedStatus(o, c, v) = "MODIFIED_DELETED"
    BY <1>5 DEF DocumentedStatus
  <2> QED BY <2>2, <2>3 DEF t
<1>6. CASE o # Zero /\ c # Zero /\ v = o
  <2>1. t = {"RestoredByReset"}
    BY <1>6, DirtyClauses DEF t
  <2>2. CombinedClauses(t) = "MODIFIED_RESTORED"
    BY <2>1 DEF CombinedClauses
  <2>3. DocumentedStatus(o, c, v) = "MODIFIED_RESTORED"
    BY <1>6 DEF DocumentedStatus
  <2> QED BY <2>2, <2>3 DEF t
<1>7. CASE o # Zero /\ c # Zero /\ v \notin {Zero, o}
  <2>1. t = {}
    BY <1>7, DirtyClauses DEF t
  <2>2. CombinedClauses(t) = "ASSIGNED"
    BY <2>1 DEF CombinedClauses
  <2>3. DocumentedStatus(o, c, v) = "ASSIGNED"
    BY <1>7 DEF DocumentedStatus
  <2> QED BY <2>2, <2>3 DEF t
<1> QED BY <1>1, <1>2, <1>3, <1>4, <1>5, <1>6, <1>7

\* set_storage() answers the case that qrvmc_storage_status documents, for all values.
THEOREM Documented ==
    ASSUME NEW o \in Values, NEW c \in Values, NEW v \in Values
    PROVE  ChangeStatus(o, c, v) = DocumentedStatus(o, c, v)
<1>1. CASE o # c /\ c # v
  BY <1>1, DirtyStatus DEF ChangeStatus
<1>2. CASE c = v
  BY <1>2 DEF ChangeStatus, DocumentedStatus
<1>3. CASE o = c /\ c # v
  BY <1>3 DEF ChangeStatus, DocumentedStatus
<1> QED BY <1>1, <1>2, <1>3

\* The comment in set_storage(): four checks are enough to figure out the status.
THEOREM FourChecksSuffice ==
    ASSUME NEW o \in Values, NEW c \in Values, NEW v \in Values
    PROVE  ChangeStatus(o, c, v) = FourCheckStatus(o # c, o = v, c # Zero, v # Zero)
BY Documented DEF DocumentedStatus, FourCheckStatus

\* One change is metered by the net change it makes: path independence, one step of it.
THEOREM NetStep ==
    ASSUME NEW o \in Values, NEW c \in Values, NEW v \in Values
    PROVE  LET status == ChangeStatus(o, c, v)
           IN  /\ Cost(status) \in Nat /\ Refund(status) \in Int
               /\ Cost(status) - Refund(status) = GWarm + Owed(o, v) - Owed(o, c)
<1> DEFINE s == DocumentedStatus(o, c, v)
<1>1. /\ Cost(s) \in Nat /\ Refund(s) \in Int
      /\ Cost(s) - Refund(s) = GWarm + Owed(o, v) - Owed(o, c)
  BY StorageAssumption DEF DocumentedStatus, Cost, Refund, Owed
<1> QED BY <1>1, Documented

\* One change never takes back more refund than the item holds.
THEOREM RefundStep ==
    ASSUME NEW o \in Values, NEW c \in Values, NEW v \in Values
    PROVE  Refund(ChangeStatus(o, c, v)) >= Revocable(o, v) - Revocable(o, c)
<1> DEFINE s == DocumentedStatus(o, c, v)
<1>1. Refund(s) >= Revocable(o, v) - Revocable(o, c)
  BY StorageAssumption DEF DocumentedStatus, Refund, Revocable
<1> QED BY <1>1, Documented

----------------------------------------------------------------------------
\* MockedHost.

\* Every account is one, with a storage of its own keys.
AccountsTyped ==
    /\ DOMAIN accounts \subseteq Address
    /\ \A a \in DOMAIN accounts :
         DOMAIN accounts[a].storage \subseteq Key
           /\ accounts[a] \in Account(DOMAIN accounts[a].storage)

\* An account after one entry of its storage was written.
WrittenAccount(account, key, item) ==
    [account EXCEPT !.storage =
       [k \in DOMAIN account.storage \cup {key} |-> IF k = key THEN item ELSE account.storage[k]]]

LEMMA WrittenFields ==
    ASSUME NEW account, NEW key \in Key, NEW item \in StorageValue,
           DOMAIN account.storage \subseteq Key, account \in Account(DOMAIN account.storage)
    PROVE  LET written == WrittenAccount(account, key, item)
           IN  /\ written.balance = account.balance /\ written.codesize = account.codesize
               /\ written.codehash = account.codehash
               /\ DOMAIN written.storage = DOMAIN account.storage \cup {key}
               /\ \A k \in DOMAIN written.storage :
                    written.storage[k] = IF k = key THEN item ELSE account.storage[k]
               /\ written \in Account(DOMAIN written.storage)
BY DEF WrittenAccount, Account

LEMMA EmptyTyped ==
    /\ EmptyValue \in StorageValue
    /\ EmptyAccount \in Account(DOMAIN EmptyAccount.storage)
    /\ DOMAIN EmptyAccount.storage = {}
BY StorageAssumption DEF EmptyValue, StorageValue, EmptyAccount, Account, Access

LEMMA SlotTyped ==
    ASSUME AccountsTyped, NEW addr \in Address, NEW key \in Key
    PROVE  SlotValue(addr, key) \in StorageValue
BY EmptyTyped DEF AccountsTyped, SlotValue, HasSlot, Exists, Account

\* Writing a slot creates what is missing and changes nothing else that can be read.
LEMMA PutSlotChanges ==
    ASSUME AccountsTyped, NEW addr \in Address, NEW key \in Key, NEW item \in StorageValue,
           PutSlot(addr, key, item)
    PROVE  /\ AccountsTyped'
           /\ \A a \in Address, k \in Key :
                SlotValue(a, k)' = IF a = addr /\ k = key THEN item ELSE SlotValue(a, k)
<1> DEFINE account == IF Exists(addr) THEN accounts[addr] ELSE EmptyAccount
           written == WrittenAccount(account, key, item)
<1>1. /\ DOMAIN account.storage \subseteq Key
      /\ account \in Account(DOMAIN account.storage)
  BY EmptyTyped DEF AccountsTyped, Exists
<1>2. accounts' = [a \in DOMAIN accounts \cup {addr} |-> IF a = addr THEN written ELSE accounts[a]]
  BY DEF PutSlot, WrittenAccount
<1> HIDE DEF account, written
<1>3. /\ DOMAIN written.storage = DOMAIN account.storage \cup {key}
      /\ \A k \in DOMAIN written.storage :
           written.storage[k] = IF k = key THEN item ELSE account.storage[k]
      /\ written \in Account(DOMAIN written.storage)
  BY <1>1, WrittenFields DEF written
<1>4. AccountsTyped'
  BY <1>1, <1>2, <1>3 DEF AccountsTyped
<1>5. ASSUME NEW a \in Address, NEW k \in Key, a # addr PROVE SlotValue(a, k)' = SlotValue(a, k)
  BY <1>2, <1>5 DEF SlotValue, HasSlot, Exists
<1>6. ASSUME NEW k \in Key
      PROVE  SlotValue(addr, k)' = IF k = key THEN item ELSE SlotValue(addr, k)
  <2>1. SlotValue(addr, k)' = IF k \in DOMAIN written.storage THEN written.storage[k] ELSE EmptyValue
    BY <1>2 DEF SlotValue, HasSlot, Exists, EmptyValue
  <2>2. SlotValue(addr, k) = IF k \in DOMAIN account.storage THEN account.storage[k] ELSE EmptyValue
    BY EmptyTyped DEF account, SlotValue, HasSlot, Exists
  <2> QED BY <2>1, <2>2, <1>3
<1> QED BY <1>4, <1>5, <1>6

----------------------------------------------------------------------------
\* The steps, by what they do to the accounts and the ledger.
QuietStep == UNCHANGED <<accounts, meter>>
SlotAccessed(addr, key) ==
    PutSlot(addr, key, [SlotValue(addr, key) EXCEPT !.access = "WARM"]) /\ UNCHANGED meter
SlotWritten(addr, key, value) ==
    LET item == SlotValue(addr, key)
    IN  /\ PutSlot(addr, key, [item EXCEPT !.current = value])
        /\ Charged(addr, key, ChangeStatus(item.original, item.current, value))

LEMMA Steps ==
    ASSUME [Next]_vars
    PROVE  \/ QuietStep
           \/ \E addr \in Address, key \in Key : SlotAccessed(addr, key)
           \/ \E addr \in Address, key \in Key, value \in Values : SlotWritten(addr, key, value)
<1> USE DEF store, vars, QuietStep
<1>1. CASE Query
  BY <1>1 DEF Query, AccountExists, GetBalance, GetCodeSize, GetCodeHash, CopyCode, GetStorage,
              GetTxContext, GetBlockHash
<1>2. CASE \E addr \in Address : Call(addr) \/ EmitLog(addr) \/ AccessAccount(addr)
  BY <1>2 DEF Call, EmitLog, AccessAccount
<1>3. CASE \E addr \in Address, key \in Key : AccessStorage(addr, key)
  BY <1>3 DEF AccessStorage, SlotAccessed
<1>4. CASE \E addr \in Address, key \in Key, value \in Values : SetStorage(addr, key, value)
  BY <1>4 DEF SetStorage, SlotWritten
<1>5. CASE UNCHANGED vars
  BY <1>5
<1> QED BY <1>1, <1>2, <1>3, <1>4, <1>5 DEF Next, Effect

LEMMA ItemUpdates ==
    ASSUME NEW item \in StorageValue, NEW value \in Values
    PROVE  /\ [item EXCEPT !.access = "WARM"] \in StorageValue
           /\ [item EXCEPT !.access = "WARM"].current = item.current
           /\ [item EXCEPT !.access = "WARM"].original = item.original
           /\ [item EXCEPT !.current = value] \in StorageValue
           /\ [item EXCEPT !.current = value].current = value
           /\ [item EXCEPT !.current = value].original = item.original
BY DEF StorageValue, Access

\* What an access and a write change of the values that can be read.
LEMMA AccessChanges ==
    ASSUME AccountsTyped, NEW addr \in Address, NEW key \in Key, SlotAccessed(addr, key)
    PROVE  /\ AccountsTyped'
           /\ \A a \in Address, k \in Key :
                /\ SlotValue(a, k)'.original = SlotValue(a, k).original
                /\ SlotValue(a, k)'.current = SlotValue(a, k).current
<1>1. [SlotValue(addr, key) EXCEPT !.access = "WARM"] \in StorageValue
  BY SlotTyped, ItemUpdates, StorageAssumption
<1> DEFINE new == [SlotValue(addr, key) EXCEPT !.access = "WARM"]
<1>2. new.original = SlotValue(addr, key).original /\ new.current = SlotValue(addr, key).current
  BY SlotTyped, ItemUpdates, StorageAssumption
<1>3. PutSlot(addr, key, new) /\ new \in StorageValue
  BY <1>1 DEF SlotAccessed
<1> HIDE DEF new
<1>4. AccountsTyped' /\ \A a \in Address, k \in Key :
        SlotValue(a, k)' = IF a = addr /\ k = key THEN new ELSE SlotValue(a, k)
  BY <1>3, PutSlotChanges
<1> QED BY <1>2, <1>4

LEMMA WriteChanges ==
    ASSUME AccountsTyped, NEW addr \in Address, NEW key \in Key, NEW value \in Values,
           SlotWritten(addr, key, value)
    PROVE  /\ AccountsTyped'
           /\ \A a \in Address, k \in Key :
                /\ SlotValue(a, k)'.original = SlotValue(a, k).original
                /\ SlotValue(a, k)'.current =
                     IF a = addr /\ k = key THEN value ELSE SlotValue(a, k).current
<1>1. [SlotValue(addr, key) EXCEPT !.current = value] \in StorageValue
  BY SlotTyped, ItemUpdates
<1> DEFINE new == [SlotValue(addr, key) EXCEPT !.current = value]
<1>2. new.original = SlotValue(addr, key).original /\ new.current = value
  BY SlotTyped, ItemUpdates
<1>3. PutSlot(addr, key, new) /\ new \in StorageValue
  BY <1>1 DEF SlotWritten
<1> HIDE DEF new
<1>4. AccountsTyped' /\ \A a \in Address, k \in Key :
        SlotValue(a, k)' = IF a = addr /\ k = key THEN new ELSE SlotValue(a, k)
  BY <1>3, PutSlotChanges
<1> QED BY <1>2, <1>4

----------------------------------------------------------------------------
\* The ledger: its types, and that its entries are about slots.
MeterTyped ==
    /\ DOMAIN meter \subseteq Slot
    /\ meter \in [DOMAIN meter -> [from : Values, cost : Int, refund : Int, writes : Int]]

HostInv == AccountsTyped /\ MeterTyped /\ NetMetered /\ RefundsCovered

\* One more warm access.
LEMMA OneMoreWarm ==
    ASSUME NEW n \in Int, NEW g \in Nat
    PROVE  (n + 1) * g = n * g + g /\ n * g \in Int
<1>1. (n + 1) * g = n * g + g
  BY Z3
<1>2. n * g \in Int
  BY Z3
<1> QED BY <1>1, <1>2

\* Adding a change to a balanced entry.
LEMMA EntrySum ==
    ASSUME NEW cost \in Int, NEW refund \in Int, NEW warm \in Int, NEW owed \in Int, NEW from \in Int,
           NEW held \in Int, NEW first \in Int,
           cost - refund = warm + owed - from, refund + first >= held,
           NEW g \in Int, NEW c \in Int, NEW r \in Int, NEW owed2 \in Int, NEW held2 \in Int,
           c - r = g + owed2 - owed, r >= held2 - held
    PROVE  /\ (cost + c) - (refund + r) = (warm + g) + owed2 - from
           /\ (refund + r) + first >= held2
OBVIOUS

\* A slot that is not in the ledger yet starts at its current value.
Entry(addr, key) ==
    IF <<addr, key>> \in DOMAIN meter THEN meter[<<addr, key>>]
    ELSE [from |-> SlotValue(addr, key).current, cost |-> 0, refund |-> 0, writes |-> 0]

\* For any slot, in the ledger or not, the entry satisfies the two properties.
LEMMA EntryBalanced ==
    ASSUME HostInv, NEW addr \in Address, NEW key \in Key
    PROVE  LET m == Entry(addr, key)
               item == SlotValue(addr, key)
           IN  /\ m \in [from : Values, cost : Int, refund : Int, writes : Int]
               /\ m.cost - m.refund
                    = m.writes * GWarm + Owed(item.original, item.current) - Owed(item.original, m.from)
               /\ m.refund + Revocable(item.original, m.from) >= Revocable(item.original, item.current)
<1> DEFINE m == Entry(addr, key)
           item == SlotValue(addr, key)
<1>1. item.current \in Values /\ item.original \in Values
  BY SlotTyped DEF HostInv, StorageValue
<1>2. CASE <<addr, key>> \in DOMAIN meter
  BY <1>2 DEF HostInv, Entry, MeterTyped, NetMetered, RefundsCovered
<1>3. CASE <<addr, key>> \notin DOMAIN meter
  <2>1. m = [from |-> item.current, cost |-> 0, refund |-> 0, writes |-> 0]
    BY <1>3 DEF Entry
  <2>2. Owed(item.original, item.current) \in Int /\ Revocable(item.original, item.current) \in Nat
    BY <1>1, StorageAssumption DEF Owed, Revocable
  <2>3. m.writes * GWarm = 0
    BY <2>1, StorageAssumption
  <2> QED BY <1>1, <2>1, <2>2, <2>3
<1> QED BY <1>2, <1>3

\* One change keeps the entry of its slot balanced: NetStep and RefundStep add up.
LEMMA WriteBalances ==
    ASSUME HostInv, NEW addr \in Address, NEW key \in Key, NEW value \in Values,
           SlotWritten(addr, key, value)
    PROVE  HostInv'
<1> DEFINE slot == <<addr, key>>
           o == SlotValue(addr, key).original
           c == SlotValue(addr, key).current
           status == ChangeStatus(o, c, value)
           before == Entry(addr, key)
           after == [from |-> before.from, cost |-> before.cost + Cost(status),
                     refund |-> before.refund + Refund(status), writes |-> before.writes + 1]
<1>1. o \in Values /\ c \in Values
  BY SlotTyped DEF HostInv, StorageValue
<1>2. meter' = [s \in DOMAIN meter \cup {slot} |-> IF s = slot THEN after ELSE meter[s]]
  BY DEF SlotWritten, Charged, Entry
<1>3. /\ before \in [from : Values, cost : Int, refund : Int, writes : Int]
      /\ before.cost - before.refund = before.writes * GWarm + Owed(o, c) - Owed(o, before.from)
      /\ before.refund + Revocable(o, before.from) >= Revocable(o, c)
  BY EntryBalanced
<1>4. /\ Cost(status) \in Nat /\ Refund(status) \in Int
      /\ Cost(status) - Refund(status) = GWarm + Owed(o, value) - Owed(o, c)
      /\ Refund(status) >= Revocable(o, value) - Revocable(o, c)
  BY <1>1, NetStep, RefundStep
<1>5. /\ AccountsTyped'
      /\ \A a \in Address, k \in Key :
           /\ SlotValue(a, k)'.original = SlotValue(a, k).original
           /\ SlotValue(a, k)'.current = IF a = addr /\ k = key THEN value ELSE SlotValue(a, k).current
  BY WriteChanges DEF HostInv
<1>6. \A u, v \in Values : Owed(u, v) \in Int /\ Revocable(u, v) \in Nat
  BY StorageAssumption DEF Owed, Revocable
<1> HIDE DEF status, before
<1>7. after \in [from : Values, cost : Int, refund : Int, writes : Int]
  BY <1>3, <1>4
<1>8. MeterTyped'
  BY <1>2, <1>7 DEF HostInv, MeterTyped, Slot
\* The slot that was written.
<1>9. /\ after.cost - after.refund = after.writes * GWarm + Owed(o, value) - Owed(o, after.from)
      /\ after.refund + Revocable(o, after.from) >= Revocable(o, value)
  <2>1. after.writes * GWarm = before.writes * GWarm + GWarm /\ before.writes * GWarm \in Int
    BY <1>3, OneMoreWarm, StorageAssumption
  <2>2. before.from \in Values /\ before.cost \in Int /\ before.refund \in Int
    BY <1>3
  <2>3. /\ Owed(o, c) \in Int /\ Owed(o, value) \in Int /\ Owed(o, before.from) \in Int
        /\ Revocable(o, c) \in Int /\ Revocable(o, value) \in Int /\ Revocable(o, before.from) \in Int
    BY <1>1, <1>6, <2>2
  <2>4. /\ (before.cost + Cost(status)) - (before.refund + Refund(status))
             = (before.writes * GWarm + GWarm) + Owed(o, value) - Owed(o, before.from)
        /\ (before.refund + Refund(status)) + Revocable(o, before.from) >= Revocable(o, value)
    <3>1. Cost(status) \in Int /\ GWarm \in Int
      BY <1>4, StorageAssumption
    <3> QED BY <1>3, <1>4, <2>1, <2>2, <2>3, <3>1, EntrySum
  <2> QED BY <2>1, <2>4
<1>10. ASSUME NEW s \in DOMAIN meter'
       PROVE  LET m == meter'[s]
                  item == SlotValue(s[1], s[2])'
              IN  /\ m.cost - m.refund
                       = m.writes * GWarm + Owed(item.original, item.current) - Owed(item.original, m.from)
                  /\ m.refund + Revocable(item.original, m.from)
                       >= Revocable(item.original, item.current)
  <2>1. CASE s = slot
    <3>1. meter'[s] = after
      BY <1>2, <2>1
    <3>2. SlotValue(s[1], s[2])'.original = o /\ SlotValue(s[1], s[2])'.current = value
      BY <1>5, <2>1
    <3> QED BY <1>9, <3>1, <3>2
  <2>2. CASE s # slot
    <3>1. s \in DOMAIN meter /\ meter'[s] = meter[s]
      BY <1>2, <2>2, <1>10
    <3>2. s[1] \in Address /\ s[2] \in Key /\ ~(s[1] = addr /\ s[2] = key)
      BY <3>1, <2>2 DEF HostInv, MeterTyped, Slot
    <3> QED BY <1>5, <3>1, <3>2 DEF HostInv, NetMetered, RefundsCovered
  <2> QED BY <2>1, <2>2
<1> QED BY <1>5, <1>8, <1>10 DEF HostInv, NetMetered, RefundsCovered

\* Other steps change neither the ledger nor what the two properties read of the slots.
LEMMA OtherStepsBalance ==
    ASSUME HostInv,
           QuietStep \/ \E addr \in Address, key \in Key : SlotAccessed(addr, key)
    PROVE  HostInv'
<1>1. AccountsTyped' /\ meter' = meter
  BY AccessChanges DEF HostInv, QuietStep, SlotAccessed, AccountsTyped
<1>2. ASSUME NEW a \in Address, NEW k \in Key
      PROVE  /\ SlotValue(a, k)'.original = SlotValue(a, k).original
             /\ SlotValue(a, k)'.current = SlotValue(a, k).current
  <2>1. CASE QuietStep
    BY <2>1 DEF QuietStep, SlotValue, HasSlot, Exists
  <2>2. CASE \E addr \in Address, key \in Key : SlotAccessed(addr, key)
    BY <2>2, AccessChanges DEF HostInv
  <2> QED BY <2>1, <2>2
<1>3. ASSUME NEW s \in DOMAIN meter
      PROVE  /\ SlotValue(s[1], s[2])'.original = SlotValue(s[1], s[2]).original
             /\ SlotValue(s[1], s[2])'.current = SlotValue(s[1], s[2]).current
  BY <1>2 DEF HostInv, MeterTyped, Slot
<1>4. MeterTyped'
  BY <1>1 DEF HostInv, MeterTyped
<1>5. NetMetered'
  BY <1>1, <1>3 DEF HostInv, NetMetered
<1>6. RefundsCovered'
  BY <1>1, <1>3 DEF HostInv, RefundsCovered
<1> QED BY <1>1, <1>4, <1>5, <1>6 DEF HostInv

\* Every method of MockedHost preserves the ledger of its storage and what it relies on.
THEOREM HostInvariant == Spec => []HostInv
<1>1. Init => HostInv
  <2> SUFFICES ASSUME Init PROVE HostInv
    OBVIOUS
  <2>1. AccountsTyped
    BY HostAssumption DEF Init, AccountsTyped, Account
  <2>2. MeterTyped /\ DOMAIN meter = {}
    BY DEF Init, MeterTyped
  <2> QED BY <2>1, <2>2 DEF HostInv, NetMetered, RefundsCovered
<1>2. HostInv /\ [Next]_vars => HostInv'
  BY Steps, WriteBalances, OtherStepsBalance
<1> QED BY <1>1, <1>2, PTL DEF Spec

\* Any sequence of set_storage() calls on a slot, among any other calls, is charged by its
\* statuses exactly what the net change owes, plus a warm access each.
THEOREM AlwaysNetMetered == Spec => []NetMetered
<1>1. HostInv => NetMetered
  BY DEF HostInv
<1> QED BY <1>1, HostInvariant, PTL

\* The statuses of set_storage() never make a consumer take back more refund than it gave.
THEOREM RefundsAlwaysCovered == Spec => []RefundsCovered
<1>1. HostInv => RefundsCovered
  BY DEF HostInv
<1> QED BY <1>1, HostInvariant, PTL

\* No call changes the original value of a slot, which set_storage() compares with.
THEOREM OriginalsAlwaysFixed == Spec => OriginalsFixed
<1>1. ASSUME HostInv, [Next]_vars, NEW slot \in Slot
      PROVE  SlotValue(slot[1], slot[2])'.original = SlotValue(slot[1], slot[2]).original
  <2>1. slot[1] \in Address /\ slot[2] \in Key
    BY DEF Slot
  <2>2. CASE QuietStep
    BY <2>2 DEF QuietStep, SlotValue, HasSlot, Exists
  <2>3. CASE \E addr \in Address, key \in Key : SlotAccessed(addr, key)
    BY <1>1, <2>1, <2>3, AccessChanges DEF HostInv
  <2>4. CASE \E addr \in Address, key \in Key, value \in Values : SlotWritten(addr, key, value)
    BY <1>1, <2>1, <2>4, WriteChanges DEF HostInv
  <2> QED BY <1>1, <2>2, <2>3, <2>4, Steps
<1>2. HostInv /\ [Next]_vars =>
        [\A slot \in Slot :
           SlotValue(slot[1], slot[2])'.original = SlotValue(slot[1], slot[2]).original]_vars
  BY <1>1
<1> QED BY <1>2, HostInvariant, PTL DEF Spec, OriginalsFixed

----------------------------------------------------------------------------
\* The mark of a slot: once counted as cold it is warm, and nothing makes it cold again.
ColdInv ==
    /\ DOMAIN cold \subseteq Slot
    /\ \A s \in DOMAIN cold :
         /\ cold[s] \in 0 .. 1
         /\ cold[s] = 1 => SlotValue(s[1], s[2]).access = "WARM"

LEMMA ColdSteps ==
    ASSUME [Next]_vars
    PROVE  \/ UNCHANGED <<accounts, cold>>
           \/ \E addr \in Address, key \in Key : AccessStorage(addr, key)
           \/ \E addr \in Address, key \in Key, value \in Values :
                SetStorage(addr, key, value) /\ UNCHANGED cold
<1> USE DEF store, vars
<1>1. CASE Query
  BY <1>1 DEF Query, AccountExists, GetBalance, GetCodeSize, GetCodeHash, CopyCode, GetStorage,
              GetTxContext, GetBlockHash
<1>2. CASE \E addr \in Address : Call(addr) \/ EmitLog(addr) \/ AccessAccount(addr)
  BY <1>2 DEF Call, EmitLog, AccessAccount
<1>3. CASE \E addr \in Address, key \in Key, value \in Values : SetStorage(addr, key, value)
  BY <1>3 DEF SetStorage
<1>4. CASE UNCHANGED vars
  BY <1>4
<1> QED BY <1>1, <1>2, <1>3, <1>4 DEF Next, Effect

\* A write leaves the marks of all slots alone.
LEMMA WriteKeepsMarks ==
    ASSUME AccountsTyped, NEW addr \in Address, NEW key \in Key, NEW value \in Values,
           SetStorage(addr, key, value)
    PROVE  \A a \in Address, k \in Key : SlotValue(a, k)'.access = SlotValue(a, k).access
<1> DEFINE new == [SlotValue(addr, key) EXCEPT !.current = value]
<1>1. SlotValue(addr, key) \in StorageValue
  BY SlotTyped
<1>2. new \in StorageValue /\ new.access = SlotValue(addr, key).access
  BY <1>1 DEF StorageValue
<1>3. PutSlot(addr, key, new)
  BY DEF SetStorage
<1> HIDE DEF new
<1>4. \A a \in Address, k \in Key :
        SlotValue(a, k)' = IF a = addr /\ k = key THEN new ELSE SlotValue(a, k)
  BY <1>2, <1>3, PutSlotChanges
<1> QED BY <1>2, <1>4

\* An access marks its slot, and counts it only if it was not marked.
LEMMA AccessMarks ==
    ASSUME AccountsTyped, ColdInv, NEW addr \in Address, NEW key \in Key, AccessStorage(addr, key)
    PROVE  ColdInv'
<1> DEFINE item == SlotValue(addr, key)
           new == [item EXCEPT !.access = "WARM"]
           slot == <<addr, key>>
<1>1. item \in StorageValue
  BY SlotTyped
<1>2. new \in StorageValue /\ new.access = "WARM"
  BY <1>1 DEF StorageValue, Access
<1>3. PutSlot(addr, key, new) /\ CountCold(slot, item)
  BY DEF AccessStorage
<1> HIDE DEF new
<1>4. \A a \in Address, k \in Key :
        SlotValue(a, k)' = IF a = addr /\ k = key THEN new ELSE SlotValue(a, k)
  BY <1>2, <1>3, PutSlotChanges
<1>5. /\ DOMAIN cold' = DOMAIN cold \cup {slot}
      /\ \A s \in DOMAIN cold' :
           cold'[s] = IF s = slot /\ item.access = "COLD" THEN ColdCount(s) + 1 ELSE ColdCount(s)
  BY <1>3 DEF CountCold
<1>6. slot \in Slot /\ slot[1] = addr /\ slot[2] = key
  BY DEF Slot
<1>7. ASSUME NEW s \in DOMAIN cold'
      PROVE  cold'[s] \in 0 .. 1 /\ (cold'[s] = 1 => SlotValue(s[1], s[2])'.access = "WARM")
  <2>1. s \in Slot /\ s[1] \in Address /\ s[2] \in Key
    BY <1>5, <1>6, <1>7 DEF ColdInv, Slot
  <2>2. ColdCount(s) \in 0 .. 1
        /\ (ColdCount(s) = 1 => SlotValue(s[1], s[2]).access = "WARM")
    BY DEF ColdCount, ColdInv
  <2>3. CASE s = slot
    <3>1. SlotValue(s[1], s[2])'.access = "WARM"
      BY <1>2, <1>4, <1>6, <2>1, <2>3
    <3>2. item.access = "COLD" => ColdCount(s) = 0
      BY <1>6, <2>2, <2>3
    <3> QED BY <1>5, <1>7, <2>2, <2>3, <3>1, <3>2
  <2>4. CASE s # slot
    <3>1. ~(s[1] = addr /\ s[2] = key)
      BY <2>1, <2>4 DEF Slot
    <3>2. SlotValue(s[1], s[2])' = SlotValue(s[1], s[2])
      BY <1>4, <2>1, <3>1
    <3> QED BY <1>5, <1>7, <2>2, <2>4, <3>2
  <2> QED BY <2>3, <2>4
<1> QED BY <1>5, <1>6, <1>7 DEF ColdInv

\* access_storage() answers COLD at most once for a slot, whatever is written in between.
THEOREM AlwaysColdOnce == Spec => []ColdOnce
<1>1. Init => ColdInv
  BY DEF Init, ColdInv
<1>2. HostInv /\ ColdInv /\ [Next]_vars => ColdInv'
  <2> SUFFICES ASSUME HostInv, ColdInv, [Next]_vars PROVE ColdInv'
    OBVIOUS
  <2>1. CASE UNCHANGED <<accounts, cold>>
    BY <2>1 DEF ColdInv, SlotValue, HasSlot, Exists
  <2>2. CASE \E addr \in Address, key \in Key : AccessStorage(addr, key)
    BY <2>2, AccessMarks DEF HostInv
  <2>3. ASSUME NEW addr \in Address, NEW key \in Key, NEW value \in Values,
               SetStorage(addr, key, value), UNCHANGED cold
        PROVE  ColdInv'
    <3>1. \A s \in Slot : SlotValue(s[1], s[2])'.access = SlotValue(s[1], s[2]).access
      BY <2>3, WriteKeepsMarks DEF HostInv, Slot
    <3> QED BY <2>3, <3>1 DEF ColdInv
  <2> QED BY <2>1, <2>2, <2>3, ColdSteps
<1>3. ColdInv => ColdOnce
  BY DEF ColdInv, ColdOnce
<1> QED BY <1>1, <1>2, <1>3, HostInvariant, PTL DEF Spec

----------------------------------------------------------------------------
\* What a step with a given method is.
LEMMA WriteIsSetStorage ==
    ASSUME [Next]_vars, Called("set_storage"), requests \in Nat
    PROVE  \E addr \in Address, key \in Key, value \in Values : SetStorage(addr, key, value)
<1> USE DEF Called, Answer, Reply
<1>1. CASE Query
  BY <1>1 DEF Query, AccountExists, GetBalance, GetCodeSize, GetCodeHash, CopyCode, GetStorage,
              GetTxContext, GetBlockHash
<1>2. CASE \E addr \in Address : Call(addr) \/ EmitLog(addr) \/ AccessAccount(addr)
  BY <1>2 DEF Call, EmitLog, AccessAccount
<1>3. CASE \E addr \in Address, key \in Key : AccessStorage(addr, key)
  BY <1>3 DEF AccessStorage
<1>4. CASE UNCHANGED vars
  BY <1>4 DEF vars
<1> QED BY <1>1, <1>2, <1>3, <1>4 DEF Next, Effect

\* Host calls are counted.
LEMMA RequestsCounted == Spec => [](requests \in Nat)
<1>1. Init => requests \in Nat
  BY DEF Init
<1>2. requests \in Nat /\ [Next]_vars => (requests \in Nat)'
  <2> SUFFICES ASSUME requests \in Nat, [Next]_vars PROVE requests' \in Nat
    OBVIOUS
  <2>1. CASE Query
    BY <2>1 DEF Query, AccountExists, GetBalance, GetCodeSize, GetCodeHash, CopyCode, GetStorage,
                GetTxContext, GetBlockHash, Answer
  <2>2. ASSUME NEW addr \in Address, Call(addr) \/ EmitLog(addr) \/ AccessAccount(addr)
        PROVE  requests' \in Nat
    BY <2>2 DEF Call, EmitLog, AccessAccount, Answer
  <2>3. ASSUME NEW addr \in Address, NEW key \in Key, AccessStorage(addr, key)
        PROVE  requests' \in Nat
    BY <2>3 DEF AccessStorage, Answer
  <2>4. ASSUME NEW addr \in Address, NEW key \in Key, NEW value \in Values,
               SetStorage(addr, key, value)
        PROVE  requests' \in Nat
    BY <2>4 DEF SetStorage, Answer
  <2>5. CASE UNCHANGED vars
    BY <2>5 DEF vars
  <2> QED BY <2>1, <2>2, <2>3, <2>4, <2>5 DEF Next, Effect
<1> QED BY <1>1, <1>2, PTL DEF Spec

\* set_storage() answers with the status documented for the change it makes.
THEOREM StatusAlwaysDocumented == Spec => StatusDocumented
<1> DEFINE Inv == HostInv /\ requests \in Nat
           Right == LET item == SlotValue(reply'.addr, reply'.key)
                        o == item.original
                        c == item.current
                        v == reply'.word
                    IN  /\ reply'.status = DocumentedStatus(o, c, v)
                        /\ reply'.status = FourCheckStatus(o # c, o = v, c # Zero, v # Zero)
<1>2. ASSUME Inv, [Next]_vars, Called("set_storage") PROVE Right
  <2>1. PICK addr \in Address, key \in Key, value \in Values : SetStorage(addr, key, value)
    BY <1>2, WriteIsSetStorage
  <2>2. SlotValue(addr, key).original \in Values /\ SlotValue(addr, key).current \in Values
    BY <1>2, SlotTyped DEF HostInv, StorageValue
  <2>3. /\ reply'.addr = addr /\ reply'.key = key /\ reply'.word = value
        /\ reply'.status = ChangeStatus(SlotValue(addr, key).original, SlotValue(addr, key).current, value)
    BY <2>1 DEF SetStorage, Answer, Reply
  <2> QED BY <2>2, <2>3, Documented, FourChecksSuffice
<1>3. Inv /\ [Next]_vars => [Called("set_storage") => Right]_vars
  BY <1>2
<1> QED BY RequestsCounted, <1>3, HostInvariant, PTL DEF Spec, StatusDocumented

----------------------------------------------------------------------------
\* The record of accesses: it holds addresses that were accessed, all of them until it is full,
\* and every address that was answered WARM.
Recorded(addr) == \E i \in 1 .. Len(accesses) : accesses[i] = addr

RecordInv ==
    /\ accesses \in Seq(Address)
    /\ \A addr \in Address : Recorded(addr) => addr \in touched
    /\ Len(accesses) < MaxRecorded => \A addr \in Address : addr \in touched => Recorded(addr)
    /\ \A addr \in Address : addr \in warmed => Recorded(addr) \/ addr \in Precompiles

\* The steps, by what they do to the record.
Unrecorded == UNCHANGED <<accesses, touched, warmed>>
JustRecords(addr) == RecordAccess(addr) /\ UNCHANGED warmed

LEMMA RecordSteps ==
    ASSUME [Next]_vars
    PROVE  \/ Unrecorded
           \/ \E addr \in Address : JustRecords(addr)
           \/ \E addr \in Address : AccessAccount(addr)
<1> USE DEF store, vars, Unrecorded, JustRecords
<1>1. CASE Query
  BY <1>1 DEF Query, AccountExists, GetBalance, GetCodeSize, GetCodeHash, CopyCode, GetStorage,
              GetTxContext, GetBlockHash
<1>2. CASE \E addr \in Address : Call(addr) \/ EmitLog(addr) \/ AccessAccount(addr)
  BY <1>2 DEF Call, EmitLog
<1>3. CASE \E addr \in Address, key \in Key : AccessStorage(addr, key)
  BY <1>3 DEF AccessStorage
<1>4. CASE \E addr \in Address, key \in Key, value \in Values : SetStorage(addr, key, value)
  BY <1>4 DEF SetStorage
<1>5. CASE UNCHANGED vars
  BY <1>5
<1> QED BY <1>1, <1>2, <1>3, <1>4, <1>5 DEF Next, Effect

\* Recording an access adds it, or the record is full.
LEMMA RecordGrows ==
    ASSUME accesses \in Seq(Address), NEW addr \in Address, RecordAccess(addr)
    PROVE  /\ accesses' \in Seq(Address)
           /\ \A a \in Address : Recorded(a)' => Recorded(a) \/ a = addr
           /\ \A a \in Address : Recorded(a) => Recorded(a)'
           /\ Len(accesses) < MaxRecorded => Recorded(addr)'
           /\ Len(accesses') < MaxRecorded => Len(accesses) < MaxRecorded
           /\ touched' = touched \cup {addr}
<1>1. CASE Len(accesses) < MaxRecorded
  <2>1. accesses' = Append(accesses, addr)
    BY <1>1 DEF RecordAccess
  <2>2. /\ accesses' \in Seq(Address) /\ Len(accesses') = Len(accesses) + 1
        /\ Len(accesses) \in Nat /\ accesses'[Len(accesses) + 1] = addr
        /\ \A i \in 1 .. Len(accesses) : accesses'[i] = accesses[i]
    BY <2>1
  <2>3. \A a \in Address : Recorded(a)' <=> Recorded(a) \/ a = addr
    BY <2>2 DEF Recorded
  <2> QED BY <1>1, <2>2, <2>3 DEF RecordAccess
<1>2. CASE ~(Len(accesses) < MaxRecorded)
  BY <1>2 DEF RecordAccess, Recorded
<1> QED BY <1>1, <1>2

LEMMA RecordAccessKeeps ==
    ASSUME RecordInv, NEW addr \in Address, RecordAccess(addr),
           \A a \in Address : a \in warmed' =>
             a \in warmed \/ (a = addr /\ (Recorded(a) \/ a \in Precompiles))
    PROVE  RecordInv'
<1>1. accesses \in Seq(Address)
  BY DEF RecordInv
<1>2. /\ accesses' \in Seq(Address)
      /\ \A a \in Address : Recorded(a)' => Recorded(a) \/ a = addr
      /\ \A a \in Address : Recorded(a) => Recorded(a)'
      /\ Len(accesses) < MaxRecorded => Recorded(addr)'
      /\ Len(accesses') < MaxRecorded => Len(accesses) < MaxRecorded
      /\ touched' = touched \cup {addr}
  BY <1>1, RecordGrows
<1>3. \A a \in Address : Recorded(a)' => a \in touched'
  BY <1>2 DEF RecordInv
<1>4. Len(accesses') < MaxRecorded => \A a \in Address : a \in touched' => Recorded(a)'
  BY <1>2 DEF RecordInv
<1>5. \A a \in Address : a \in warmed' => Recorded(a)' \/ a \in Precompiles
  BY <1>2 DEF RecordInv
<1> QED BY <1>2, <1>3, <1>4, <1>5 DEF RecordInv

\* An answer of access_account, and what it adds to the addresses called WARM.
LEMMA AccountAnswer ==
    ASSUME NEW addr \in Address, AccessAccount(addr)
    PROVE  /\ RecordAccess(addr)
           /\ reply'.addr = addr
           /\ reply'.status = "WARM" <=> Recorded(addr) \/ addr \in Precompiles
           /\ \A a \in Address : a \in warmed' =>
                a \in warmed \/ (a = addr /\ (Recorded(a) \/ a \in Precompiles))
<1> DEFINE warm == Recorded(addr) \/ addr \in Precompiles
<1>1. /\ RecordAccess(addr)
      /\ reply' = Reply("access_account", addr, AnyKey, IF warm THEN "WARM" ELSE "COLD", Zero, 0)
      /\ warmed' = IF warm THEN warmed \cup {addr} ELSE warmed
  BY DEF AccessAccount, Answer, Recorded
<1> HIDE DEF warm
<1>2. reply'.addr = addr /\ (reply'.status = "WARM" <=> warm)
  <2>1. CASE warm
    BY <1>1, <2>1 DEF Reply
  <2>2. CASE ~warm
    BY <1>1, <2>2 DEF Reply
  <2> QED BY <2>1, <2>2
<1>3. \A a \in Address : a \in warmed' => a \in warmed \/ (a = addr /\ warm)
  BY <1>1
<1> QED BY <1>1, <1>2, <1>3 DEF warm

LEMMA RecordInvKept ==
    ASSUME RecordInv, [Next]_vars
    PROVE  RecordInv'
<1>1. CASE Unrecorded
  BY <1>1 DEF Unrecorded, RecordInv, Recorded
<1>2. ASSUME NEW addr \in Address, JustRecords(addr) PROVE RecordInv'
  <2>1. RecordAccess(addr) /\ warmed' = warmed
    BY <1>2 DEF JustRecords
  <2> QED BY <2>1, RecordAccessKeeps
<1>3. ASSUME NEW addr \in Address, AccessAccount(addr) PROVE RecordInv'
  BY <1>3, AccountAnswer, RecordAccessKeeps
<1> QED BY <1>1, <1>2, <1>3, RecordSteps

\* record_account_access() keeps the record of accesses in step with the history of them.
THEOREM RecordInvariant == Spec => []RecordInv
<1>1. Init => RecordInv
  BY DEF Init, RecordInv, Recorded
<1> QED BY <1>1, RecordInvKept, PTL DEF Spec

LEMMA AccessIsAccessAccount ==
    ASSUME [Next]_vars, Called("access_account"), requests \in Nat
    PROVE  \E addr \in Address : AccessAccount(addr)
<1> USE DEF Called, Answer, Reply
<1>1. CASE Query
  BY <1>1 DEF Query, AccountExists, GetBalance, GetCodeSize, GetCodeHash, CopyCode, GetStorage,
              GetTxContext, GetBlockHash
<1>2. CASE \E addr \in Address : Call(addr) \/ EmitLog(addr) \/ AccessAccount(addr)
  BY <1>2 DEF Call, EmitLog
<1>3. CASE \E addr \in Address, key \in Key : AccessStorage(addr, key)
  BY <1>3 DEF AccessStorage
<1>4. CASE \E addr \in Address, key \in Key, value \in Values : SetStorage(addr, key, value)
  BY <1>4 DEF SetStorage
<1>5. CASE UNCHANGED vars
  BY <1>5 DEF vars
<1> QED BY <1>1, <1>2, <1>3, <1>4, <1>5 DEF Next, Effect

\* access_account() calls an account WARM only if a recording method was given it before or it
\* is a precompile, and does so whenever that is the case while the record has room.
THEOREM AccessAlwaysSound == Spec => AccessSound
<1> DEFINE Right == LET known == reply'.addr \in touched \cup Precompiles
                    IN  /\ reply'.status = "WARM" => known
                        /\ Len(accesses) < MaxRecorded /\ known => reply'.status = "WARM"
<1>1. ASSUME RecordInv, requests \in Nat, [Next]_vars, Called("access_account") PROVE Right
  <2>1. PICK addr \in Address : AccessAccount(addr)
    BY <1>1, AccessIsAccessAccount
  <2>2. /\ reply'.addr = addr
        /\ reply'.status = "WARM" <=> Recorded(addr) \/ addr \in Precompiles
    BY <2>1, AccountAnswer
  <2>3. /\ Recorded(addr) => addr \in touched
        /\ Len(accesses) < MaxRecorded /\ addr \in touched => Recorded(addr)
    BY <1>1 DEF RecordInv
  <2> QED BY <2>2, <2>3
<1>2. RecordInv /\ requests \in Nat /\ [Next]_vars => [Called("access_account") => Right]_vars
  BY <1>1
<1> QED BY <1>2, RecordInvariant, RequestsCounted, PTL DEF Spec, AccessSound

\* An account that access_account() has called WARM stays so, also after the record is full.
THEOREM AlwaysWarmForGood == Spec => WarmForGood
<1>1. ASSUME RecordInv, requests \in Nat, [Next]_vars, Called("access_account"),
             reply'.addr \in warmed
      PROVE  reply'.status = "WARM"
  <2>1. PICK addr \in Address : AccessAccount(addr)
    BY <1>1, AccessIsAccessAccount
  <2>2. /\ reply'.addr = addr
        /\ reply'.status = "WARM" <=> Recorded(addr) \/ addr \in Precompiles
    BY <2>1, AccountAnswer
  <2> QED BY <1>1, <2>2 DEF RecordInv
<1>2. RecordInv /\ requests \in Nat /\ [Next]_vars =>
        [Called("access_account") /\ reply'.addr \in warmed => reply'.status = "WARM"]_vars
  BY <1>1
<1> QED BY <1>2, RecordInvariant, RequestsCounted, PTL DEF Spec, WarmForGood

----------------------------------------------------------------------------
\* The storage a VM sees is a map: the host implements HostStorage.
NoStorageCall == LastStorageCall' = [method |-> "other"]

LEMMA StorageSteps ==
    ASSUME [Next]_vars
    PROVE  \/ QuietStep /\ NoStorageCall
           \/ \E addr \in Address, key \in Key : SlotAccessed(addr, key) /\ NoStorageCall
           \/ \E addr \in Address, key \in Key : GetStorage(addr, key)
           \/ \E addr \in Address, key \in Key, value \in Values : SetStorage(addr, key, value)
           \/ UNCHANGED vars
<1> USE DEF store, QuietStep, NoStorageCall, LastStorageCall, Answer, Reply
<1>1. CASE Query
  BY <1>1 DEF Query, AccountExists, GetBalance, GetCodeSize, GetCodeHash, CopyCode,
              GetTxContext, GetBlockHash
<1>2. CASE \E addr \in Address : Call(addr) \/ EmitLog(addr)
  BY <1>2 DEF Call, EmitLog
<1>3. ASSUME NEW addr \in Address, AccessAccount(addr) PROVE QuietStep /\ NoStorageCall
  <2>1. reply'.method = "access_account"
    BY <1>3 DEF AccessAccount
  <2> QED BY <1>3, <2>1 DEF AccessAccount
<1>4. CASE \E addr \in Address, key \in Key : AccessStorage(addr, key)
  BY <1>4 DEF AccessStorage, SlotAccessed
<1> QED BY <1>1, <1>2, <1>3, <1>4 DEF Next, Effect

LEMMA ViewKept ==
    ASSUME AccountsTyped, QuietStep \/ \E addr \in Address, key \in Key : SlotAccessed(addr, key)
    PROVE  StorageView' = StorageView
<1>1. CASE QuietStep
  BY <1>1 DEF QuietStep, StorageView, SlotValue, HasSlot, Exists
<1>2. CASE \E addr \in Address, key \in Key : SlotAccessed(addr, key)
  <2>1. \A a \in Address, k \in Key : SlotValue(a, k)'.current = SlotValue(a, k).current
    BY <1>2, AccessChanges
  <2>2. \A slot \in Slot : SlotValue(slot[1], slot[2])'.current = SlotValue(slot[1], slot[2]).current
    BY <2>1 DEF Slot
  <2> QED BY <2>2 DEF StorageView
<1> QED BY <1>1, <1>2

LEMMA ReadsView ==
    ASSUME NEW addr \in Address, NEW key \in Key, GetStorage(addr, key)
    PROVE  Storage!Read(<<addr, key>>)
<1>1. /\ reply' = Reply("get_storage", addr, key, "none", SlotValue(addr, key).current, 0)
      /\ QuietStep
  BY DEF GetStorage, Answer, store, QuietStep
<1>2. LastStorageCall' = [method |-> "get_storage", slot |-> <<addr, key>>,
                          value |-> SlotValue(addr, key).current]
  BY <1>1 DEF LastStorageCall, Reply
<1>3. StorageView[<<addr, key>>] = SlotValue(addr, key).current
  BY DEF StorageView, Slot
<1>4. StorageView' = StorageView
  BY <1>1 DEF QuietStep, StorageView, SlotValue, HasSlot, Exists
<1> QED BY <1>2, <1>3, <1>4 DEF Storage!Read

LEMMA WritesView ==
    ASSUME AccountsTyped, NEW addr \in Address, NEW key \in Key, NEW value \in Values,
           SetStorage(addr, key, value)
    PROVE  Storage!Write(<<addr, key>>, value)
<1>1. SlotWritten(addr, key, value)
  BY DEF SetStorage, SlotWritten
<1>2. LastStorageCall' = [method |-> "set_storage", slot |-> <<addr, key>>, value |-> value]
  <2>1. /\ reply'.method = "set_storage" /\ reply'.addr = addr /\ reply'.key = key
        /\ reply'.word = value
    BY DEF SetStorage, Answer, Reply
  <2> QED BY <2>1 DEF LastStorageCall
<1>3. \A a \in Address, k \in Key :
        SlotValue(a, k)'.current = IF a = addr /\ k = key THEN value ELSE SlotValue(a, k).current
  BY <1>1, WriteChanges
<1>4. \A slot \in Slot :
        SlotValue(slot[1], slot[2])'.current =
          IF slot = <<addr, key>> THEN value ELSE SlotValue(slot[1], slot[2]).current
  BY <1>3 DEF Slot
<1>5. StorageView' = [StorageView EXCEPT ![<<addr, key>>] = value]
  BY <1>4 DEF StorageView
<1> QED BY <1>2, <1>5 DEF Storage!Write

\* MockedHost's storage is a map to a VM: whatever it does to accounts, entries and access
\* marks, a read finds the value written last, and only a write changes one.
THEOREM StorageImplemented == Spec => ImplementsHostStorage
<1>1. Init => Storage!Init
  <2> SUFFICES ASSUME Init PROVE Storage!Init
    OBVIOUS
  <2>1. AccountsTyped
    BY HostAssumption DEF Init, AccountsTyped, Account
  <2>2. StorageView \in [Slot -> Values]
    BY <2>1, SlotTyped DEF StorageView, Slot, StorageValue
  <2>3. LastStorageCall = [method |-> "other"]
    BY DEF Init, LastStorageCall, NoReply, Reply
  <2> QED BY <2>2, <2>3 DEF Storage!Init, Storage!NotStorage
<1>2. HostInv /\ [Next]_vars => [Storage!Next]_<<StorageView, LastStorageCall>>
  <2> SUFFICES ASSUME HostInv, [Next]_vars
               PROVE  [Storage!Next]_<<StorageView, LastStorageCall>>
    OBVIOUS
  <2>1. AccountsTyped
    BY DEF HostInv
  <2>2. CASE QuietStep /\ NoStorageCall
    BY <2>1, <2>2, ViewKept DEF NoStorageCall, Storage!Next, Storage!Other, Storage!NotStorage
  <2>3. ASSUME NEW addr \in Address, NEW key \in Key, SlotAccessed(addr, key), NoStorageCall
        PROVE  Storage!Next
    BY <2>1, <2>3, ViewKept DEF NoStorageCall, Storage!Next, Storage!Other, Storage!NotStorage
  <2>4. ASSUME NEW addr \in Address, NEW key \in Key, GetStorage(addr, key)
        PROVE  Storage!Next
    BY <2>4, ReadsView DEF Storage!Next, Slot
  <2>5. ASSUME NEW addr \in Address, NEW key \in Key, NEW value \in Values,
               SetStorage(addr, key, value)
        PROVE  Storage!Next
    BY <2>1, <2>5, WritesView DEF Storage!Next, Slot
  <2>6. CASE UNCHANGED vars
    BY <2>6 DEF vars, StorageView, SlotValue, HasSlot, Exists, LastStorageCall
  <2> QED BY <2>2, <2>3, <2>4, <2>5, <2>6, StorageSteps
<1> QED BY <1>1, <1>2, HostInvariant, PTL DEF Spec, ImplementsHostStorage, Storage!Spec

----------------------------------------------------------------------------
\* BoundHost.

LEMMA ByPosition == \A i \in 1 .. Len(Members) : Interface[i] = Members[i]
BY DEF Interface, Members

\* Each step of a VM is a step of the host.
LEMMA CallMemberIsHostStep ==
    ASSUME NEW i \in 1 .. Len(Members), NEW addr \in Address, CallMember(i, addr)
    PROVE  Next
<1>1. CASE OnLog(Members[i], Interface[i], addr)
  BY <1>1 DEF OnLog, Next, Effect
<1>2. CASE OnAccount(Interface[i], addr)
  BY <1>2 DEF OnAccount, Next, Query, Effect
<1>3. CASE OnStorage(Interface[i], addr)
  BY <1>3 DEF OnStorage, Next, Query, Effect
<1>4. CASE OnBlock(Interface[i])
  BY <1>4 DEF OnBlock, Next, Query
<1> QED BY <1>1, <1>2, <1>3, <1>4 DEF CallMember

\* What VMs do to a host through its interface is what MockedHost allows: the properties
\* proved of MockedHost hold behind the table as well (Host::get_interface, HostContext).
THEOREM BoundIsMocked == BoundSpec => Spec
<1>1. BoundInit => Init
  BY DEF BoundInit
<1>2. [BoundNext]_boundVars => [Next]_vars
  BY CallMemberIsHostStep DEF BoundNext, boundVars
<1> QED BY <1>1, <1>2, PTL DEF BoundSpec, Spec

\* A host behind its interface is metered by net changes and answers accesses soundly.
THEOREM BoundSafety ==
    BoundSpec => /\ []NetMetered /\ []RefundsCovered /\ []ColdOnce
                 /\ StatusDocumented /\ AccessSound /\ WarmForGood /\ ImplementsHostStorage
BY BoundIsMocked, AlwaysNetMetered, RefundsAlwaysCovered, AlwaysColdOnce, StatusAlwaysDocumented,
   AccessAlwaysSound, AlwaysWarmForGood, StorageImplemented

----------------------------------------------------------------------------
\* Copying the topics twice keeps what copying them once does.
AtMostFour(n) == IF n <= 4 THEN n ELSE 4

LEMMA CopiedTopics ==
    ASSUME NEW t \in [null : BOOLEAN, list : Seq(Nat)]
    PROVE  LET sent == IF t.null THEN <<>> ELSE t.list
               c == Copied(t)
           IN  /\ c \in [null : BOOLEAN, list : Seq(Nat)] /\ ~c.null
               /\ Len(c.list) = AtMostFour(Len(sent))
               /\ \A j \in 1 .. Len(c.list) : c.list[j] = sent[j]
<1>1. CASE t.null
  BY <1>1 DEF Copied, NoTopics, AtMostFour
<1>2. CASE ~t.null
  <2> DEFINE n == AtMostFour(Len(t.list))
  <2>1. n \in Nat /\ n <= Len(t.list)
    BY DEF AtMostFour
  <2>2. /\ SubSeq(t.list, 1, n) \in Seq(Nat)
        /\ Len(SubSeq(t.list, 1, n)) = n
        /\ \A j \in 1 .. n : SubSeq(t.list, 1, n)[j] = t.list[j]
    BY <2>1, SubSeqProperties
  <2>3. Copied(t) = [null |-> FALSE, list |-> SubSeq(t.list, 1, n)]
    BY <1>2 DEF Copied, MaxLogTopics, AtMostFour
  <2> QED BY <1>2, <2>2, <2>3
<1> QED BY <1>1, <1>2

LEMMA CopiedTwice ==
    ASSUME NEW t \in [null : BOOLEAN, list : Seq(Nat)], NEW context \in BOOLEAN
    PROVE  LET sent == IF t.null THEN <<>> ELSE t.list
               received == Copied(IF context THEN Copied(t) ELSE t).list
           IN  /\ Len(received) = AtMostFour(Len(sent))
               /\ \A j \in 1 .. Len(received) : received[j] = sent[j]
<1>1. CASE context
  <2> DEFINE c == Copied(t)
             sent == IF t.null THEN <<>> ELSE t.list
  <2>1. /\ c \in [null : BOOLEAN, list : Seq(Nat)] /\ ~c.null
        /\ Len(c.list) = AtMostFour(Len(sent))
        /\ \A j \in 1 .. Len(c.list) : c.list[j] = sent[j]
    BY CopiedTopics
  <2> HIDE DEF c
  <2>2. /\ Len(Copied(c).list) = AtMostFour(Len(c.list))
        /\ \A j \in 1 .. Len(Copied(c).list) : Copied(c).list[j] = c.list[j]
    BY <2>1, CopiedTopics
  <2>3. Len(sent) \in Nat
    OBVIOUS
  <2>4. AtMostFour(AtMostFour(Len(sent))) = AtMostFour(Len(sent))
    BY <2>3 DEF AtMostFour
  <2>5. Len(Copied(c).list) = AtMostFour(Len(sent))
    BY <2>1, <2>2, <2>4
  <2>6. \A j \in 1 .. Len(Copied(c).list) : Copied(c).list[j] = sent[j]
    BY <2>1, <2>2, <2>4
  <2> QED BY <1>1, <2>5, <2>6 DEF c
<1>2. CASE ~context
  BY <1>2, CopiedTopics
<1> QED BY <1>1, <1>2

\* The answer of a trampoline is that of its method, about the account it was given.
LEMMA Answered ==
    ASSUME NEW trampoline, NEW addr \in Address,
           \/ OnAccount(trampoline, addr)
           \/ OnStorage(trampoline, addr)
           \/ OnBlock(trampoline) /\ addr = AnyAddress
    PROVE  reply'.method = trampoline /\ reply'.addr = addr
<1>1. ASSUME NEW key, NEW status, NEW word, NEW size,
             Answer(Reply(trampoline, addr, key, status, word, size))
      PROVE  reply'.method = trampoline /\ reply'.addr = addr
  BY <1>1 DEF Answer, Reply
<1>2. CASE OnAccount(trampoline, addr)
  <2>1. CASE trampoline = "access_account" /\ AccessAccount(addr)
    BY <2>1, <1>1 DEF AccessAccount
  <2>2. CASE trampoline = "copy_code" /\ \E b \in Buffers : CopyCode(addr, b)
    BY <2>2, <1>1 DEF CopyCode
  <2> QED BY <1>1, <1>2, <2>1, <2>2
     DEF OnAccount, AccountExists, GetBalance, GetCodeSize, GetCodeHash, Call
<1>3. CASE OnStorage(trampoline, addr)
  BY <1>1, <1>3 DEF OnStorage, GetStorage, SetStorage, AccessStorage
<1>4. CASE OnBlock(trampoline) /\ addr = AnyAddress
  BY <1>1, <1>4 DEF OnBlock, GetTxContext, GetBlockHash
<1> QED BY <1>2, <1>3, <1>4

\* Whatever member of the table a VM calls, its own method answers, about the account it
\* named, and a log has the first four topics passed (Host::get_interface, emit_log).
THEOREM AlwaysArrive == BoundSpec => []CallsArrive
<1>1. BoundInit => CallsArrive
  BY DEF BoundInit, Init, NoReply, Reply, CallsArrive, TopicsArrive, NoTopics
<1>2. CallsArrive /\ [BoundNext]_boundVars => CallsArrive'
  <2> SUFFICES ASSUME CallsArrive, [BoundNext]_boundVars PROVE CallsArrive'
    OBVIOUS
  <2>1. CASE UNCHANGED boundVars
    BY <2>1 DEF CallsArrive, TopicsArrive, boundVars, vars
  <2>2. ASSUME NEW i \in 1 .. Len(Members), NEW addr \in Address, CallMember(i, addr)
        PROVE  CallsArrive'
    <3>1. Interface[i] = Members[i]
      BY ByPosition
    <3>2. CASE OnLog(Members[i], Interface[i], addr)
      <4>1. PICK t \in TopicLists, context \in BOOLEAN :
              /\ topics' = Copied(IF context THEN Copied(t) ELSE t).list
              /\ asked' = [member |-> Members[i], addr |-> addr, topics |-> t]
        BY <3>2 DEF OnLog
      <4>2. t \in [null : BOOLEAN, list : Seq(Nat)]
        BY TopicsAssumption
      <4>3. TopicsArrive'
        BY <4>1, <4>2, CopiedTwice DEF TopicsArrive, AtMostFour
      <4>4. reply'.method = "emit_log" /\ reply'.addr = addr
        BY <3>2 DEF OnLog, EmitLog, Answer, Reply
      <4> QED BY <3>1, <3>2, <4>1, <4>3, <4>4 DEF CallsArrive, OnLog
    <3>3. ASSUME \/ OnAccount(Interface[i], addr)
                 \/ OnStorage(Interface[i], addr)
                 \/ OnBlock(Interface[i]) /\ addr = AnyAddress,
                 asked' = [member |-> Members[i], addr |-> addr, topics |-> NoTopics],
                 topics' = <<>>
          PROVE  CallsArrive'
      <4>1. reply'.method = Interface[i] /\ reply'.addr = addr
        BY <3>3, Answered
      <4> QED BY <3>1, <3>3, <4>1 DEF CallsArrive, TopicsArrive, NoTopics
    <3> QED BY <2>2, <3>2, <3>3 DEF CallMember
  <2> QED BY <2>1, <2>2 DEF BoundNext
<1> QED BY <1>1, <1>2, PTL DEF BoundSpec
=============================================================================

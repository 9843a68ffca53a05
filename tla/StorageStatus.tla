--------------------------- MODULE StorageStatus ---------------------------
(***************************************************************************)
(* How MockedHost::set_storage() classifies the change of a storage item    *)
(* from its current to a new value, given its original value (the value     *)
(* before the transaction), and what the classification must satisfy: the   *)
(* cases documented at enum qrvmc_storage_status, and the net gas metering  *)
(* of EIP-2200 for which docs/QRVM_Storage_Change_Status.md gives costs.    *)
(***************************************************************************)
EXTENDS Integers

CONSTANTS
    Values,     \* the 64-byte storage values
    Zero,       \* the value of all zero bytes
    GWarm,      \* gas of a warm access
    GSet,       \* gas of setting a storage item
    GReset,     \* gas of changing a storage item
    RClear      \* refund of clearing a storage item

ASSUME StorageAssumption ==
    /\ Zero \in Values
    /\ GWarm \in Nat /\ GSet \in Nat /\ GReset \in Nat /\ RClear \in Nat
    /\ GWarm <= GSet /\ GWarm <= GReset

StorageStatus == {"ASSIGNED", "ADDED", "DELETED", "MODIFIED", "DELETED_ADDED", "MODIFIED_DELETED",
                  "DELETED_RESTORED", "ADDED_DELETED", "MODIFIED_RESTORED"}

----------------------------------------------------------------------------
\* Clauses 3.2.1 and 3.2.2 of EIP-2200, which apply to a dirty item.
TriggeredClauses(original, current, value) ==
    {clause \in {"RemoveClearsSchedule", "AddClearsSchedule", "RestoredBySet", "RestoredByReset"} :
       CASE clause = "RemoveClearsSchedule" -> original # Zero /\ current = Zero
         [] clause = "AddClearsSchedule"    -> original # Zero /\ value = Zero
         [] clause = "RestoredBySet"        -> original = value /\ original = Zero
         [] clause = "RestoredByReset"      -> original = value /\ original # Zero}

\* Mutant of CombinedClauses: the restoring of a deleted item is not told apart.
CombinedClausesMerged(triggered) ==
    CASE "RemoveClearsSchedule" \in triggered -> "DELETED_ADDED"
      [] triggered = {"AddClearsSchedule"} -> "MODIFIED_DELETED"
      [] triggered = {"RestoredBySet"} -> "ADDED_DELETED"
      [] triggered = {"RestoredByReset"} -> "MODIFIED_RESTORED"
      [] triggered = {} -> "ASSIGNED"
      [] OTHER -> "impossible"

\* Mutant of CombinedClauses: the deletion of a modified item is not told apart.
CombinedClausesUncredited(triggered) ==
    CASE triggered = {"RemoveClearsSchedule"} -> "DELETED_ADDED"
      [] triggered = {"RemoveClearsSchedule", "RestoredByReset"} -> "DELETED_RESTORED"
      [] triggered = {"RestoredBySet"} -> "ADDED_DELETED"
      [] triggered = {"RestoredByReset"} -> "MODIFIED_RESTORED"
      [] OTHER -> "ASSIGNED"

\* The switch over them; "impossible" is assert(false).
CombinedClauses(triggered) ==
    CASE triggered = {"RemoveClearsSchedule"} -> "DELETED_ADDED"
      [] triggered = {"AddClearsSchedule"} -> "MODIFIED_DELETED"
      [] triggered = {"RemoveClearsSchedule", "RestoredByReset"} -> "DELETED_RESTORED"
      [] triggered = {"RestoredBySet"} -> "ADDED_DELETED"
      [] triggered = {"RestoredByReset"} -> "MODIFIED_RESTORED"
      [] triggered = {} -> "ASSIGNED"
      [] OTHER -> "impossible"

\* Mutant of ChangeStatus: a no-op is only recognised on a clean item.
ChangeStatusDirtyFirst(original, current, value) ==
    CASE current = value /\ original = current -> "ASSIGNED"
      [] current # value /\ original = current /\ original = Zero -> "ADDED"
      [] current # value /\ original = current /\ original # Zero ->
           IF value = Zero THEN "DELETED" ELSE "MODIFIED"
      [] OTHER -> CombinedClauses(TriggeredClauses(original, current, value))

\* The status set_storage() returns.
ChangeStatus(original, current, value) ==
    CASE current = value -> "ASSIGNED"
      [] current # value /\ original = current /\ original = Zero -> "ADDED"
      [] current # value /\ original = current /\ original # Zero ->
           IF value = Zero THEN "DELETED" ELSE "MODIFIED"
      [] OTHER -> CombinedClauses(TriggeredClauses(original, current, value))

----------------------------------------------------------------------------
\* The cases listed at the members of enum qrvmc_storage_status, o -> c -> v.
DocumentedStatus(o, c, v) ==
    CASE o = Zero /\ c = Zero /\ v # Zero -> "ADDED"
      [] o # Zero /\ c = o /\ v = Zero -> "DELETED"
      [] o # Zero /\ c = o /\ v \notin {Zero, o} -> "MODIFIED"
      [] o # Zero /\ c = Zero /\ v \notin {Zero, o} -> "DELETED_ADDED"
      [] o # Zero /\ c \notin {Zero, o} /\ v = Zero -> "MODIFIED_DELETED"
      [] o # Zero /\ c = Zero /\ v = o -> "DELETED_RESTORED"
      [] o = Zero /\ c # Zero /\ v = Zero -> "ADDED_DELETED"
      [] o # Zero /\ c \notin {Zero, o} /\ v = o -> "MODIFIED_RESTORED"
      [] OTHER -> "ASSIGNED"

\* The four checks of the comment in set_storage() and of the document's "efficient
\* implementation": dirty, restored, current and new value not zero.
FourCheckStatus(dirty, restored, current, value) ==
    CASE ~dirty /\ ~restored /\ ~current /\ value -> "ADDED"
      [] ~dirty /\ ~restored /\ current /\ ~value -> "DELETED"
      [] ~dirty /\ ~restored /\ current /\ value  -> "MODIFIED"
      [] dirty /\ ~restored /\ ~current /\ value  -> "DELETED_ADDED"
      [] dirty /\ ~restored /\ current /\ ~value  -> "MODIFIED_DELETED"
      [] dirty /\ restored /\ ~current /\ value   -> "DELETED_RESTORED"
      [] dirty /\ restored /\ current /\ ~value   -> "ADDED_DELETED"
      [] dirty /\ restored /\ current /\ value    -> "MODIFIED_RESTORED"
      [] OTHER -> "ASSIGNED"

\* What a consumer of the status charges and refunds (the document's table).
Cost(status) ==
    CASE status = "ADDED" -> GSet
      [] status \in {"DELETED", "MODIFIED"} -> GReset
      [] OTHER -> GWarm
Refund(status) ==
    CASE status \in {"DELETED", "MODIFIED_DELETED"} -> RClear
      [] status = "DELETED_ADDED" -> -RClear
      [] status = "DELETED_RESTORED" -> GReset - GWarm - RClear
      [] status = "ADDED_DELETED" -> GSet - GWarm
      [] status = "MODIFIED_RESTORED" -> GReset - GWarm
      [] OTHER -> 0

\* What an item that went from o to c owes beyond its accesses: nothing when it is clean,
\* whatever it went through.
Owed(o, c) ==
    CASE c = o -> 0
      [] c # o /\ o = Zero -> GSet - GWarm
      [] c # o /\ o # Zero -> GReset - GWarm - (IF c = Zero THEN RClear ELSE 0)

\* The refund an item holds that a later change may take back.
Revocable(o, c) == IF o # Zero /\ c = Zero THEN RClear ELSE 0
=============================================================================

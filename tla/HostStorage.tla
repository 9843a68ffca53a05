---------------------------- MODULE HostStorage ----------------------------
(***************************************************************************)
(* What a VM may expect of the storage of any Host: a total map of slots,   *)
(* zero where nothing was written, in which a read finds what was written   *)
(* last and only a write changes anything.  include/qrvmc/qrvmc.h declares  *)
(* get_storage and set_storage, and the modules of the Hosts implement this.*)
(***************************************************************************)
CONSTANTS Slot, Values

VARIABLES
    view,   \* the value of each slot
    last    \* what was last asked of the storage, and the value read or written

Read(slot) ==
    /\ last' = [method |-> "get_storage", slot |-> slot, value |-> view[slot]]
    /\ UNCHANGED view

Write(slot, value) ==
    /\ last' = [method |-> "set_storage", slot |-> slot, value |-> value]
    /\ view' = [view EXCEPT ![slot] = value]

\* Any other method of the Host.
NotStorage == [method |-> "other"]
Other == last' = NotStorage /\ UNCHANGED view

Init == view \in [Slot -> Values] /\ last = NotStorage

Next ==
    \/ \E slot \in Slot : Read(slot)
    \/ \E slot \in Slot, value \in Values : Write(slot, value)
    \/ Other

Spec == Init /\ [][Next]_<<view, last>>
=============================================================================

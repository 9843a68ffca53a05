------------------------------ MODULE CallLog -------------------------------
(***************************************************************************)
(* What the record of calls of a MockedHost promises its user: a host is a  *)
(* value.  It remembers the input of each call in order; copies and the     *)
(* hosts they were made from live on independently.                         *)
(***************************************************************************)
EXTENDS Naturals, Sequences

CONSTANTS Hosts, Inputs, MaxRecorded

VARIABLE log  \* host that exists -> the inputs of its recorded calls

Exists(h) == h \in DOMAIN log
Become(h, record) == log' = [x \in DOMAIN log \cup {h} |-> IF x = h THEN record ELSE log[x]]

Start(h) == ~Exists(h) /\ Become(h, <<>>)

Record(h) ==
    /\ Exists(h) /\ Len(log[h]) < MaxRecorded
    /\ \E input \in Inputs : Become(h, Append(log[h], input))

Forget(h) ==
    /\ Exists(h)
    /\ \E n \in 0 .. Len(log[h]) : Become(h, SubSeq(log[h], 1, n))

Copy(g, h) == Exists(g) /\ Become(h, log[g])

Move(g, h) ==
    /\ Exists(g) /\ g # h
    /\ log' = [x \in DOMAIN log \cup {h} |->
                 IF x = h THEN log[g] ELSE IF x = g THEN <<>> ELSE log[x]]

End(h) == Exists(h) /\ log' = [x \in DOMAIN log \ {h} |-> log[x]]

Init == log = <<>>

Next ==
    \/ \E h \in Hosts : Start(h) \/ Record(h) \/ Forget(h) \/ End(h)
    \/ \E g, h \in Hosts : Copy(g, h) \/ Move(g, h)

Spec == Init /\ [][Next]_log
=============================================================================

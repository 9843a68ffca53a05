------------------------------ MODULE Metered ------------------------------
(***************************************************************************)
(* What an execution promises to the host that starts it (the contracts of  *)
(* qrvmc_execute_fn and qrvmc_result in include/qrvmc/qrvmc.h): it works on *)
(* the budget of gas it was given, never increases it, and hands back at    *)
(* most what is left of it, and nothing when it fails.                      *)
(***************************************************************************)
EXTENDS Integers

VARIABLES
    phase,     \* "idle", "running" or "answered"
    budget,    \* the gas the execution may still use
    left,      \* the gas_left of the answer
    completed  \* whether the answer is SUCCESS or REVERT

vars == <<phase, budget, left, completed>>

Init == phase = "idle" /\ budget = 0 /\ left = 0 /\ completed = FALSE

Begin ==
    /\ phase = "idle" /\ phase' = "running"
    /\ budget' \in Nat
    /\ UNCHANGED <<left, completed>>

Spend ==
    /\ phase = "running"
    /\ budget' \in Nat /\ budget' <= budget
    /\ UNCHANGED <<phase, left, completed>>

Answer ==
    /\ phase = "running" /\ phase' = "answered"
    /\ completed' \in BOOLEAN
    /\ left' \in Nat
    /\ left' <= (IF completed' THEN budget ELSE 0)
    /\ budget' = 0

Take ==
    /\ phase = "answered" /\ phase' = "idle"
    /\ left' = 0 /\ completed' = FALSE
    /\ UNCHANGED budget

Next == Begin \/ Spend \/ Answer \/ Take

Spec == Init /\ [][Next]_vars
=============================================================================

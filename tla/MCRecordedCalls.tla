-------------------------- MODULE MCRecordedCalls ---------------------------
(***************************************************************************)
(* Small instances of RecordedCalls.  Which buffer malloc() returns does    *)
(* not matter, nor which of the two hosts is which.                         *)
(***************************************************************************)
EXTENDS RecordedCalls, TLC

Interchangeable == Permutations(Places) \cup Permutations(Hosts)
=============================================================================

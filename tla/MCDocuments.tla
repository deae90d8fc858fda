----------------------------- MODULE MCDocuments -----------------------------
(***************************************************************************)
(* Requests and meetings are alike: only safety is checked.                *)
(***************************************************************************)
EXTENDS Documents, TLC

Symmetry == Permutations(Requests) \cup Permutations(Meetings)
=============================================================================

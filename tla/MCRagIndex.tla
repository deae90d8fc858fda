----------------------------- MODULE MCRagIndex -----------------------------
(* The lists of meetings that are asked for, for TLC. *)
EXTENDS RagIndex

CONSTANTS m1, m2

MCQueryLists == {<<m1, m2>>}
MCJobLists == {<<m1>>}
=============================================================================

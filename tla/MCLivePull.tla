----------------------------- MODULE MCLivePull -----------------------------
(* The numbers and keys that pulls can use, for TLC. *)
EXTENDS LivePull

\* Enough for every chunk to be numbered again each time it can be fetched.
PullSeqs == 0..12
PullKeys == {<<c>> : c \in Named} \cup ({0} \cup Chunks) \X (1..BatchLimit)
=============================================================================

--------------------------- MODULE MCChunkUpload ---------------------------
(* Two chunks, each with a number and a key of its own, for TLC. *)
EXTENDS ChunkUpload, TLC

CONSTANTS h1, h2, c1, c2, k1, k2

UploadSeqs == c1 :> 0 @@ c2 :> 1
UploadKeys == c1 :> k1 @@ c2 :> k2
=============================================================================

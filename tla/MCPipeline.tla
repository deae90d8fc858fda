----------------------------- MODULE MCPipeline -----------------------------
(* The workers of the pipeline for TLC. *)
EXTENDS Pipeline, TLC

CONSTANTS w1, w2, w3, w4, w5, w6

\* One worker per stage, as docker-compose.yml starts them.
OneEach == w1 :> "stt" @@ w2 :> "enhancer" @@ w3 :> "analytics"
        @@ w4 :> "delivery" @@ w5 :> "retention"

\* A second enhancer or a second analytics worker: deploy/k8s/base starts two
\* of each.
SecondEnhancer == OneEach @@ w6 :> "enhancer"
SecondAnalytics == OneEach @@ w6 :> "analytics"
=============================================================================

------------------------------- MODULE Providers -------------------------------
(***************************************************************************)
(* Which provider of language models and of embeddings the settings mean,  *)
(* and at which address (common/provider_settings.py).  Settings grew: old *)
(* ones still count where new ones are missing.  Pure functions.           *)
(***************************************************************************)
EXTENDS FiniteSets

CONSTANT Unset

LlmProviders == {"mock", "openai_compat", "openai", "anthropic", "gemini"}
EmbeddingProviders == {"hashing", "openai_compat", "openai", "gemini"}

\* The first that is set.
First(a, b) == IF a # Unset THEN a ELSE b

\* default_llm_api_base, default_embedding_api_base
DefaultBase(provider, known) == IF provider \in known THEN provider ELSE Unset

-----------------------------------------------------------------------------

\* resolve_llm_provider: a name that is not known means a compatible service.
LlmProvider(s) ==
  CASE s.llm \in LlmProviders -> s.llm
    [] s.llm \notin LlmProviders \cup {Unset} -> "openai_compat"
    [] s.llm = Unset -> IF s.oldBase # Unset \/ s.oldKey # Unset THEN "openai_compat" ELSE "mock"

\* resolve_llm_endpoint
LlmBase(s) ==
  First(s.base, First(s.oldBase, DefaultBase(LlmProvider(s), {"openai", "anthropic", "gemini"})))

LlmKey(s) == First(s.key, s.oldKey)

\* Whether embeddings may come from where the language model is.
Shared(s) == LlmBase(s) # Unset /\ s.model # Unset

\* resolve_embedding_provider
EmbeddingProvider(s) ==
  CASE s.embedding \in EmbeddingProviders -> s.embedding
    [] s.embedding \notin EmbeddingProviders /\ s.rag \in {"hashing", "openai_compat"} -> s.rag
    [] OTHER -> IF ~Shared(s) THEN "hashing"
                ELSE IF LlmProvider(s) \in {"openai", "gemini"} THEN LlmProvider(s)
                ELSE "openai_compat"

\* resolve_embedding_endpoint
EmbeddingEndpoint(s) ==
  LET provider == EmbeddingProvider(s)
      shares == provider \in {"openai_compat", "openai"} IN
  [provider |-> provider,
   base |-> First(s.embeddingBase,
              First(IF shares THEN First(s.base, s.oldBase) ELSE Unset,
                    DefaultBase(provider, {"openai", "gemini"}))),
   key |-> First(s.embeddingKey, IF shares THEN LlmKey(s) ELSE Unset)]

-----------------------------------------------------------------------------
(* Property. *)

\* A provider of embeddings that was not named, but taken from the settings of
\* the language model, has an address; unless the language model is Anthropic's
\* at its default address, which is no address for embeddings.
TakenHasAddress(s) ==
  LET e == EmbeddingEndpoint(s) IN
  /\ s.embedding \notin EmbeddingProviders
  /\ s.rag \notin {"hashing", "openai_compat"}
  /\ ~(LlmProvider(s) = "anthropic" /\ s.base = Unset /\ s.oldBase = Unset)
  => e.provider = "hashing" \/ e.base # Unset
=============================================================================

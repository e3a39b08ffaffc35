------------------------------- MODULE LlmClient -------------------------------
(***************************************************************************)
(* The language model of the ingestion and its cache                       *)
(* (backend/ingest/llm.py over the llm_cache of backend/ingest/store.py).  *)
(*                                                                         *)
(* An answer is cached before anybody validated it, under a key that names *)
(* the inputs the caller chose, not the prompt.  A call is taken as one    *)
(* step: of two processes that ask for one key at a time, both use their   *)
(* own answer and the later one stays, as if they had asked in turn.       *)
(***************************************************************************)
EXTENDS Naturals, FiniteSets, Sequences, SequencesExt

CONSTANTS CacheKeys, Answers

VARIABLE cache   \* llm_cache: the answer stored for a key, if there is one

Cached(key) == key \in DOMAIN cache

Stored(key, answer) == [k \in DOMAIN cache \cup {key} |-> IF k = key THEN answer ELSE cache[k]]

\* A call without the cache replaces what is stored.
AskAnew(key, answer) == cache' = Stored(key, answer)

\* Otherwise the stored answer, if there is one, is what the caller gets.
Extract(key, answer) ==
  \/ Cached(key) /\ answer = cache[key] /\ UNCHANGED cache
  \/ ~Cached(key) /\ AskAnew(key, answer)

\* The SDK raises, or what it returns is not JSON: nothing is stored.
CallFails(key) == ~Cached(key) /\ UNCHANGED cache
CallAnewFails == UNCHANGED cache

LlmInit == cache = [k \in {} |-> 0]
LlmTypeOK == DOMAIN cache \subseteq CacheKeys /\ \A k \in DOMAIN cache : cache[k] \in Answers
=============================================================================

----------------------------- MODULE MCLLMPool ------------------------------
(* The instance of LLMPool that TLC checks: two callers and two keys.      *)
EXTENDS LLMPool

MCKeys == <<"k1", "k2">>
=============================================================================

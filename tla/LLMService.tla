----------------------------- MODULE LLMService -----------------------------
(* What the pool of language models (core/llm_pool.py) promises its        *)
(* callers, whatever happens between its threads: the local runner serves  *)
(* one of them at a time, and a request is refused only when every route   *)
(* that is switched on has refused it.                                     *)
CONSTANTS
    Threads,   \* the worker threads that call create_chat_completion
    Routes     \* the routes that are switched on

VARIABLES
    request,   \* what became of the last request of a thread
    refused,   \* the routes that have refused the open one
    running    \* the threads that the local runner works for

vars == <<request, refused, running>>

Init ==
    /\ request = [t \in Threads |-> "none"]
    /\ refused = [t \in Threads |-> {}]
    /\ running = {}

Ask(t) ==
    /\ request[t] # "open"
    /\ request' = [request EXCEPT ![t] = "open"]
    /\ UNCHANGED <<refused, running>>

StartLocal(t) ==
    /\ request[t] = "open"
    /\ "local" \in Routes \ refused[t]
    /\ running = {}
    /\ running' = {t}
    /\ UNCHANGED <<request, refused>>

(* The local run is over, with an answer or with a refusal.                *)
EndLocal(t) ==
    /\ t \in running
    /\ running' = running \ {t}
    /\ refused' \in {refused, [refused EXCEPT ![t] = @ \cup {"local"}]}
    /\ UNCHANGED request

Refuse(t, route) ==
    /\ request[t] = "open" /\ t \notin running
    /\ route \in Routes \ refused[t]
    /\ refused' = [refused EXCEPT ![t] = @ \cup {route}]
    /\ UNCHANGED <<request, running>>

Answer(t) ==
    /\ request[t] = "open" /\ t \notin running
    /\ refused[t] # Routes
    /\ request' = [request EXCEPT ![t] = "answered"]
    /\ refused' = [refused EXCEPT ![t] = {}]
    /\ UNCHANGED running

Fail(t) ==
    /\ request[t] = "open" /\ t \notin running
    /\ refused[t] = Routes
    /\ request' = [request EXCEPT ![t] = "failed"]
    /\ refused' = [refused EXCEPT ![t] = {}]
    /\ UNCHANGED running

Next ==
    \E t \in Threads :
       \/ Ask(t) \/ StartLocal(t) \/ EndLocal(t) \/ Answer(t) \/ Fail(t)
       \/ \E route \in Routes : Refuse(t, route)

Spec == Init /\ [][Next]_vars
=============================================================================

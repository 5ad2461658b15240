------------------------------ MODULE LLMPool -------------------------------
(* RoutedLLMPool and LLMKeyPool (core/llm_pool.py). The journalist, the    *)
(* World's governors and the hypothesis loop share one pool and call it    *)
(* from worker threads (asyncio.to_thread), so its methods interleave at   *)
(* every access to a shared attribute; only the local runner is guarded,   *)
(* by a semaphore of one permit.                                           *)
(*                                                                         *)
(* Abstracted data: an answer is only an answer, an exception only a quota *)
(* error or another one. The rotation index is kept modulo Period, a       *)
(* multiple of every length that it is reduced by. A local variable takes  *)
(* its first value again when its frame is left.                           *)
EXTENDS Integers, Sequences, SequencesExt

CONSTANTS
    Threads,    \* worker threads
    Keys,       \* LLMKeyPool._keys, a sequence
    Routes,     \* the routes that are switched on
    Cooldown,   \* cooldown_s in ticks
    Period

ASSUME LLMPoolAssumption ==
    /\ Routes \subseteq {"local", "remote"}
    /\ Keys \in Seq(ToSet(Keys)) /\ Len(Keys) > 0
    /\ IsInjective(Keys)   \* parse_llm_api_keys drops what it has seen
    /\ Cooldown \in Nat \ {0}
    /\ Period \in Nat \ {0}
    /\ \A n \in 1 .. Len(Keys) : Period % n = 0

VARIABLES
    localFirst,     \* RoutedLLMPool._local_first
    permits,        \* value of _local_lock, a BoundedSemaphore(1)
    cool,           \* what is left of _exhausted_until of each key
    index,          \* _rr_index
    provider,       \* _last_provider
    pc,             \* where each thread is
    errors,         \* the routes in its errors list
    order,          \* the keys that ordered_keys gave it, as far as untried
    seen,           \* the index it has read
    succeeded,      \* the local call returned rather than raised
    outcome         \* how its last request ended

shared == <<localFirst, permits, cool, index, provider>>
local == <<pc, errors, order, seen, succeeded, outcome>>
vars == <<shared, local>>

Goto(t, label) == pc' = [pc EXCEPT ![t] = label]

(* The route has raised: the caller's loop goes on to the next one.        *)
Raise(t, route) ==
    /\ errors' = [errors EXCEPT ![t] = @ \cup {route}]
    /\ Goto(t, "route")

-----------------------------------------------------------------------------
Init ==
    /\ localFirst \in BOOLEAN
    /\ permits = 1
    /\ cool = [k \in ToSet(Keys) |-> 0]
    /\ index = 0
    /\ provider = "none"
    /\ pc = [t \in Threads |-> "idle"]
    /\ errors = [t \in Threads |-> {}]
    /\ order = [t \in Threads |-> <<>>]
    /\ seen = [t \in Threads |-> 0]
    /\ succeeded = [t \in Threads |-> FALSE]
    /\ outcome = [t \in Threads |-> "none"]

(* create_chat_completion is called.                                       *)
Ask(t) ==
    /\ pc[t] = "idle"
    /\ Goto(t, "route")
    /\ UNCHANGED <<shared, errors, order, seen, succeeded, outcome>>

(* The loop over `routes`: the next one that is enabled and has not raised.*)
TakeRoute(t, route, label) ==
    /\ pc[t] = "route"
    /\ route \in Routes \ errors[t]
    /\ Routes \ errors[t] = {route} \/ (route = "local") = localFirst
    /\ Goto(t, label)
    /\ UNCHANGED <<shared, errors, order, seen, succeeded, outcome>>

(* Every route has raised, or none is enabled.                             *)
Fail(t) ==
    /\ pc[t] = "route"
    /\ Routes \ errors[t] = {}
    /\ provider' = "failed"
    /\ outcome' = [outcome EXCEPT ![t] = "failed"]
    /\ errors' = [errors EXCEPT ![t] = {}]
    /\ Goto(t, "idle")
    /\ UNCHANGED <<localFirst, permits, cool, index, order, seen, succeeded>>

-----------------------------------------------------------------------------
(* _call_local.                                                            *)

(* Mutant: the runner is taken whether or not the permit was acquired.     *)
TakesWithoutWaiting(t) ==
    /\ pc[t] = "acquire"
    /\ permits' = 0
    /\ Goto(t, "local")
    /\ UNCHANGED <<localFirst, cool, index, provider,
                   errors, order, seen, succeeded, outcome>>

Acquire(t) ==
    /\ pc[t] = "acquire"
    /\ permits > 0
    /\ permits' = permits - 1
    /\ Goto(t, "local")
    /\ UNCHANGED <<localFirst, cool, index, provider,
                   errors, order, seen, succeeded, outcome>>

(* Mutant: `finally` covers the acquire, so that a timeout releases too.   *)
TimeoutReleases(t) ==
    /\ pc[t] = "acquire"
    /\ permits = 0
    /\ permits' = 1
    /\ Raise(t, "local")
    /\ UNCHANGED <<localFirst, cool, index, provider,
                   order, seen, succeeded, outcome>>

(* Not acquired within local_queue_timeout_s: TimeoutError.                *)
AcquireTimesOut(t) ==
    /\ pc[t] = "acquire"
    /\ permits = 0
    /\ Raise(t, "local")
    /\ UNCHANGED <<shared, order, seen, succeeded, outcome>>

(* The runner answers or raises; its client has a timeout.                 *)
LocalReturns(t) ==
    /\ pc[t] = "local"
    /\ \E ok \in BOOLEAN : succeeded' = [succeeded EXCEPT ![t] = ok]
    /\ Goto(t, "release")
    /\ UNCHANGED <<shared, errors, order, seen, outcome>>

(* finally: self._local_lock.release().                                    *)
Release(t) ==
    /\ pc[t] = "release"
    /\ permits' = permits + 1
    /\ IF succeeded[t] THEN Goto(t, "note_local") /\ UNCHANGED errors
                       ELSE Raise(t, "local")
    /\ succeeded' = [succeeded EXCEPT ![t] = FALSE]
    /\ UNCHANGED <<localFirst, cool, index, provider, order, seen, outcome>>

(* _last_provider is written after the permit was given back.              *)
NoteAnswer(t, label, name) ==
    /\ pc[t] = label
    /\ provider' = name
    /\ outcome' = [outcome EXCEPT ![t] = "answered"]
    /\ errors' = [errors EXCEPT ![t] = {}]
    /\ Goto(t, "idle")
    /\ UNCHANGED <<localFirst, permits, cool, index, order, seen, succeeded>>

-----------------------------------------------------------------------------
(* LLMKeyPool.                                                             *)

(* [k for k in self._keys if ... <= now]: the keys that are not cooling    *)
(* among the first n, in the order of the pool.                            *)
Warm[n \in 0 .. Len(Keys)] ==
    IF n = 0 THEN <<>>
    ELSE IF cool[Keys[n]] = 0 THEN Append(Warm[n - 1], Keys[n])
    ELSE Warm[n - 1]

Active == IF Warm[Len(Keys)] = <<>> THEN Keys ELSE Warm[Len(Keys)]

(* Mutant: the keys before the start are forgotten.                        *)
CutRound(active, start) ==
    SubSeq(active, start + 1, Len(active))

(* active[start:] + active[:start].                                        *)
Round(active, start) ==
    SubSeq(active, start + 1, Len(active)) \o SubSeq(active, 1, start)

(* ordered_keys reads the cooldowns and the index...                       *)
OrderKeys(t) ==
    /\ pc[t] = "order"
    /\ order' = [order EXCEPT ![t] = Round(Active, index % Len(Active))]
    /\ Goto(t, "load")
    /\ UNCHANGED <<shared, errors, seen, succeeded, outcome>>

(* ... and `self._rr_index += 1` reads it again, and writes it.            *)
LoadIndex(t) ==
    /\ pc[t] = "load"
    /\ seen' = [seen EXCEPT ![t] = index]
    /\ Goto(t, "store")
    /\ UNCHANGED <<shared, errors, order, succeeded, outcome>>

StoreIndex(t) ==
    /\ pc[t] = "store"
    /\ index' = (seen[t] + 1) % Period
    /\ seen' = [seen EXCEPT ![t] = 0]
    /\ Goto(t, "call")
    /\ UNCHANGED <<localFirst, permits, cool, provider,
                   errors, order, succeeded, outcome>>

KeyAnswers(t) ==
    /\ pc[t] = "call" /\ order[t] # <<>>
    /\ order' = [order EXCEPT ![t] = <<>>]
    /\ Goto(t, "note_remote")
    /\ UNCHANGED <<shared, errors, seen, succeeded, outcome>>

(* Mutant: the same key is tried again.                                    *)
RetriesSameKey(t) ==
    /\ pc[t] = "call" /\ order[t] # <<>>
    /\ cool' = [cool EXCEPT ![Head(order[t])] = Cooldown]
    /\ UNCHANGED <<localFirst, permits, index, provider, local>>

(* A quota error: mark_exhausted, and on to the next key.                  *)
KeyExhausted(t) ==
    /\ pc[t] = "call" /\ order[t] # <<>>
    /\ cool' = [cool EXCEPT ![Head(order[t])] = Cooldown]
    /\ order' = [order EXCEPT ![t] = Tail(@)]
    /\ UNCHANGED <<localFirst, permits, index, provider,
                   pc, errors, seen, succeeded, outcome>>

(* Any other error is raised at once.                                      *)
KeyFails(t) ==
    /\ pc[t] = "call" /\ order[t] # <<>>
    /\ order' = [order EXCEPT ![t] = <<>>]
    /\ Raise(t, "remote")
    /\ UNCHANGED <<shared, seen, succeeded, outcome>>

(* "All LLM API keys exhausted".                                           *)
AllExhausted(t) ==
    /\ pc[t] = "call" /\ order[t] = <<>>
    /\ Raise(t, "remote")
    /\ UNCHANGED <<shared, order, seen, succeeded, outcome>>

(* time.monotonic moves on.                                                *)
Tick ==
    /\ \E k \in DOMAIN cool : cool[k] > 0
    /\ cool' = [k \in DOMAIN cool |-> IF cool[k] > 0 THEN cool[k] - 1 ELSE 0]
    /\ UNCHANGED <<localFirst, permits, index, provider, local>>

-----------------------------------------------------------------------------
Local(t) ==
    \/ TakeRoute(t, "local", "acquire")
    \/ Acquire(t) \/ AcquireTimesOut(t) \/ LocalReturns(t) \/ Release(t)
    \/ NoteAnswer(t, "note_local", "ollama")

Remote(t) ==
    \/ TakeRoute(t, "remote", "order")
    \/ OrderKeys(t) \/ LoadIndex(t) \/ StoreIndex(t)
    \/ KeyAnswers(t) \/ KeyExhausted(t) \/ KeyFails(t) \/ AllExhausted(t)
    \/ NoteAnswer(t, "note_remote", "remote")

(* What a thread does about its request, without waiting for its caller.   *)
Serve(t) == Local(t) \/ Remote(t) \/ Fail(t)

Next == Tick \/ \E t \in Threads : Ask(t) \/ Serve(t)

(* A running thread is scheduled, and every call it makes has a timeout.   *)
Spec == Init /\ [][Next]_vars /\ \A t \in Threads : WF_vars(Serve(t))

-----------------------------------------------------------------------------
Labels == {"idle", "route", "acquire", "local", "release", "note_local",
           "order", "load", "store", "call", "note_remote"}

(* The permit is there exactly when nobody has the runner, so that the     *)
(* BoundedSemaphore is never released above its bound.                     *)
Holds(t) == pc[t] \in {"local", "release"}

Typed ==
    /\ localFirst \in BOOLEAN
    /\ permits \in {0, 1}
    /\ permits = 1 <=> \A t \in Threads : ~Holds(t)
    /\ cool \in [ToSet(Keys) -> 0 .. Cooldown]
    /\ index \in 0 .. Period - 1
    /\ provider \in {"none", "ollama", "remote", "failed"}
    /\ pc \in [Threads -> Labels]
    /\ errors \in [Threads -> SUBSET Routes]
    /\ seen \in [Threads -> 0 .. Period - 1]
    /\ succeeded \in [Threads -> BOOLEAN]
    /\ outcome \in [Threads -> {"none", "answered", "failed"}]

(* The keys that a request has yet to try are keys, none of them twice.    *)
OrderTyped ==
    /\ order \in [Threads -> Seq(ToSet(Keys))]
    /\ \A t \in Threads : IsInjective(order[t])

TypeOK == Typed /\ OrderTyped

(* What a caller sees of the pool.                                         *)
Request == [t \in Threads |-> IF pc[t] = "idle" THEN outcome[t] ELSE "open"]

Running == {t \in Threads : Holds(t)}

(* RoutedLLMPool promises that "local inference is serialized" and that    *)
(* the remote pool is a "resilience fallback": the pool implements         *)
(* LLMService, in which the runner works for one thread at a time and a    *)
(* request fails only when every enabled route has refused it.             *)
Service == INSTANCE LLMService WITH
    request <- Request, refused <- errors, running <- Running

ImplementsService == Service!Spec

(* The rotation index is raced and the keys it rotates come and go: still  *)
(* a request that has ordered the keys has before it, once each, all that  *)
(* are not cooling or, when all are, all there are.                        *)
RoundIsComplete ==
    [][\A t \in Threads :
          LET warm == {k \in ToSet(Keys) : cool[k] = 0}
              round == ToSet(order'[t])
          IN OrderKeys(t) =>
                /\ round = IF warm = {} THEN ToSet(Keys) ELSE warm
                /\ Len(order'[t]) = Cardinality(round)]_vars

(* Every request ends, answered or refused.                                *)
EveryRequestEnds == \A t \in Threads : (pc[t] # "idle") ~> (pc[t] = "idle")
=============================================================================

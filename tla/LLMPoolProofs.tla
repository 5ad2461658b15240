--------------------------- MODULE LLMPoolProofs ----------------------------
(* Machine-checked facts about the pool of language models, for any set of *)
(* threads and any keys: it keeps its types, implements LLMService, and    *)
(* gives every request a complete round of the keys.                       *)
EXTENDS LLMPool, FiniteSetTheorems, WellFoundedInduction, SequenceTheorems, TLAPS

(* The permit is with one thread at most.                                  *)
Serialized == \A a, b \in Threads : Holds(a) /\ Holds(b) => a = b

(* A thread is on a route that is enabled and has not refused it yet.      *)
OnOpenRoute ==
    \A t \in Threads :
       /\ pc[t] \in {"acquire", "local", "release", "note_local"} =>
             "local" \in Routes \ errors[t]
       /\ pc[t] \in {"order", "load", "store", "call", "note_remote"} =>
             "remote" \in Routes \ errors[t]

IInv == Typed /\ Serialized /\ OnOpenRoute

-----------------------------------------------------------------------------
LEMMA InitIInv == Init => IInv
<1> SUFFICES ASSUME Init PROVE IInv
    OBVIOUS
<1>1. /\ localFirst \in BOOLEAN /\ permits = 1 /\ index \in 0 .. Period - 1
      /\ provider = "none" /\ \A t \in Threads : pc[t] = "idle"
    BY LLMPoolAssumption DEF Init, LLMPoolAssumption
<1>2. cool \in [ToSet(Keys) -> 0 .. Cooldown] /\ seen \in [Threads -> 0 .. Period - 1]
    BY LLMPoolAssumption DEF Init, LLMPoolAssumption
<1>3. /\ pc \in [Threads -> Labels] /\ errors \in [Threads -> SUBSET Routes]
      /\ succeeded \in [Threads -> BOOLEAN]
      /\ outcome \in [Threads -> {"none", "answered", "failed"}]
    BY DEF Init, Labels
<1>4. Typed
    BY <1>1, <1>2, <1>3 DEF Typed, Holds
<1>5. Serialized /\ OnOpenRoute
    BY <1>1 DEF Serialized, OnOpenRoute, Holds
<1> QED
    BY <1>4, <1>5 DEF IInv

(* A step of one thread that leaves the permit and the runner alone.       *)
LEMMA ElsewhereIInv ==
    ASSUME IInv, NEW t \in Threads, NEW from \in Labels, NEW to \in Labels,
           pc[t] = from, pc' = [pc EXCEPT ![t] = to],
           from \notin {"local", "release"}, to \notin {"local", "release"},
           UNCHANGED permits
    PROVE  /\ (permits = 1 <=> \A u \in Threads : ~Holds(u))'
           /\ permits' \in {0, 1}
           /\ Serialized' /\ Running' = Running /\ t \notin Running
           /\ pc' \in [Threads -> Labels]
<1>1. \A u \in Threads : pc'[u] = IF u = t THEN to ELSE pc[u]
    BY DEF IInv, Typed
<1>2. \A u \in Threads : Holds(u)' <=> Holds(u)
    BY <1>1 DEF Holds
<1>3. Running' = Running /\ t \notin Running
    BY <1>2 DEF Running, Holds
<1> QED
    BY <1>2, <1>3 DEF IInv, Typed, Serialized

(* What a caller sees of a step that does not end or begin a request.      *)
LEMMA RequestStays ==
    ASSUME IInv, NEW t \in Threads, NEW to \in Labels,
           pc[t] # "idle", to # "idle", pc' = [pc EXCEPT ![t] = to],
           outcome' = outcome
    PROVE  Request' = Request
<1>1. \A u \in Threads : pc'[u] = IF u = t THEN to ELSE pc[u]
    BY DEF IInv, Typed
<1>2. \A u \in Threads : pc'[u] = "idle" <=> pc[u] = "idle"
    BY <1>1
<1> QED
    BY <1>2 DEF Request

(* What a caller sees of a step that ends a request.                       *)
LEMMA RequestEnds ==
    ASSUME IInv, NEW t \in Threads, NEW how, pc[t] # "idle",
           pc' = [pc EXCEPT ![t] = "idle"], outcome' = [outcome EXCEPT ![t] = how]
    PROVE  Request[t] = "open" /\ Request' = [Request EXCEPT ![t] = how]
<1>1. \A u \in Threads : /\ pc'[u] = IF u = t THEN "idle" ELSE pc[u]
                         /\ outcome'[u] = IF u = t THEN how ELSE outcome[u]
    BY DEF IInv, Typed
<1>2. \A u \in Threads :
         (IF pc'[u] = "idle" THEN outcome'[u] ELSE "open")
            = IF u = t THEN how ELSE IF pc[u] = "idle" THEN outcome[u] ELSE "open"
    BY <1>1
<1> QED
    BY <1>2 DEF Request

-----------------------------------------------------------------------------
(* Every step keeps the invariant and is a step of the service or a        *)
(* stutter: one lemma per action.                                          *)

LEMMA AskStep ==
    ASSUME IInv, NEW t \in Threads, Ask(t)
    PROVE  IInv' /\ Service!Ask(t)
<1>1. pc[t] = "idle" /\ pc' = [pc EXCEPT ![t] = "route"] /\ errors' = errors
      /\ UNCHANGED <<localFirst, permits, cool, index, provider, seen, succeeded, outcome>>
    BY DEF Ask, Goto, shared
<1>2. /\ (permits = 1 <=> \A u \in Threads : ~Holds(u))' /\ permits' \in {0, 1}
      /\ Serialized' /\ Running' = Running /\ pc' \in [Threads -> Labels]
    BY <1>1, ElsewhereIInv DEF Labels
<1>3. Typed'
    BY <1>1, <1>2 DEF IInv, Typed
<1>4. \A u \in Threads : pc'[u] = IF u = t THEN "route" ELSE pc[u]
    BY <1>1 DEF IInv, Typed
<1>5. OnOpenRoute'
    BY <1>1, <1>4 DEF IInv, OnOpenRoute
<1>6. \A u \in Threads :
         (IF pc'[u] = "idle" THEN outcome'[u] ELSE "open")
            = IF u = t THEN "open" ELSE IF pc[u] = "idle" THEN outcome[u] ELSE "open"
    BY <1>1, <1>4
<1>7. Request' = [Request EXCEPT ![t] = "open"]
    BY <1>6 DEF Request
<1>8. Request[t] = outcome[t] /\ outcome[t] \in {"none", "answered", "failed"}
    BY <1>1 DEF Request, IInv, Typed
<1> QED
    BY <1>1, <1>2, <1>3, <1>5, <1>7, <1>8 DEF IInv, Service!Ask

LEMMA TakeRouteStep ==
    ASSUME IInv, NEW t \in Threads, NEW route \in {"local", "remote"},
           NEW label \in Labels, TakeRoute(t, route, label),
           label = IF route = "local" THEN "acquire" ELSE "order"
    PROVE  IInv' /\ UNCHANGED <<Request, errors, Running>>
<1>1. pc[t] = "route" /\ pc' = [pc EXCEPT ![t] = label] /\ route \in Routes \ errors[t]
      /\ UNCHANGED <<localFirst, permits, cool, index, provider,
                     errors, seen, succeeded, outcome>>
    BY DEF TakeRoute, Goto, shared
<1>2. /\ (permits = 1 <=> \A u \in Threads : ~Holds(u))' /\ permits' \in {0, 1}
      /\ Serialized' /\ Running' = Running /\ pc' \in [Threads -> Labels]
    BY <1>1, ElsewhereIInv DEF Labels
<1>3. Typed'
    BY <1>1, <1>2 DEF IInv, Typed
<1>4. \A u \in Threads : pc'[u] = IF u = t THEN label ELSE pc[u]
    BY <1>1 DEF IInv, Typed
<1>5. OnOpenRoute'
    BY <1>1, <1>4 DEF IInv, OnOpenRoute
<1>6. Request' = Request
    BY <1>1, RequestStays
<1> QED
    BY <1>1, <1>2, <1>3, <1>5, <1>6 DEF IInv

LEMMA FailStep ==
    ASSUME IInv, NEW t \in Threads, Fail(t)
    PROVE  IInv' /\ Service!Fail(t)
<1>1. pc[t] = "route" /\ pc' = [pc EXCEPT ![t] = "idle"]
      /\ errors' = [errors EXCEPT ![t] = {}] /\ provider' = "failed"
      /\ outcome' = [outcome EXCEPT ![t] = "failed"]
      /\ Routes \ errors[t] = {}
      /\ UNCHANGED <<localFirst, permits, cool, index, seen, succeeded>>
    BY DEF Fail, Goto
<1>2. /\ (permits = 1 <=> \A u \in Threads : ~Holds(u))' /\ permits' \in {0, 1}
      /\ Serialized' /\ Running' = Running /\ pc' \in [Threads -> Labels]
      /\ t \notin Running
    BY <1>1, ElsewhereIInv DEF Labels
<1>3. Typed'
    BY <1>1, <1>2 DEF IInv, Typed
<1>4. \A u \in Threads : pc'[u] = IF u = t THEN "idle" ELSE pc[u]
    BY <1>1 DEF IInv, Typed
<1>5. \A u \in Threads : errors'[u] = IF u = t THEN {} ELSE errors[u]
    BY <1>1 DEF IInv, Typed
<1>6. OnOpenRoute'
    BY <1>1, <1>4, <1>5 DEF IInv, OnOpenRoute
<1>7. errors[t] = Routes
    BY <1>1 DEF IInv, Typed
<1> QED
    BY <1>1, <1>2, <1>3, <1>6, <1>7, RequestEnds DEF IInv, Service!Fail

RemoteLabels == {"order", "load", "store", "call", "note_remote"}

LEMMA AcquireStep ==
    ASSUME IInv, NEW t \in Threads, Acquire(t)
    PROVE  IInv' /\ Service!StartLocal(t)
<1>1. pc[t] = "acquire" /\ pc' = [pc EXCEPT ![t] = "local"]
      /\ permits > 0 /\ permits' = permits - 1
      /\ UNCHANGED <<localFirst, cool, index, provider, errors, seen, succeeded, outcome>>
    BY DEF Acquire, Goto
<1>2. permits = 1 /\ permits' = 0 /\ \A u \in Threads : ~Holds(u)
    BY <1>1 DEF IInv, Typed
<1>3. \A u \in Threads : pc'[u] = IF u = t THEN "local" ELSE pc[u]
    BY <1>1 DEF IInv, Typed
<1>4. \A u \in Threads : Holds(u)' <=> u = t
    BY <1>2, <1>3 DEF Holds
<1>5. pc' \in [Threads -> Labels]
    BY <1>1 DEF IInv, Typed, Labels
<1>6. Typed'
    BY <1>1, <1>2, <1>4, <1>5 DEF IInv, Typed
<1>7. Serialized' /\ OnOpenRoute'
    BY <1>1, <1>3, <1>4 DEF IInv, Serialized, OnOpenRoute
<1>8. Running = {} /\ Running' = {t}
    BY <1>2, <1>4 DEF Running
<1>9. Request' = Request
    BY <1>1, RequestStays DEF Labels
<1>10. Request[t] = "open" /\ "local" \in Routes \ errors[t]
    BY <1>1 DEF Request, IInv, OnOpenRoute
<1> QED
    BY <1>1, <1>6, <1>7, <1>8, <1>9, <1>10 DEF IInv, Service!StartLocal

LEMMA LocalReturnsStep ==
    ASSUME IInv, NEW t \in Threads, LocalReturns(t)
    PROVE  IInv' /\ UNCHANGED <<Request, errors, Running>>
<1>1. pc[t] = "local" /\ pc' = [pc EXCEPT ![t] = "release"]
      /\ \E ok \in BOOLEAN : succeeded' = [succeeded EXCEPT ![t] = ok]
      /\ UNCHANGED <<localFirst, permits, cool, index, provider, errors, seen, outcome>>
    BY DEF LocalReturns, Goto, shared
<1>2. \A u \in Threads : pc'[u] = IF u = t THEN "release" ELSE pc[u]
    BY <1>1 DEF IInv, Typed
<1>3. \A u \in Threads : Holds(u)' <=> Holds(u)
    BY <1>1, <1>2 DEF Holds
<1>4. pc' \in [Threads -> Labels]
    BY <1>1 DEF IInv, Typed, Labels
<1>5. succeeded' \in [Threads -> BOOLEAN]
    BY <1>1 DEF IInv, Typed
<1>6. Typed'
    BY <1>1, <1>3, <1>4, <1>5 DEF IInv, Typed
<1>7. Serialized' /\ OnOpenRoute' /\ Running' = Running
    BY <1>1, <1>2, <1>3 DEF IInv, Serialized, OnOpenRoute, Running
<1>8. Request' = Request
    BY <1>1, RequestStays DEF Labels
<1> QED
    BY <1>1, <1>6, <1>7, <1>8 DEF IInv

LEMMA ReleaseStep ==
    ASSUME IInv, NEW t \in Threads, Release(t)
    PROVE  IInv' /\ Service!EndLocal(t)
<1> DEFINE to == IF succeeded[t] THEN "note_local" ELSE "route"
<1>1. /\ pc[t] = "release" /\ permits' = permits + 1
      /\ pc' = [pc EXCEPT ![t] = to]
      /\ \/ errors' = errors
         \/ to = "route" /\ errors' = [errors EXCEPT ![t] = @ \cup {"local"}]
      /\ succeeded' = [succeeded EXCEPT ![t] = FALSE]
      /\ UNCHANGED <<localFirst, cool, index, provider, seen, outcome>>
    BY DEF Release, Goto, Raise
<1>2. to \in {"note_local", "route"}
    OBVIOUS
<1> HIDE DEF to
<1>3. Holds(t) /\ permits = 0
    BY <1>1 DEF Holds, IInv, Typed
<1>4. \A u \in Threads : pc'[u] = IF u = t THEN to ELSE pc[u]
    BY <1>1 DEF IInv, Typed
<1>5. \A u \in Threads : ~Holds(u)'
    BY <1>2, <1>3, <1>4 DEF Holds, IInv, Serialized
<1>6. pc' \in [Threads -> Labels]
    BY <1>1, <1>2 DEF IInv, Typed, Labels
<1>7. "local" \in Routes \ errors[t] /\ errors \in [Threads -> SUBSET Routes]
    BY <1>1 DEF IInv, OnOpenRoute, Typed
<1>8. errors' \in [Threads -> SUBSET Routes]
    BY <1>1, <1>7
<1>9. \A u \in Threads : u # t => errors'[u] = errors[u]
    BY <1>1, <1>7
<1>10. to = "note_local" => errors' = errors
    BY <1>1
<1>11. succeeded' \in [Threads -> BOOLEAN]
    BY <1>1 DEF IInv, Typed
<1>12. Typed'
    BY <1>1, <1>3, <1>5, <1>6, <1>8, <1>11 DEF IInv, Typed
<1>13. Serialized' /\ OnOpenRoute'
    BY <1>2, <1>4, <1>5, <1>7, <1>9, <1>10 DEF IInv, Serialized, OnOpenRoute
<1>14. Running = {t} /\ Running' = {}
    BY <1>3, <1>5 DEF Running, IInv, Serialized
<1>15. Request' = Request
    BY <1>1, <1>2, RequestStays DEF Labels
<1>16. Service!EndLocal(t)
    BY <1>1, <1>14, <1>15 DEF Service!EndLocal
<1> QED
    BY <1>12, <1>13, <1>16 DEF IInv

(* A step that gives a route up, other than by a release.                  *)
LEMMA RaiseStep ==
    ASSUME IInv, NEW t \in Threads, NEW route \in {"local", "remote"}, Raise(t, route),
           pc[t] = IF route = "local" THEN "acquire" ELSE "call",
           UNCHANGED <<shared, seen, succeeded, outcome>>
    PROVE  IInv' /\ Service!Refuse(t, route)
<1>1. pc' = [pc EXCEPT ![t] = "route"]
      /\ errors' = [errors EXCEPT ![t] = @ \cup {route}]
      /\ UNCHANGED <<localFirst, permits, cool, index, provider, seen, succeeded, outcome>>
    BY DEF Raise, Goto, shared
<1>2. /\ (permits = 1 <=> \A u \in Threads : ~Holds(u))' /\ permits' \in {0, 1}
      /\ Serialized' /\ Running' = Running /\ pc' \in [Threads -> Labels]
      /\ t \notin Running
    BY <1>1, ElsewhereIInv DEF Labels
<1>3. route \in Routes \ errors[t] /\ errors \in [Threads -> SUBSET Routes]
    BY DEF IInv, OnOpenRoute, Typed
<1>4. Typed'
    BY <1>1, <1>2, <1>3 DEF IInv, Typed
<1>5. \A u \in Threads : pc'[u] = IF u = t THEN "route" ELSE pc[u]
    BY <1>1 DEF IInv, Typed
<1>6. \A u \in Threads : u # t => errors'[u] = errors[u]
    BY <1>1, <1>3
<1>7. OnOpenRoute'
    BY <1>5, <1>6 DEF IInv, OnOpenRoute
<1>8. Request' = Request
    BY <1>1, RequestStays DEF Labels
<1>9. Request[t] = "open"
    BY DEF Request
<1> QED
    BY <1>1, <1>2, <1>3, <1>4, <1>7, <1>8, <1>9 DEF IInv, Service!Refuse

(* A step within the remote route.                                         *)
LEMMA RemoteStep ==
    ASSUME IInv, NEW t \in Threads, NEW to \in RemoteLabels,
           pc[t] \in RemoteLabels, pc' = [pc EXCEPT ![t] = to],
           index' \in 0 .. Period - 1, cool' \in [ToSet(Keys) -> 0 .. Cooldown],
           seen' \in [Threads -> 0 .. Period - 1],
           UNCHANGED <<localFirst, permits, provider, errors, succeeded, outcome>>
    PROVE  IInv' /\ UNCHANGED <<Request, errors, Running>>
<1>1. /\ (permits = 1 <=> \A u \in Threads : ~Holds(u))' /\ permits' \in {0, 1}
      /\ Serialized' /\ Running' = Running /\ pc' \in [Threads -> Labels]
    BY ElsewhereIInv DEF Labels, RemoteLabels
<1>2. Typed'
    BY <1>1 DEF IInv, Typed
<1>3. \A u \in Threads : pc'[u] = IF u = t THEN to ELSE pc[u]
    BY DEF IInv, Typed
<1>4. OnOpenRoute'
    BY <1>3 DEF IInv, OnOpenRoute, RemoteLabels
<1>5. Request' = Request
    BY RequestStays DEF Labels, RemoteLabels
<1> QED
    BY <1>1, <1>2, <1>4, <1>5 DEF IInv

LEMMA NoteAnswerStep ==
    ASSUME IInv, NEW t \in Threads, NEW label \in {"note_local", "note_remote"},
           NEW name \in {"ollama", "remote"}, NoteAnswer(t, label, name)
    PROVE  IInv' /\ Service!Answer(t)
<1>1. pc[t] = label /\ pc' = [pc EXCEPT ![t] = "idle"]
      /\ errors' = [errors EXCEPT ![t] = {}] /\ provider' = name
      /\ outcome' = [outcome EXCEPT ![t] = "answered"]
      /\ UNCHANGED <<localFirst, permits, cool, index, seen, succeeded>>
    BY DEF NoteAnswer, Goto
<1>2. /\ (permits = 1 <=> \A u \in Threads : ~Holds(u))' /\ permits' \in {0, 1}
      /\ Serialized' /\ Running' = Running /\ pc' \in [Threads -> Labels]
      /\ t \notin Running
    BY <1>1, ElsewhereIInv DEF Labels
<1>3. Typed'
    BY <1>1, <1>2 DEF IInv, Typed
<1>4. \A u \in Threads : /\ pc'[u] = IF u = t THEN "idle" ELSE pc[u]
                         /\ errors'[u] = IF u = t THEN {} ELSE errors[u]
    BY <1>1 DEF IInv, Typed
<1>5. OnOpenRoute'
    BY <1>4 DEF IInv, OnOpenRoute
<1>6. errors[t] # Routes
    BY <1>1 DEF IInv, OnOpenRoute
<1> QED
    BY <1>1, <1>2, <1>3, <1>5, <1>6, RequestEnds DEF IInv, Service!Answer

LEMMA TickStep == IInv /\ Tick => IInv' /\ UNCHANGED <<Request, errors, Running>>
<1> SUFFICES ASSUME IInv, Tick PROVE IInv' /\ UNCHANGED <<Request, errors, Running>>
    OBVIOUS
<1>1. UNCHANGED <<localFirst, permits, index, provider, pc, errors, seen, succeeded, outcome>>
    BY DEF Tick, local
<1>2. cool' = [k \in DOMAIN cool |-> IF cool[k] > 0 THEN cool[k] - 1 ELSE 0]
    BY DEF Tick
<1>3. cool' \in [ToSet(Keys) -> 0 .. Cooldown]
    BY <1>2, LLMPoolAssumption DEF IInv, Typed, LLMPoolAssumption
<1>4. \A u \in Threads : Holds(u)' <=> Holds(u)
    BY <1>1 DEF Holds
<1>5. Typed'
    BY <1>1, <1>3, <1>4 DEF IInv, Typed
<1>6. Serialized' /\ OnOpenRoute' /\ UNCHANGED <<Request, Running>>
    BY <1>1, <1>4 DEF IInv, Serialized, OnOpenRoute, Request, Running
<1> QED
    BY <1>1, <1>5, <1>6 DEF IInv

LEMMA LocalStep ==
    ASSUME IInv, NEW t \in Threads, Local(t)
    PROVE  IInv' /\ (Service!Next \/ UNCHANGED <<Request, errors, Running>>)
<1>1. CASE TakeRoute(t, "local", "acquire")
    BY <1>1, TakeRouteStep DEF Labels
<1>2. CASE Acquire(t)
    BY <1>2, AcquireStep DEF Service!Next
<1>3. CASE AcquireTimesOut(t)
    <2>1. Raise(t, "local") /\ pc[t] = "acquire"
          /\ UNCHANGED <<shared, seen, succeeded, outcome>>
        BY <1>3 DEF AcquireTimesOut
    <2>2. IInv' /\ Service!Refuse(t, "local")
        BY <2>1, RaiseStep, "local" \in {"local", "remote"}
    <2>3. "local" \in Routes
        BY <2>1 DEF IInv, OnOpenRoute
    <2> QED
        BY <2>2, <2>3 DEF Service!Next
<1>4. CASE LocalReturns(t)
    BY <1>4, LocalReturnsStep
<1>5. CASE Release(t)
    BY <1>5, ReleaseStep DEF Service!Next
<1>6. CASE NoteAnswer(t, "note_local", "ollama")
    BY <1>6, NoteAnswerStep DEF Service!Next
<1> QED
    BY <1>1, <1>2, <1>3, <1>4, <1>5, <1>6 DEF Local

LEMMA KeysStep ==
    ASSUME IInv, NEW t \in Threads,
           OrderKeys(t) \/ LoadIndex(t) \/ StoreIndex(t) \/ KeyAnswers(t) \/ KeyExhausted(t)
    PROVE  IInv' /\ UNCHANGED <<Request, errors, Running>>
<1>0. /\ index \in 0 .. Period - 1 /\ cool \in [ToSet(Keys) -> 0 .. Cooldown]
      /\ seen \in [Threads -> 0 .. Period - 1]
      /\ Period \in Nat \ {0} /\ Cooldown \in Nat
    BY LLMPoolAssumption DEF IInv, Typed, LLMPoolAssumption
<1>1. CASE OrderKeys(t)
    BY <1>0, <1>1, RemoteStep DEF OrderKeys, Goto, shared, RemoteLabels
<1>2. CASE LoadIndex(t)
    <2>1. seen' \in [Threads -> 0 .. Period - 1]
        BY <1>0, <1>2 DEF LoadIndex
    <2> QED
        BY <1>0, <1>2, <2>1, RemoteStep DEF LoadIndex, Goto, shared, RemoteLabels
<1>3. CASE StoreIndex(t)
    <2>1. seen[t] + 1 \in Int
        BY <1>0
    <2>2. (seen[t] + 1) % Period \in 0 .. Period - 1
        BY <1>0, <2>1
    <2>3. index' \in 0 .. Period - 1
        BY <1>3, <2>2 DEF StoreIndex
    <2>4. seen' \in [Threads -> 0 .. Period - 1]
        BY <1>0, <1>3 DEF StoreIndex
    <2> QED
        BY <1>0, <1>3, <2>3, <2>4, RemoteStep DEF StoreIndex, Goto, RemoteLabels
<1>4. CASE KeyAnswers(t)
    BY <1>0, <1>4, RemoteStep DEF KeyAnswers, Goto, shared, RemoteLabels
<1>5. CASE KeyExhausted(t)
    <2>0. PICK key : cool' = [cool EXCEPT ![key] = Cooldown]
        BY <1>5 DEF KeyExhausted
    <2>1. cool' \in [ToSet(Keys) -> 0 .. Cooldown]
        <3>1. Cooldown \in 0 .. Cooldown
            BY <1>0
        <3>2. PICK D, R : /\ D = ToSet(Keys) /\ R = 0 .. Cooldown
                          /\ cool \in [D -> R] /\ Cooldown \in R
            BY <1>0, <3>1
        <3>3. [cool EXCEPT ![key] = Cooldown] \in [D -> R]
            BY <3>2
        <3> QED
            BY <2>0, <3>2, <3>3
    <2>2. pc[t] = "call" /\ pc' = [pc EXCEPT ![t] = "call"]
        BY <1>5 DEF KeyExhausted, IInv, Typed
    <2> QED
        BY <1>0, <1>5, <2>1, <2>2, RemoteStep DEF KeyExhausted, RemoteLabels
<1> QED
    BY <1>1, <1>2, <1>3, <1>4, <1>5

LEMMA RemoteRouteStep ==
    ASSUME IInv, NEW t \in Threads, Remote(t)
    PROVE  IInv' /\ (Service!Next \/ UNCHANGED <<Request, errors, Running>>)
<1>1. CASE TakeRoute(t, "remote", "order")
    BY <1>1, TakeRouteStep DEF Labels
<1>2. CASE OrderKeys(t) \/ LoadIndex(t) \/ StoreIndex(t) \/ KeyAnswers(t) \/ KeyExhausted(t)
    BY <1>2, KeysStep
<1>3. CASE KeyFails(t) \/ AllExhausted(t)
    <2>1. Raise(t, "remote") /\ pc[t] = "call"
          /\ UNCHANGED <<shared, seen, succeeded, outcome>>
        BY <1>3 DEF KeyFails, AllExhausted
    <2>2. IInv' /\ Service!Refuse(t, "remote")
        BY <2>1, RaiseStep
    <2>3. "remote" \in Routes
        BY <2>1 DEF IInv, OnOpenRoute
    <2> QED
        BY <2>2, <2>3 DEF Service!Next
<1>4. CASE NoteAnswer(t, "note_remote", "remote")
    BY <1>4, NoteAnswerStep DEF Service!Next
<1> QED
    BY <1>1, <1>2, <1>3, <1>4 DEF Remote

LEMMA NextStep ==
    ASSUME IInv, [Next]_vars
    PROVE  IInv' /\ [Service!Next]_(Service!vars)
<1>1. CASE Tick
    BY <1>1, TickStep DEF Service!vars
<1>2. ASSUME NEW t \in Threads, Ask(t) \/ Serve(t)
      PROVE  IInv' /\ [Service!Next]_(Service!vars)
    <2>1. CASE Ask(t)
        BY <2>1, AskStep DEF Service!Next
    <2>2. CASE Local(t)
        BY <2>2, LocalStep DEF Service!vars
    <2>3. CASE Remote(t)
        BY <2>3, RemoteRouteStep DEF Service!vars
    <2>4. CASE Fail(t)
        BY <2>4, FailStep DEF Service!Next
    <2> QED
        BY <1>2, <2>1, <2>2, <2>3, <2>4 DEF Serve
<1>3. CASE UNCHANGED vars
    <2>1. UNCHANGED <<localFirst, permits, cool, index, provider,
                      pc, errors, seen, succeeded, outcome>>
        BY <1>3 DEF vars, shared, local
    <2> QED
        BY <2>1 DEF IInv, Typed, Serialized, OnOpenRoute, Holds, Request, Running,
                    Service!vars
<1> QED
    BY <1>1, <1>2, <1>3 DEF Next

LEMMA Invariance == Spec => []IInv
<1>1. IInv /\ [Next]_vars => IInv'
    BY NextStep
<1> QED
    BY InitIInv, <1>1, PTL DEF Spec

-----------------------------------------------------------------------------
(* The keys of a request.                                                  *)

(* Induction by the least counterexample.                                  *)
LEMMA CountedUp ==
    ASSUME NEW T, T \subseteq Nat, 0 \notin T, \A n \in Nat : n \notin T => n + 1 \notin T
    PROVE  T = {}
<1> DEFINE below == {ss \in Nat \X Nat : ss[1] < ss[2]}
<1>1. IsWellFoundedOn(below, Nat)
    BY NatLessThanWellFounded DEF OpToRel
<1>2. SUFFICES ASSUME T # {} PROVE FALSE
    OBVIOUS
<1> HIDE DEF below
<1>3. PICK n \in T : \A m \in T : <<m, n>> \notin below
    BY <1>1, <1>2, WFMin
<1>4. n \in Nat \ {0} /\ n - 1 \in Nat /\ (n - 1) + 1 = n
    OBVIOUS
<1>5. <<n - 1, n>> \in below
    BY <1>4 DEF below
<1>6. n - 1 \notin T
    BY <1>3, <1>5
<1> QED
    BY <1>4, <1>6

(* The list of warm keys is the one that its definition describes.         *)
LEMMA WarmDef ==
    /\ Warm[0] = <<>>
    /\ \A n \in 1 .. Len(Keys) :
          Warm[n] = IF cool[Keys[n]] = 0 THEN Append(Warm[n - 1], Keys[n]) ELSE Warm[n - 1]
<1> DEFINE Step(g, n) == IF n = 0 THEN <<>>
                         ELSE IF cool[Keys[n]] = 0 THEN Append(g[n - 1], Keys[n])
                         ELSE g[n - 1]
           Upto(g, n) == g = [i \in 0 .. n |-> Step(g, i)]
           Bad == {n \in Nat : ~ \E g : Upto(g, n)}
<1>0. Len(Keys) \in Nat
    BY LLMPoolAssumption DEF LLMPoolAssumption
<1>1. 0 \notin Bad
    <2>1. Upto([i \in 0 .. 0 |-> <<>>], 0)
        OBVIOUS
    <2> HIDE DEF Upto
    <2> QED
        BY <2>1
<1>2. ASSUME NEW n \in Nat, n \notin Bad PROVE n + 1 \notin Bad
    <2>1. PICK g : g = [i \in 0 .. n |-> Step(g, i)]
        BY <1>2
    <2> DEFINE h == [i \in 0 .. n + 1 |-> IF i = n + 1 THEN Step(g, n + 1) ELSE g[i]]
    <2>2. ASSUME NEW i \in 0 .. n + 1 PROVE h[i] = Step(h, i)
        <3>1. CASE i = 0
            <4>1. h[0] = g[0] /\ g[0] = <<>>
                BY <2>1
            <4> QED
                BY <3>1, <4>1
        <3>2. CASE i # 0 /\ i # n + 1
            <4>1. i \in 0 .. n /\ i - 1 \in 0 .. n
                BY <3>2
            <4>2. h[i] = g[i] /\ h[i - 1] = g[i - 1]
                BY <3>2, <4>1
            <4>3. g[i] = Step(g, i)
                BY <2>1, <4>1
            <4> QED
                BY <3>2, <4>2, <4>3
        <3>3. CASE i = n + 1
            <4>1. h[n] = g[n] /\ h[n + 1] = Step(g, n + 1) /\ (n + 1) - 1 = n /\ n + 1 # 0
                OBVIOUS
            <4> QED
                BY <3>3, <4>1
        <3> QED
            BY <3>1, <3>2, <3>3
    <2>3. h = [i \in 0 .. n + 1 |-> h[i]]
        OBVIOUS
    <2>4. Upto(h, n + 1)
        <3> HIDE DEF h
        <3> QED
            BY <2>2, <2>3
    <2> HIDE DEF Upto
    <2> QED
        BY <2>4
<1>3. \E g : Upto(g, Len(Keys))
    <2>1. Bad \subseteq Nat
        OBVIOUS
    <2> HIDE DEF Bad
    <2>2. Bad = {}
        BY <1>1, <1>2, <2>1, CountedUp
    <2> QED
        BY <1>0, <2>2 DEF Bad
<1>4. Warm = [n \in 0 .. Len(Keys) |-> Step(Warm, n)]
    BY <1>3 DEF Warm
<1>5. \A n \in 0 .. Len(Keys) : Warm[n] = Step(Warm, n)
    BY <1>4
<1>6. Warm[0] = <<>>
    BY <1>0, <1>5
<1>7. \A n \in 1 .. Len(Keys) : n \in 0 .. Len(Keys) /\ n # 0
    BY <1>0
<1> QED
    BY <1>5, <1>6, <1>7

(* A list that holds, once each, the warm ones among the first n keys.     *)
Lists(w, n) ==
    /\ w \in Seq(ToSet(Keys))
    /\ \A j \in 1 .. Len(w) : \E i \in 1 .. n : w[j] = Keys[i] /\ cool[Keys[i]] = 0
    /\ \A i \in 1 .. n : cool[Keys[i]] = 0 => \E j \in 1 .. Len(w) : w[j] = Keys[i]
    /\ \A j, k \in 1 .. Len(w) : w[j] = w[k] => j = k

LEMMA ListsNext ==
    ASSUME NEW n \in 0 .. Len(Keys) - 1, NEW w, Lists(w, n)
    PROVE  Lists(IF cool[Keys[n + 1]] = 0 THEN Append(w, Keys[n + 1]) ELSE w, n + 1)
<1>1. /\ Keys \in Seq(ToSet(Keys)) /\ Len(Keys) \in Nat /\ IsInjective(Keys)
      /\ n + 1 \in 1 .. Len(Keys) /\ n \in Nat
    BY LLMPoolAssumption DEF LLMPoolAssumption
<1>2. /\ Keys[n + 1] \in ToSet(Keys) /\ DOMAIN Keys = 1 .. Len(Keys)
      /\ \A i \in 1 .. n : i \in 1 .. n + 1 /\ i \in 1 .. Len(Keys) /\ Keys[i] # Keys[n + 1]
      /\ \A i \in 1 .. n + 1 : i \in 1 .. n \/ i = n + 1
      /\ n + 1 \in 1 .. n + 1
    <2>1. DOMAIN Keys = 1 .. Len(Keys)
        BY <1>1
    <2>2. Keys[n + 1] \in ToSet(Keys)
        BY <1>1, <2>1 DEF ToSet
    <2>3. ASSUME NEW i \in 1 .. n PROVE i \in 1 .. Len(Keys) /\ Keys[i] # Keys[n + 1]
        <3>1. i \in 1 .. Len(Keys) /\ i # n + 1
            BY <1>1
        <3> QED
            BY <1>1, <2>1, <3>1 DEF IsInjective
    <2> QED
        BY <1>1, <2>1, <2>2, <2>3
<1>3. w \in Seq(ToSet(Keys)) /\ Len(w) \in Nat
    BY DEF Lists
<1>4. CASE cool[Keys[n + 1]] = 0
    <2> DEFINE v == Append(w, Keys[n + 1])
    <2>1. /\ v \in Seq(ToSet(Keys)) /\ Len(v) = Len(w) + 1
          /\ \A j \in 1 .. Len(w) : v[j] = w[j]
          /\ v[Len(w) + 1] = Keys[n + 1]
        BY <1>2, <1>3, AppendProperties
    <2> HIDE DEF v
    <2>2. /\ \A j \in 1 .. Len(v) : j \in 1 .. Len(w) \/ j = Len(w) + 1
          /\ \A j \in 1 .. Len(w) : j \in 1 .. Len(v)
          /\ Len(w) + 1 \in 1 .. Len(v)
        BY <1>3, <2>1
    <2>3. \A j \in 1 .. Len(w) : w[j] # Keys[n + 1]
        BY <1>2 DEF Lists
    <2>4. ASSUME NEW j \in 1 .. Len(v)
          PROVE  \E i \in 1 .. n + 1 : v[j] = Keys[i] /\ cool[Keys[i]] = 0
        <3>1. CASE j \in 1 .. Len(w)
            BY <1>2, <2>1, <3>1 DEF Lists
        <3>2. CASE j = Len(w) + 1
            BY <1>2, <1>4, <2>1, <3>2
        <3> QED
            BY <2>2, <3>1, <3>2
    <2>5. ASSUME NEW i \in 1 .. n + 1, cool[Keys[i]] = 0
          PROVE  \E j \in 1 .. Len(v) : v[j] = Keys[i]
        <3>1. CASE i \in 1 .. n
            <4>1. PICK j \in 1 .. Len(w) : w[j] = Keys[i]
                BY <2>5, <3>1 DEF Lists
            <4> QED
                BY <2>1, <2>2, <4>1
        <3>2. CASE i = n + 1
            BY <2>1, <2>2, <3>2
        <3> QED
            BY <1>2, <3>1, <3>2
    <2>6. ASSUME NEW j \in 1 .. Len(v), NEW k \in 1 .. Len(v), v[j] = v[k] PROVE j = k
        <3>1. CASE j \in 1 .. Len(w) /\ k \in 1 .. Len(w)
            BY <2>1, <2>6, <3>1 DEF Lists
        <3>2. CASE j = Len(w) + 1 \/ k = Len(w) + 1
            BY <2>1, <2>2, <2>3, <2>6, <3>2
        <3> QED
            BY <2>2, <3>1, <3>2
    <2>7. Lists(v, n + 1)
        BY <2>1, <2>4, <2>5, <2>6 DEF Lists
    <2> QED
        BY <1>4, <2>7 DEF v
<1>5. CASE cool[Keys[n + 1]] # 0
    <2>1. Lists(w, n + 1)
        BY <1>2, <1>5 DEF Lists
    <2> QED
        BY <1>5, <2>1
<1> QED
    BY <1>4, <1>5

LEMMA WarmLists == Lists(Warm[Len(Keys)], Len(Keys))
<1> DEFINE Bad == {n \in Nat : n <= Len(Keys) /\ ~Lists(Warm[n], n)}
<1>0. Len(Keys) \in Nat
    BY LLMPoolAssumption DEF LLMPoolAssumption
<1>1. 0 \notin Bad
    <2>1. Lists(<<>>, 0)
        BY DEF Lists
    <2> QED
        BY <2>1, WarmDef
<1>2. ASSUME NEW n \in Nat, n \notin Bad PROVE n + 1 \notin Bad
    <2> SUFFICES ASSUME n + 1 <= Len(Keys) PROVE Lists(Warm[n + 1], n + 1)
        OBVIOUS
    <2>1. /\ n \in 0 .. Len(Keys) - 1 /\ n + 1 \in 1 .. Len(Keys) /\ (n + 1) - 1 = n
          /\ n <= Len(Keys)
        BY <1>0
    <2>2. Lists(Warm[n], n)
        BY <1>2, <2>1
    <2>3. Warm[n + 1] = IF cool[Keys[n + 1]] = 0 THEN Append(Warm[n], Keys[n + 1])
                        ELSE Warm[n]
        BY <2>1, WarmDef
    <2> QED
        BY <2>1, <2>2, <2>3, ListsNext
<1>3. Bad = {}
    <2>1. Bad \subseteq Nat
        OBVIOUS
    <2> HIDE DEF Bad
    <2> QED
        BY <1>1, <1>2, <2>1, CountedUp
<1> QED
    BY <1>0, <1>3

(* What a caller may try: all the keys that are not cooling, or else all   *)
(* the keys, each of them once.                                            *)
Usable == LET warm == {k \in ToSet(Keys) : cool[k] = 0}
          IN IF warm = {} THEN ToSet(Keys) ELSE warm

LEMMA ActiveSound ==
    /\ Active \in Seq(ToSet(Keys)) /\ Len(Active) \in Nat \ {0}
    /\ IsInjective(Active) /\ ToSet(Active) = Usable
<1> DEFINE w == Warm[Len(Keys)]
           warm == {k \in ToSet(Keys) : cool[k] = 0}
<1>1. /\ Keys \in Seq(ToSet(Keys)) /\ Len(Keys) \in Nat \ {0} /\ IsInjective(Keys)
      /\ DOMAIN Keys = 1 .. Len(Keys)
    BY LLMPoolAssumption DEF LLMPoolAssumption
<1>2. Lists(w, Len(Keys))
    BY WarmLists
<1> HIDE DEF w
<1>3. /\ w \in Seq(ToSet(Keys)) /\ Len(w) \in Nat /\ DOMAIN w = 1 .. Len(w)
      /\ IsInjective(w)
    BY <1>2 DEF Lists, IsInjective
<1>4. ToSet(w) = warm
    <2>1. \A k \in ToSet(w) : k \in warm
        BY <1>1, <1>2, <1>3 DEF Lists, ToSet
    <2>2. ASSUME NEW k \in warm PROVE k \in ToSet(w)
        <3>1. PICK i \in 1 .. Len(Keys) : Keys[i] = k /\ cool[Keys[i]] = 0
            BY <1>1 DEF ToSet
        <3>2. PICK j \in 1 .. Len(w) : w[j] = Keys[i]
            BY <1>2, <3>1 DEF Lists
        <3> QED
            BY <1>3, <3>1, <3>2 DEF ToSet
    <2> QED
        BY <2>1, <2>2
<1>5. CASE w = <<>>
    <2>1. warm = {}
        BY <1>4, <1>5 DEF ToSet
    <2>2. Active = Keys
        BY <1>5 DEF Active, w
    <2> QED
        BY <1>1, <2>1, <2>2 DEF Usable
<1>6. CASE w # <<>>
    <2>1. Len(w) \in Nat \ {0}
        BY <1>3, <1>6
    <2>2. w[1] \in ToSet(w)
        BY <1>3, <2>1 DEF ToSet
    <2>3. Active = w
        BY <1>6 DEF Active, w
    <2> QED
        BY <1>3, <1>4, <2>1, <2>2, <2>3 DEF Usable
<1> QED
    BY <1>5, <1>6

(* Turning a list about leaves its elements as they are.                   *)
LEMMA RoundSound ==
    ASSUME NEW S, NEW q \in Seq(S), IsInjective(q), NEW start \in 0 .. Len(q) - 1
    PROVE  /\ Round(q, start) \in Seq(S) /\ IsInjective(Round(q, start))
           /\ Len(Round(q, start)) = Len(q) /\ ToSet(Round(q, start)) = ToSet(q)
<1> DEFINE front == SubSeq(q, start + 1, Len(q))
           back == SubSeq(q, 1, start)
           r == Round(q, start)
           At(j) == IF j <= Len(q) - start THEN start + j ELSE j - (Len(q) - start)
<1>1. Len(q) \in Nat /\ start \in Nat /\ start < Len(q) /\ DOMAIN q = 1 .. Len(q)
      /\ \A j \in 1 .. Len(q) : q[j] \in S
    OBVIOUS
<1>2. /\ front \in Seq(S) /\ Len(front) = Len(q) - start
      /\ \A j \in 1 .. Len(q) - start : front[j] = q[start + j]
    <2>1. \A j \in start + 1 .. Len(q) : q[j] \in S
        BY <1>1
    <2>2. start + 1 \in Int /\ Len(q) \in Int
        BY <1>1
    <2> HIDE DEF front
    <2>3. /\ front \in Seq(S)
          /\ Len(front) = IF start + 1 <= Len(q) THEN Len(q) - (start + 1) + 1 ELSE 0
          /\ \A j \in 1 .. Len(q) - (start + 1) + 1 : front[j] = q[(start + 1) + j - 1]
        BY <2>1, <2>2, SubSeqProperties DEF front
    <2> QED
        BY <1>1, <2>3
<1>3. /\ back \in Seq(S) /\ Len(back) = start
      /\ \A j \in 1 .. start : back[j] = q[j]
    <2>1. \A j \in 1 .. start : q[j] \in S
        BY <1>1
    <2>2. 1 \in Int /\ start \in Int
        BY <1>1
    <2> HIDE DEF back
    <2>3. /\ back \in Seq(S) /\ Len(back) = IF 1 <= start THEN start - 1 + 1 ELSE 0
          /\ \A j \in 1 .. start - 1 + 1 : back[j] = q[1 + j - 1]
        BY <2>1, <2>2, SubSeqProperties DEF back
    <2> QED
        BY <1>1, <2>3
<1>4. r = front \o back
    BY DEF Round
<1> HIDE DEF front, back, r
<1>5. /\ r \in Seq(S) /\ Len(r) = Len(front) + Len(back)
      /\ \A j \in 1 .. Len(front) + Len(back) :
            r[j] = IF j <= Len(front) THEN front[j] ELSE back[j - Len(front)]
    BY <1>2, <1>3, <1>4, ConcatProperties
<1>6. Len(r) = Len(q) /\ DOMAIN r = 1 .. Len(q)
    BY <1>1, <1>2, <1>3, <1>5
<1>7. ASSUME NEW j \in 1 .. Len(q) PROVE At(j) \in 1 .. Len(q) /\ r[j] = q[At(j)]
    <2>1. r[j] = IF j <= Len(q) - start THEN front[j] ELSE back[j - (Len(q) - start)]
        BY <1>2, <1>5, <1>6
    <2>2. CASE j <= Len(q) - start
        BY <1>1, <1>2, <2>1, <2>2
    <2>3. CASE ~(j <= Len(q) - start)
        <3>1. j - (Len(q) - start) \in 1 .. start
            BY <1>1, <2>3
        <3> QED
            BY <1>1, <1>3, <2>1, <2>3, <3>1
    <2> QED
        BY <2>2, <2>3
<1>8. \A i, j \in 1 .. Len(q) : At(i) = At(j) => i = j
    BY <1>1
<1>9. ASSUME NEW i \in 1 .. Len(q) PROVE \E j \in 1 .. Len(q) : At(j) = i
    <2>1. CASE i <= start
        <3>1. i + (Len(q) - start) \in 1 .. Len(q) /\ At(i + (Len(q) - start)) = i
            BY <1>1, <2>1
        <3> QED
            BY <3>1
    <2>2. CASE ~(i <= start)
        <3>1. i - start \in 1 .. Len(q) /\ At(i - start) = i
            BY <1>1, <2>2
        <3> QED
            BY <3>1
    <2> QED
        BY <2>1, <2>2
<1> HIDE DEF At
<1>10. IsInjective(r)
    BY <1>1, <1>6, <1>7, <1>8 DEF IsInjective
<1>11. ToSet(r) = ToSet(q)
    <2>1. \A x \in ToSet(r) : x \in ToSet(q)
        BY <1>1, <1>6, <1>7 DEF ToSet
    <2>2. \A x \in ToSet(q) : x \in ToSet(r)
        <3> SUFFICES ASSUME NEW i \in 1 .. Len(q) PROVE q[i] \in ToSet(r)
            BY <1>1 DEF ToSet
        <3>1. PICK j \in 1 .. Len(q) : At(j) = i
            BY <1>9
        <3> QED
            BY <1>6, <1>7, <3>1 DEF ToSet
    <2> QED
        BY <2>1, <2>2
<1> QED
    BY <1>5, <1>6, <1>10, <1>11 DEF r

(* A list without repetitions is as long as its set is large.              *)
LEMMA OnceEach ==
    ASSUME NEW S, NEW q \in Seq(S), IsInjective(q)
    PROVE  Cardinality(ToSet(q)) = Len(q)
<1>1. Len(q) \in Nat /\ DOMAIN q = 1 .. Len(q) /\ q \in [1 .. Len(q) -> ToSet(q)]
    BY DEF ToSet
<1>2. q \in Injection(1 .. Len(q), ToSet(q))
    BY <1>1 DEF Injection
<1>3. q \in Surjection(1 .. Len(q), ToSet(q))
    BY <1>1 DEF Surjection, ToSet
<1>4. ExistsBijection(1 .. Len(q), ToSet(q))
    BY <1>2, <1>3 DEF ExistsBijection, Bijection
<1> QED
    BY <1>1, <1>4, FS_CountingElements

(* The list that ordered_keys returns: the usable keys, each of them once. *)
LEMMA OrderedSound ==
    ASSUME Typed
    PROVE  LET r == Round(Active, index % Len(Active))
           IN r \in Seq(ToSet(Keys)) /\ IsInjective(r) /\ ToSet(r) = Usable
<1>1. /\ Active \in Seq(ToSet(Keys)) /\ Len(Active) \in Nat \ {0}
      /\ IsInjective(Active) /\ ToSet(Active) = Usable
    BY ActiveSound
<1>2. index \in Int
    BY LLMPoolAssumption DEF Typed, LLMPoolAssumption
<1> DEFINE start == index % Len(Active)
<1>3. start \in 0 .. Len(Active) - 1
    BY <1>1, <1>2
<1> HIDE DEF start
<1>4. /\ Round(Active, start) \in Seq(ToSet(Keys)) /\ IsInjective(Round(Active, start))
      /\ ToSet(Round(Active, start)) = ToSet(Active)
    BY <1>1, <1>3, RoundSound
<1> QED
    BY <1>1, <1>4 DEF start

(* A request strikes the keys that it has tried off its list.              *)
LEMMA StruckOff ==
    ASSUME NEW S, NEW q \in Seq(S), IsInjective(q), q # <<>>
    PROVE  Tail(q) \in Seq(S) /\ IsInjective(Tail(q))
<1>1. /\ Tail(q) \in Seq(S) /\ Len(Tail(q)) = Len(q) - 1 /\ Len(q) \in Nat
      /\ \A i \in 1 .. Len(Tail(q)) : Tail(q)[i] = q[i + 1]
    BY HeadTailProperties
<1>2. DOMAIN Tail(q) = 1 .. Len(Tail(q)) /\ DOMAIN q = 1 .. Len(q)
    BY <1>1
<1>3. ASSUME NEW i \in 1 .. Len(Tail(q)), NEW j \in 1 .. Len(Tail(q)), Tail(q)[i] = Tail(q)[j]
      PROVE  i = j
    <2>1. i + 1 \in DOMAIN q /\ j + 1 \in DOMAIN q /\ q[i + 1] = q[j + 1]
        BY <1>1, <1>2, <1>3
    <2>2. i + 1 = j + 1
        BY <2>1 DEF IsInjective
    <2> QED
        BY <2>2
<1> QED
    BY <1>1, <1>2, <1>3 DEF IsInjective

LEMMA OrderStep == Typed /\ OrderTyped /\ [Next]_vars => OrderTyped'
<1> SUFFICES ASSUME Typed, OrderTyped, [Next]_vars PROVE OrderTyped'
    OBVIOUS
<1>1. /\ order \in [Threads -> Seq(ToSet(Keys))]
      /\ \A u \in Threads : order[u] \in Seq(ToSet(Keys)) /\ IsInjective(order[u])
    BY DEF OrderTyped
<1>2. ASSUME NEW t \in Threads, NEW q \in Seq(ToSet(Keys)), IsInjective(q),
             order' = [order EXCEPT ![t] = q]
      PROVE  OrderTyped'
    <2>1. order' \in [Threads -> Seq(ToSet(Keys))]
        BY <1>1, <1>2
    <2>2. \A u \in Threads : order'[u] = IF u = t THEN q ELSE order[u]
        BY <1>1, <1>2
    <2> QED
        BY <1>1, <1>2, <2>1, <2>2 DEF OrderTyped
<1>3. CASE order' = order
    BY <1>3 DEF OrderTyped
<1>4. <<>> \in Seq(ToSet(Keys)) /\ IsInjective(<<>>)
    BY DEF IsInjective
<1>5. ASSUME NEW t \in Threads, OrderKeys(t) PROVE OrderTyped'
    BY <1>2, <1>5, OrderedSound DEF OrderKeys
<1>6. ASSUME NEW t \in Threads, KeyAnswers(t) \/ KeyFails(t) PROVE OrderTyped'
    BY <1>2, <1>4, <1>6 DEF KeyAnswers, KeyFails
<1>7. ASSUME NEW t \in Threads, KeyExhausted(t) PROVE OrderTyped'
    <2>1. order' = [order EXCEPT ![t] = Tail(order[t])] /\ order[t] # <<>>
        BY <1>7 DEF KeyExhausted
    <2>2. Tail(order[t]) \in Seq(ToSet(Keys)) /\ IsInjective(Tail(order[t]))
        BY <1>1, <2>1, StruckOff
    <2> QED
        BY <1>2, <2>1, <2>2
<1>8. CASE Tick
    BY <1>3, <1>8 DEF Tick, local
<1>9. ASSUME NEW t \in Threads, Ask(t) \/ Serve(t) PROVE OrderTyped'
    <2>1. CASE Ask(t) \/ Local(t) \/ Fail(t)
        BY <1>3, <2>1 DEF Ask, Local, Fail, TakeRoute, Acquire, AcquireTimesOut,
                          LocalReturns, Release, NoteAnswer
    <2>2. CASE Remote(t)
        BY <1>3, <1>5, <1>6, <1>7, <2>2 DEF Remote, TakeRoute, LoadIndex, StoreIndex,
                                            AllExhausted, NoteAnswer
    <2> QED
        BY <1>9, <2>1, <2>2 DEF Serve
<1>10. CASE UNCHANGED vars
    BY <1>3, <1>10 DEF vars, local
<1> QED
    BY <1>8, <1>9, <1>10 DEF Next

LEMMA Orders == Spec => []OrderTyped
<1>1. Init => OrderTyped
    BY DEF Init, OrderTyped, IsInjective
<1>2. IInv => Typed
    BY DEF IInv
<1> QED
    BY <1>1, <1>2, Invariance, OrderStep, PTL DEF Spec

-----------------------------------------------------------------------------
(* The pool keeps its types, the permit of the local runner is free        *)
(* exactly when no thread is in it, and no request has a key on its list   *)
(* twice (ordered_keys, create_chat_completion).                           *)
THEOREM TypeCorrect == Spec => []TypeOK
<1>1. IInv /\ OrderTyped => TypeOK
    BY DEF IInv, TypeOK
<1> QED
    BY Invariance, Orders, <1>1, PTL

(* However the rotation index is raced and the cooldowns come and go, the  *)
(* list that ordered_keys gives a request holds every key that is not      *)
(* cooling, or else every key, and none of them twice.                     *)
THEOREM RoundsAreComplete == Spec => RoundIsComplete
<1> DEFINE Complete ==
              \A t \in Threads :
                 LET warm == {k \in ToSet(Keys) : cool[k] = 0}
                     round == ToSet(order'[t])
                 IN OrderKeys(t) =>
                       /\ round = IF warm = {} THEN ToSet(Keys) ELSE warm
                       /\ Len(order'[t]) = Cardinality(round)
<1>1. ASSUME IInv, OrderTyped, NEW t \in Threads, OrderKeys(t)
      PROVE  ToSet(order'[t]) = Usable /\ Len(order'[t]) = Cardinality(ToSet(order'[t]))
    <2> DEFINE r == Round(Active, index % Len(Active))
    <2>1. order'[t] = r
        BY <1>1 DEF OrderKeys, OrderTyped
    <2>2. r \in Seq(ToSet(Keys)) /\ IsInjective(r) /\ ToSet(r) = Usable
        BY <1>1, OrderedSound DEF IInv
    <2> HIDE DEF r
    <2>3. Cardinality(ToSet(r)) = Len(r)
        BY <2>2, OnceEach
    <2> QED
        BY <2>1, <2>2, <2>3
<1>2. IInv /\ OrderTyped => Complete
    BY <1>1 DEF Usable
<1>3. IInv /\ OrderTyped => [Complete]_vars
    BY <1>2
<1>4. RoundIsComplete <=> [][Complete]_vars
    BY DEF RoundIsComplete
<1> HIDE DEF Complete
<1> QED
    BY Invariance, Orders, <1>3, <1>4, PTL

(* The local runner works for one thread at a time, and a request fails    *)
(* only when every enabled route has refused it, for any number of threads *)
(* and keys and either order of the routes.                                *)
THEOREM PoolServes == Spec => ImplementsService
<1>1. Init => Service!Init
    <2> SUFFICES ASSUME Init PROVE Service!Init
        OBVIOUS
    <2>1. \A t \in Threads : pc[t] = "idle" /\ outcome[t] = "none"
        BY DEF Init
    <2>2. Request = [t \in Threads |-> "none"] /\ Running = {}
        BY <2>1 DEF Request, Running, Holds
    <2>3. errors = [t \in Threads |-> {}]
        BY DEF Init
    <2> QED
        BY <2>2, <2>3 DEF Service!Init
<1>2. IInv /\ [Next]_vars => [Service!Next]_(Service!vars)
    BY NextStep
<1> QED
    BY Invariance, <1>1, <1>2, PTL DEF Spec, ImplementsService, Service!Spec

-----------------------------------------------------------------------------
(* How long a request takes.  Share(t, route) is the most that t's request  *)
(* may still spend on a route, in steps of its own: nothing once the route *)
(* has refused it, what the rest of its code takes when t is inside, and a *)
(* whole visit when it has not been there.                                 *)
Share(t, route) ==
    IF route \notin Routes \ errors[t] THEN 0
    ELSE IF route = "local"
    THEN CASE pc[t] = "acquire"    -> 4
           [] pc[t] = "local"      -> 3
           [] pc[t] = "release"    -> 2
           [] pc[t] = "note_local" -> 1
           [] OTHER                -> 5
    ELSE CASE pc[t] = "order"       -> Len(Keys) + 4
           [] pc[t] = "load"        -> Len(order[t]) + 3
           [] pc[t] = "store"       -> Len(order[t]) + 2
           [] pc[t] = "call"        -> Len(order[t]) + 1
           [] pc[t] = "note_remote" -> 1
           [] OTHER                 -> Len(Keys) + 5

(* The steps that t's request has left at most.                            *)
Left(t) == IF pc[t] = "idle" THEN 0 ELSE 1 + Share(t, "local") + Share(t, "remote")

(* What a thread does about its request brings the end nearer, and nothing *)
(* that happens to the pool moves it away: not the other threads that take *)
(* the permit, race the index or exhaust the keys, not the passing time.   *)
WindsDown ==
    \A t \in Threads : /\ Serve(t) => Left(t)' < Left(t)
                       /\ Left(t)' > Left(t) => Ask(t)

LeftIsBounded ==
    \A t \in Threads : /\ Left(t) \in 0 .. Len(Keys) + 11
                       /\ Left(t) = 0 <=> pc[t] = "idle"

(* No request has more keys on its list than there are.                    *)
LEMMA ListIsShort ==
    ASSUME OrderTyped, NEW t \in Threads
    PROVE  Len(order[t]) \in 0 .. Len(Keys)
<1>1. /\ order[t] \in Seq(ToSet(Keys)) /\ IsInjective(order[t])
      /\ Keys \in Seq(ToSet(Keys)) /\ IsInjective(Keys)
    BY LLMPoolAssumption DEF OrderTyped, LLMPoolAssumption
<1>2. /\ Cardinality(ToSet(order[t])) = Len(order[t]) /\ Len(order[t]) \in Nat
      /\ Cardinality(ToSet(Keys)) = Len(Keys) /\ Len(Keys) \in Nat
    BY <1>1, OnceEach
<1>3. ToSet(order[t]) \subseteq ToSet(Keys)
    BY <1>1 DEF ToSet
<1>4. IsFiniteSet(ToSet(Keys))
    <2>1. Keys \in Surjection(1 .. Len(Keys), ToSet(Keys))
        BY <1>1 DEF Surjection, ToSet
    <2> QED
        BY <1>2, <2>1, FS_Surjection, FS_Interval
<1>5. Cardinality(ToSet(order[t])) <= Cardinality(ToSet(Keys))
    BY <1>3, <1>4, FS_Subset
<1> QED
    BY <1>2, <1>5

Ready == IInv /\ OrderTyped

SharesBounded ==
    \A t \in Threads :
       /\ Share(t, "local") \in 0 .. 5
       /\ Share(t, "remote") \in 0 .. Len(Keys) + 5
       /\ Len(order[t]) \in 0 .. Len(Keys)

LEMMA ShareTyped == Ready => SharesBounded
<1> SUFFICES ASSUME Ready, NEW t \in Threads
             PROVE  /\ Share(t, "local") \in 0 .. 5
                    /\ Share(t, "remote") \in 0 .. Len(Keys) + 5
                    /\ Len(order[t]) \in 0 .. Len(Keys)
    BY DEF SharesBounded
<1>1. Len(order[t]) \in 0 .. Len(Keys) /\ Len(Keys) \in Nat
    BY ListIsShort, LLMPoolAssumption DEF Ready, LLMPoolAssumption
<1>2. Share(t, "local") \in 0 .. 5
    BY DEF Share
<1> QED
    BY <1>1, <1>2 DEF Share

(* The same, as the steps below use it.                                    *)
Shared ==
    \A t \in Threads : \E l, r \in Nat : Share(t, "local") = l /\ Share(t, "remote") = r

LEMMA SharesAreNat == Ready /\ Ready' => Shared /\ Shared'
<1>1. Ready => Shared
    <2>1. SharesBounded /\ Len(Keys) \in Nat => Shared
        BY DEF SharesBounded, Shared
    <2> QED
        BY <2>1, ShareTyped, LLMPoolAssumption DEF LLMPoolAssumption
<1> QED
    BY <1>1, PTL

(* A step of another thread, or of the clock, leaves the request alone.    *)
LEMMA Untouched ==
    ASSUME NEW u \in Threads,
           pc'[u] = pc[u], errors'[u] = errors[u], order'[u] = order[u]
    PROVE  Left(u)' = Left(u)
BY DEF Left, Share

(* A step within a route takes one of its steps off.                       *)
LEMMA AStepOff ==
    ASSUME Ready, Ready', NEW t \in Threads, pc[t] # "idle",
           NEW here \in {"local", "remote"}, Share(t, here)' < Share(t, here),
           \A there \in {"local", "remote"} \ {here} : Share(t, there)' = Share(t, there)
    PROVE  Left(t)' < Left(t)
<1>1. PICK l \in Nat, r \in Nat, m \in Nat, q \in Nat :
         /\ Share(t, "local") = l /\ Share(t, "local")' = m
         /\ Share(t, "remote") = r /\ Share(t, "remote")' = q
    BY SharesAreNat DEF Shared
<1>2. \/ m < l /\ q = r
      \/ q < r /\ m = l
    BY <1>1, here = "local" \/ here = "remote"
<1>3. Left(t) = 1 + l + r
    BY <1>1 DEF Left
<1>4. Left(t)' = IF pc'[t] = "idle" THEN 0 ELSE 1 + m + q
    BY <1>1 DEF Left
<1> QED
    BY <1>2, <1>3, <1>4

(* A step of thread t is nothing to the others.                            *)
LEMMA OthersUntouched ==
    ASSUME Ready, NEW t \in Threads, Ask(t) \/ Serve(t), NEW u \in Threads, u # t
    PROVE  Left(u)' = Left(u)
<1>1. /\ pc \in [Threads -> Labels] /\ errors \in [Threads -> SUBSET Routes]
      /\ order \in [Threads -> Seq(ToSet(Keys))]
    BY DEF Ready, IInv, Typed, OrderTyped
<1>2. \E l, e, o :
         /\ pc' = pc \/ pc' = [pc EXCEPT ![t] = l]
         /\ errors' = errors \/ errors' = [errors EXCEPT ![t] = e]
         /\ order' = order \/ order' = [order EXCEPT ![t] = o]
    <2>1. CASE Ask(t)
        BY <2>1 DEF Ask, Goto
    <2>2. CASE Local(t)
        BY <2>2 DEF Local, TakeRoute, Acquire, AcquireTimesOut, LocalReturns, Release,
                    NoteAnswer, Raise, Goto
    <2>3. CASE Remote(t)
        BY <2>3 DEF Remote, TakeRoute, OrderKeys, LoadIndex, StoreIndex, KeyAnswers,
                    KeyExhausted, KeyFails, AllExhausted, NoteAnswer, Raise, Goto
    <2>4. CASE Fail(t)
        BY <2>4 DEF Fail, Goto
    <2> QED
        BY <2>1, <2>2, <2>3, <2>4 DEF Serve
<1>3. pc'[u] = pc[u] /\ errors'[u] = errors[u] /\ order'[u] = order[u]
    BY <1>1, <1>2
<1> QED
    BY <1>3, Untouched

(* To give a route up is to save what it might still have cost.            *)
LEMMA RaiseSaves ==
    ASSUME Ready, Ready', NEW t \in Threads, NEW route \in {"local", "remote"},
           pc[t] # "idle", Raise(t, route), order'[t] = order[t] \/ route = "remote",
           pc[t] \in IF route = "local" THEN {"acquire", "release"} ELSE {"call"}
    PROVE  Left(t)' < Left(t)
<1>1. pc'[t] = "route" /\ errors'[t] = errors[t] \cup {route}
    BY DEF Raise, Goto, Ready, IInv, Typed
<1>2. route \in Routes \ errors[t]
    BY DEF Ready, IInv, OnOpenRoute
<1>3. /\ SharesBounded /\ SharesBounded' /\ Len(Keys) \in Nat
      /\ Len(order[t]) \in Nat
    <2>1. SharesBounded /\ SharesBounded'
        BY ShareTyped, PTL
    <2> QED
        BY <2>1, ListIsShort, LLMPoolAssumption DEF LLMPoolAssumption, Ready
<1>4. Share(t, route)' = 0
    BY <1>1 DEF Share
<1>5. Share(t, route) > 0
    BY <1>2, <1>3 DEF Share, SharesBounded
<1>6. \A other \in {"local", "remote"} \ {route} : Share(t, other)' = Share(t, other)
    BY <1>1 DEF Share
<1> QED
    BY <1>4, <1>5, <1>6, AStepOff

(* What each step of a request saves.                                      *)
LEMMA Saves ==
    ASSUME Ready, Ready', NEW t \in Threads, Serve(t)
    PROVE  Left(t)' < Left(t)
<1>0. /\ pc \in [Threads -> Labels] /\ errors \in [Threads -> SUBSET Routes]
      /\ order \in [Threads -> Seq(ToSet(Keys))]
      /\ Len(Keys) \in Nat /\ Len(order[t]) \in 0 .. Len(Keys)
      /\ OnOpenRoute
    BY ListIsShort, LLMPoolAssumption
    DEF Ready, IInv, Typed, OrderTyped, LLMPoolAssumption
<1>1. SharesBounded /\ SharesBounded'
    BY ShareTyped, PTL
<1>2. Len(order'[t]) \in 0 .. Len(Keys)
    BY <1>1 DEF SharesBounded
<1>3. CASE TakeRoute(t, "local", "acquire")
    <2>1. /\ pc[t] = "route" /\ pc'[t] = "acquire" /\ "local" \in Routes \ errors[t]
          /\ errors' = errors /\ order' = order
        BY <1>0, <1>3 DEF TakeRoute, Goto
    <2>2. Share(t, "local")' < Share(t, "local")
        BY <2>1 DEF Share
    <2>3. Share(t, "remote")' = Share(t, "remote")
        BY <2>1 DEF Share
    <2> QED
        BY <2>1, <2>2, <2>3, AStepOff
<1>4. CASE TakeRoute(t, "remote", "order")
    <2>1. /\ pc[t] = "route" /\ pc'[t] = "order" /\ "remote" \in Routes \ errors[t]
          /\ errors' = errors /\ order' = order
        BY <1>0, <1>4 DEF TakeRoute, Goto
    <2>2. Share(t, "remote")' < Share(t, "remote")
        BY <1>0, <2>1 DEF Share
    <2>3. Share(t, "local")' = Share(t, "local")
        BY <2>1 DEF Share
    <2> QED
        BY <2>1, <2>2, <2>3, AStepOff
<1>5. CASE Acquire(t) \/ LocalReturns(t)
    <2>1. /\ \/ pc[t] = "acquire" /\ pc'[t] = "local"
             \/ pc[t] = "local" /\ pc'[t] = "release"
          /\ "local" \in Routes \ errors[t] /\ errors' = errors /\ order' = order
        BY <1>0, <1>5 DEF Acquire, LocalReturns, Goto, OnOpenRoute
    <2>2. Share(t, "local")' < Share(t, "local")
        BY <2>1 DEF Share
    <2>3. Share(t, "remote")' = Share(t, "remote")
        BY <2>1 DEF Share
    <2> QED
        BY <2>1, <2>2, <2>3, AStepOff
<1>6. CASE AcquireTimesOut(t)
    BY <1>6, RaiseSaves DEF AcquireTimesOut
<1>7. CASE Release(t)
    <2>1. CASE Raise(t, "local")
        BY <1>7, <2>1, RaiseSaves DEF Release
    <2>2. CASE ~Raise(t, "local")
        <3>1. /\ pc[t] = "release" /\ pc'[t] = "note_local"
              /\ "local" \in Routes \ errors[t] /\ errors' = errors /\ order' = order
            BY <1>0, <1>7, <2>2 DEF Release, Goto, OnOpenRoute
        <3>2. Share(t, "local")' < Share(t, "local")
            BY <3>1 DEF Share
        <3>3. Share(t, "remote")' = Share(t, "remote")
            BY <3>1 DEF Share
        <3> QED
            BY <3>1, <3>2, <3>3, AStepOff
    <2> QED
        BY <2>1, <2>2
<1>8. ASSUME pc[t] # "idle", pc'[t] = "idle" PROVE Left(t)' < Left(t)
    <2>1. Left(t)' = 0
        BY <1>8 DEF Left
    <2>2. PICK l \in Nat, r \in Nat : Share(t, "local") = l /\ Share(t, "remote") = r
        BY SharesAreNat DEF Shared
    <2>3. Left(t) = 1 + l + r
        BY <1>8, <2>2 DEF Left
    <2> QED
        BY <2>1, <2>3
<1>9. CASE Fail(t) \/ NoteAnswer(t, "note_local", "ollama")
              \/ NoteAnswer(t, "note_remote", "remote")
    BY <1>0, <1>8, <1>9 DEF Fail, NoteAnswer, Goto
<1>10. CASE KeyFails(t) \/ AllExhausted(t)
    BY <1>10, RaiseSaves DEF KeyFails, AllExhausted
<1>11. CASE OrderKeys(t) \/ LoadIndex(t) \/ StoreIndex(t) \/ KeyAnswers(t) \/ KeyExhausted(t)
    <2>1. /\ \/ pc[t] = "order" /\ pc'[t] = "load"
             \/ pc[t] = "load" /\ pc'[t] = "store" /\ order' = order
             \/ pc[t] = "store" /\ pc'[t] = "call" /\ order' = order
             \/ pc[t] = "call" /\ pc'[t] = "note_remote" /\ order[t] # <<>>
             \/ /\ pc[t] = "call" /\ pc'[t] = "call" /\ order[t] # <<>>
                /\ order'[t] = Tail(order[t])
          /\ "remote" \in Routes \ errors[t] /\ errors' = errors
        BY <1>0, <1>11 DEF OrderKeys, LoadIndex, StoreIndex, KeyAnswers, KeyExhausted,
                           Goto, OnOpenRoute
    <2>2. /\ order[t] # <<>> => Len(order[t]) > 0
          /\ order[t] # <<>> /\ order'[t] = Tail(order[t]) =>
                Len(order'[t]) = Len(order[t]) - 1
        BY <1>0
    <2>3. Share(t, "remote")' < Share(t, "remote")
        BY <1>0, <1>2, <2>1, <2>2 DEF Share
    <2>4. Share(t, "local")' = Share(t, "local")
        BY <2>1 DEF Share
    <2> QED
        BY <2>1, <2>3, <2>4, AStepOff
<1> QED
    BY <1>3, <1>4, <1>5, <1>6, <1>7, <1>9, <1>10, <1>11 DEF Serve, Local, Remote

LEMMA WindingStep == Ready /\ Ready' /\ [Next]_vars => [WindsDown]_vars
<1> SUFFICES ASSUME Ready, Ready', Next, NEW t \in Threads
             PROVE  /\ Serve(t) => Left(t)' < Left(t)
                    /\ Left(t)' > Left(t) => Ask(t)
    BY DEF WindsDown
<1>1. Left(t) \in Int /\ Left(t)' \in Int
    <2>2. PICK l \in Nat, r \in Nat : Share(t, "local") = l /\ Share(t, "remote") = r
        BY SharesAreNat DEF Shared
    <2>3. PICK m \in Nat, q \in Nat : Share(t, "local")' = m /\ Share(t, "remote")' = q
        BY SharesAreNat DEF Shared
    <2>4. Left(t) = IF pc[t] = "idle" THEN 0 ELSE 1 + l + r
        BY <2>2 DEF Left
    <2>5. Left(t)' = IF pc'[t] = "idle" THEN 0 ELSE 1 + m + q
        BY <2>3 DEF Left
    <2> QED
        BY <2>4, <2>5
<1>2. ASSUME ~Ask(t), ~Serve(t) PROVE Left(t)' = Left(t)
    <2>1. CASE Tick
        BY <2>1, Untouched DEF Tick, local
    <2>2. ASSUME NEW u \in Threads, Ask(u) \/ Serve(u) PROVE Left(t)' = Left(t)
        BY <1>2, <2>2, OthersUntouched
    <2> QED
        BY <2>1, <2>2 DEF Next
<1> QED
    BY <1>1, <1>2, Saves

(* A request ends after at most Len(Keys) + 11 steps of its own thread,    *)
(* whatever the other threads and the clock do to the permit, the index    *)
(* and the cooldowns meanwhile (create_chat_completion): no route is       *)
(* entered twice, and no interference adds to what is left.                *)
THEOREM RequestsAreShort == Spec => []LeftIsBounded /\ [][WindsDown]_vars
<1>1. Ready => LeftIsBounded
    <2> SUFFICES ASSUME Ready, NEW t \in Threads
                 PROVE  Left(t) \in 0 .. Len(Keys) + 11 /\ (Left(t) = 0 <=> pc[t] = "idle")
        BY DEF LeftIsBounded
    <2>1. SharesBounded /\ Len(Keys) \in Nat
        BY ShareTyped, LLMPoolAssumption DEF LLMPoolAssumption
    <2> QED
        BY <2>1 DEF SharesBounded, Left
<1>2. IInv /\ OrderTyped <=> Ready
    BY DEF Ready
<1> QED
    BY <1>1, <1>2, Invariance, Orders, WindingStep, PTL DEF Spec
=============================================================================

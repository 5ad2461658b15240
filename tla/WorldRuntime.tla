---------------------------- MODULE WorldRuntime ----------------------------
(* The running World: the clock with its tick pipeline (core/engine.py),   *)
(* the kernel that obeys the published ticks later, on the bus             *)
(* (ai/simulator_engine/world_kernel.py), the sovereign graph that takes   *)
(* part in the tick itself (sovereign_graph.py), the bridge that gives an  *)
(* operator's edit to both (bridges/world_bridge.py), the LLM deliberations*)
(* in the background (hierarchy_broker.py, dialogue_orchestrator.py) and   *)
(* POST /world/reset, which puts all of them back in the middle of it.     *)
(*                                                                         *)
(* Abstracted data: the economies themselves. Of an edit only who knows it *)
(* is kept, of a stance of the governors the world that it was thought for *)
(* and how long it lasts. A reset makes a new world, numbered from 0.      *)
EXTENDS Integers, Sequences, FiniteSets

CONSTANTS
    Edits,      \* the tariffs and mutations that operators ask for
    Shared,     \* those whose nodes and fields the graph knows as well
    Speeds,     \* TIME_SPEED_MULTIPLIERS
    Ttl,        \* ttl_ticks of a stance
    MaxDay,     \* bound on the simulated day: the clock stays there
    MaxWorld,   \* bound on the resets
    MaxQueue    \* bound on the ticks waiting on the bus

ASSUME WorldAssumption ==
    /\ Shared \subseteq Edits
    /\ Speeds \subseteq Nat \ {0}
    /\ Ttl \in Nat \ {0}
    /\ MaxDay \in Nat /\ MaxWorld \in Nat /\ MaxQueue \in Nat

Worlds == 0 .. MaxWorld

Voices == {"governors", "dialogue"}

VARIABLES
    clock,      \* TimeEngine._sim_day
    paused,     \* TimeEngine._paused
    worldOn,    \* SystemController.world_simulation_enabled
    ticks,      \* the time.tick events on the bus; `world` is history
    emitting,   \* the worlds whose tick waits for the LLM's headline: none or one
    world,      \* which world the objects of kernel and graph are
    kday,       \* WorldKernel._sim_day
    known,      \* the edits that the kernel's world has been given
    pending,    \* SovereignWorldGraph._pending_mutations
    history,    \* the nodes of ScenarioChronology, from genesis to the active one
    talks,      \* the deliberations that wait for the LLM
    stance,     \* HierarchyBroker._llm_directives of each world's broker
    astray      \* history: the last tick was skipped, or of an earlier world

clockVars == <<clock, paused>>
kernelVars == <<world, kday, known>>
graphVars == <<pending, history>>
vars == <<clockVars, worldOn, ticks, emitting, kernelVars, graphVars,
          talks, stance, astray>>

(* Days from MaxDay on are not told apart.                                 *)
AtMost(day) == IF day < MaxDay THEN day ELSE MaxDay

NoStance == [about |-> -1, left |-> 0]
Node(day, trigger) == [day |-> day, trigger |-> trigger]
Genesis == <<Node(0, {})>>

-----------------------------------------------------------------------------
Init ==
    /\ clock = 0 /\ paused = FALSE
    /\ worldOn \in BOOLEAN
    /\ ticks = <<>> /\ emitting = {}
    /\ world = 0 /\ kday = 0 /\ known = {}
    /\ pending = {} /\ history = Genesis
    /\ talks = {}
    /\ stance = [w \in Worlds |-> NoStance]
    /\ astray = FALSE

PauseOrResume ==
    /\ paused' = ~paused
    /\ UNCHANGED <<clock, worldOn, ticks, emitting, kernelVars, graphVars,
                   talks, stance, astray>>

SwitchWorld ==
    /\ worldOn' = ~worldOn
    /\ UNCHANGED <<clockVars, ticks, emitting, kernelVars, graphVars,
                   talks, stance, astray>>

(* Mutant: the mutations are not taken off after the fork.                 *)
ForkAgain(day) ==
    /\ history' = IF pending = {} THEN history
                  ELSE Append(history, Node(day, pending))
    /\ UNCHANGED pending

(* Mutant: the guardrail of the other phases is put before this one too.   *)
ForkWhenOn(day) ==
    IF worldOn /\ pending # {}
    THEN history' = Append(history, Node(day, pending)) /\ pending' = {}
    ELSE UNCHANGED graphVars

(* The graph's APPLY_EVENTS phase, whether the World is on or off: the     *)
(* queued mutations are applied and fork the chronology.                   *)
Fork(day) ==
    /\ history' = IF pending = {} THEN history
                  ELSE Append(history, Node(day, pending))
    /\ pending' = {}


(* One turn of _tick_loop. All the handlers of the pipeline are coroutines *)
(* that never suspend, the publication of time.tick included.              *)
Advance ==
    /\ ~paused
    /\ Len(ticks) < MaxQueue
    /\ \E speed \in Speeds : clock' = AtMost(clock + speed)
    /\ ticks' = Append(ticks, [day |-> clock', world |-> world])
    /\ Fork(clock')
    /\ UNCHANGED <<paused, worldOn, emitting, kernelVars, talks, stance, astray>>

(* apply_tariff and mutate: an edit that the kernel accepts takes effect   *)
(* there at once; the graph queues it if it knows what it is about.        *)
Edit(e) ==
    /\ e \notin known
    /\ known' = known \cup {e}
    /\ pending' = IF e \in Shared THEN pending \cup {e} ELSE pending
    /\ UNCHANGED <<clockVars, worldOn, ticks, emitting, world, kday, history,
                   talks, stance, astray>>

-----------------------------------------------------------------------------
(* The kernel serves a tick.                                               *)

(* Mutant: the stance does not expire.                                     *)
AgedForever(s) == [about |-> s.about, left |-> s.left - 1]

(* _blend_directives: the stance is used while the broker's tick is not    *)
(* after the one that it expires at.                                       *)
Aged(s) ==
    IF s.left > 0 THEN [about |-> s.about, left |-> s.left - 1] ELSE NoStance

(* What a tick may start: the governors on their cadence, the dialogue     *)
(* when something material happens, neither while its last one is under way*)
Starts ==
    {v \in Voices : ~ \E t \in talks : t.by = v /\ t.world = world}

(* Mutant: the kernel counts the days itself.                              *)
CountedDay == kday + 1

PublishedDay == Head(ticks).day

(* The bus is free and hands the next tick to the kernel. A tick whose     *)
(* headline the LLM writes suspends its handler, and the bus with it.      *)
OnTick ==
    /\ emitting = {} /\ ticks # <<>>
    /\ worldOn
    /\ ticks' = Tail(ticks)
    /\ kday' = PublishedDay
    /\ astray' = (Head(ticks).world # world)
    /\ stance' = [stance EXCEPT ![world] = Aged(@)]
    /\ \E voices \in SUBSET Starts :
          talks' = talks \cup {[by |-> v, world |-> world] : v \in voices}
    /\ emitting' \in {{}, {world}}
    /\ UNCHANGED <<clockVars, worldOn, world, known, graphVars>>

(* Mutant: the tick is put back on the bus until the World is on.          *)
DeferTick ==
    /\ emitting = {} /\ ticks # <<>>
    /\ ~worldOn
    /\ ticks' = Append(Tail(ticks), Head(ticks))
    /\ astray' = TRUE
    /\ UNCHANGED <<clockVars, worldOn, emitting, kernelVars, graphVars, talks, stance>>

(* The guardrail: with the World switched off a tick is taken off the bus, *)
(* and that is all.                                                        *)
SkipTick ==
    /\ emitting = {} /\ ticks # <<>>
    /\ ~worldOn
    /\ ticks' = Tail(ticks)
    /\ astray' = TRUE
    /\ UNCHANGED <<clockVars, worldOn, emitting, kernelVars, graphVars, talks, stance>>

(* The LLM has written the headline, or failed to.                         *)
HeadlineDone ==
    /\ emitting # {}
    /\ emitting' = {}
    /\ UNCHANGED <<clockVars, worldOn, ticks, kernelVars, graphVars,
                   talks, stance, astray>>

(* Mutant: an answer goes to the broker that the kernel has by then.       *)
KernelsBroker(t) == world

(* The broker that the deliberation was started with: `self` of            *)
(* async_deliberate, the method that DialogueOrchestrator was given.       *)
OwnBroker(t) == t.world

(* A deliberation answers: with directives, or with nothing of use.        *)
Answer(t) ==
    /\ t \in talks
    /\ talks' = talks \ {t}
    /\ \/ UNCHANGED stance
       \/ stance' = [stance EXCEPT ![OwnBroker(t)] =
                        [about |-> t.world, left |-> Ttl + 1]]
    /\ UNCHANGED <<clockVars, worldOn, ticks, emitting, kernelVars, graphVars, astray>>

-----------------------------------------------------------------------------
(* Mutant: the graph keeps its chronology.                                 *)
KeepsChronology == pending' = {} /\ UNCHANGED history

(* SovereignWorldGraph.reset.                                              *)
FreshGraph == pending' = {} /\ history' = Genesis

(* POST /world/reset: pause, WorldKernel.reset, SovereignWorldGraph.reset  *)
(* and TimeEngine.reset, without an await in between. The governors' task  *)
(* is cancelled, the dialogue's goes on; the ticks on the bus and a handler*)
(* that is suspended there go on too.                                      *)
Reset ==
    /\ world < MaxWorld
    /\ world' = world + 1
    /\ clock' = 0 /\ paused' = TRUE
    /\ kday' = 0 /\ known' = {}
    /\ FreshGraph
    /\ talks' = {t \in talks : t.by = "dialogue"}
    /\ astray' = (ticks # <<>>)
    /\ UNCHANGED <<worldOn, ticks, emitting, stance>>

Serve == OnTick \/ SkipTick \/ HeadlineDone

Next ==
    \/ PauseOrResume \/ SwitchWorld \/ Advance \/ Reset
    \/ OnTick \/ SkipTick \/ HeadlineDone
    \/ \E e \in Edits : Edit(e)
    \/ \E t \in talks : Answer(t)

(* The clock's task wakes up every second, the bus task serves what there  *)
(* is, and the LLM client has a timeout; operators owe nothing.            *)
Fairness == WF_vars(Advance) /\ WF_vars(Serve)

Spec == Init /\ [][Next]_vars /\ Fairness

-----------------------------------------------------------------------------
TickEvents == [day : 0 .. MaxDay, world : Worlds]
Stances == {NoStance} \cup [about : Worlds, left : 0 .. Ttl + 1]

TypeOK ==
    /\ clock \in 0 .. MaxDay /\ paused \in BOOLEAN /\ worldOn \in BOOLEAN
    /\ ticks \in Seq(TickEvents) /\ Len(ticks) <= MaxQueue
    /\ emitting \in SUBSET Worlds
    /\ world \in Worlds /\ kday \in 0 .. MaxDay
    /\ known \in SUBSET Edits /\ pending \in SUBSET Shared
    /\ history \in Seq([day : 0 .. MaxDay, trigger : SUBSET Shared])
    /\ talks \in SUBSET [by : Voices, world : Worlds]
    /\ stance \in [Worlds -> Stances]
    /\ astray \in BOOLEAN

Forked(e) == {k \in DOMAIN history : e \in history[k].trigger}

(* The two world models are never apart over an edit: one that the graph   *)
(* knows about and that the kernel has applied either waits for the next   *)
(* tick or has forked the chronology, in one node; and what the graph has  *)
(* was applied to the kernel's world of today, not to one before a reset.  *)
InStep ==
    \A e \in Shared :
        /\ e \in known <=> (e \in pending \/ Forked(e) # {})
        /\ ~(e \in pending /\ Forked(e) # {})
        /\ \A i, j \in Forked(e) : i = j

(* The chronology is a history: it begins with genesis, its days increase  *)
(* and none of them is still to come.                                      *)
HistoryIsOrdered ==
    /\ history # <<>> /\ history[1] = Node(0, {})
    /\ \A i, j \in DOMAIN history :
          i < j => history[i].day < history[j].day \/ history[j].day = MaxDay
    /\ \A i \in DOMAIN history : history[i].day <= clock

(* No governor acts on a stance that was thought for a world before the    *)
(* reset, although its deliberation may outlive that world.                *)
StanceOfThisWorld ==
    stance[world] # NoStance => stance[world].about = world

(* When the bus has nothing left for the kernel it has the clock's day,    *)
(* unless its last tick was skipped or came from before the reset.         *)
KernelKeepsDay == ticks = <<>> /\ ~astray => kday = clock

(* An edit that waits forks the chronology, with the World switched off    *)
(* too, unless the operator keeps the clock paused or resets the World.    *)
EditIsForked ==
    \A e \in Shared :
        (e \in pending) ~> (e \notin pending \/ paused)

(* However long the LLM takes for the headlines, a kernel whose clock has  *)
(* been stopped works off its ticks and comes to rest.                     *)
KernelComesToRest == <>[]paused => <>[](ticks = <<>> /\ emitting = {})

(* main.py:518 "Reset the economic simulation and leave it paused at day   *)
(* zero": it is not when a tick was still on the bus.                      *)
ResetLeavesDayZero == clock = 0 => kday = 0

(* Nothing of the old world is emitted after a reset: it is, when the reset*)
(* overtakes a handler that waits for its headline.                        *)
OldWorldIsSilent == \A w \in emitting : w = world
=============================================================================

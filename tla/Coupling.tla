------------------------------ MODULE Coupling ------------------------------
(* How the simulated World may bias the Quant brain, and what the QuantMode*)
(* switch does about it: the shock that the Predictor latches              *)
(* (ai/inference/predictor.py), the one that the Core AI keeps             *)
(* (ai/meta/core_ai.py), the exposure that the AI bridge remembers         *)
(* (econith_quant/bridge/ai_bridge.py) and the events between them.        *)
(*                                                                         *)
(* Abstracted data: of every number only its provenance is kept, the ways  *)
(* through which the sandbox went into it.                                 *)
EXTENDS Integers, Sequences

CONSTANTS
    MaxDuration,   \* longest duration_ticks of a shock
    MaxQueue       \* bound on the events waiting on the bus

ASSUME CouplingAssumption ==
    /\ MaxDuration \in Nat \ {0}
    /\ MaxQueue \in Nat /\ MaxQueue > 2

VARIABLES
    mode,      \* ModeManager._mode
    left,      \* Predictor._impact_left: inferences that the shock still biases
    shock,     \* CrossAssetContext.world_shock > 0
    lean,      \* provenance of Predictor._quant_bias
    memory,    \* AIBridge._target_exposure was set by a signal of the sandbox
    queue,     \* the bus queue
    traded,    \* history: provenance of all orders sent in REALITY
    paused     \* Predictor._paused: the operator has stopped the loops

vars == <<mode, left, shock, lean, memory, queue, traded, paused>>

(* The Predictor's latch, the Core AI's context, the bridge's memory.      *)
Ways == {"latch", "context", "memory"}

Impact == [topic |-> "world.micro_impact"]
Directive(at, by) == [topic |-> "meta.quant.directive", at |-> at, by |-> by]
Signal(at, coupled, by) ==
    [topic |-> "ai.signal", at |-> at, coupled |-> coupled, by |-> by]
Intent(by) == [topic |-> "order.intent", by |-> by]

First == Head(queue)
Pop == Tail(queue)
Serves(topic) == queue # <<>> /\ First.topic = topic

-----------------------------------------------------------------------------
Init ==
    /\ mode \in {"REALITY", "SIMULATION"}
    /\ left = 0
    /\ shock = FALSE
    /\ lean = {}
    /\ memory = FALSE
    /\ queue = <<>>
    /\ traded = {}
    /\ paused = FALSE

SwitchMode ==
    /\ mode' \in {"REALITY", "SIMULATION"} \ {mode}
    /\ UNCHANGED <<left, shock, lean, memory, queue, traded, paused>>

(* A tick publishes only in SIMULATION, an operator's tariff or scenario   *)
(* in either mode.                                                         *)
WorldShocks ==
    /\ Len(queue) < MaxQueue - 1
    /\ queue' = Append(queue, Impact)
    /\ UNCHANGED <<mode, left, shock, lean, memory, traded, paused>>

(* The Predictor's and the Core AI's handlers of world.micro_impact.       *)
OnImpact ==
    /\ Serves("world.micro_impact")
    /\ queue' = Pop
    /\ IF mode = "SIMULATION"
       THEN left' \in 1 .. MaxDuration /\ shock' = TRUE
       ELSE left' = 0 /\ UNCHANGED shock
    /\ UNCHANGED <<mode, lean, memory, traded, paused>>

(* _emit_directives: world_shock bends the consensus verdict that is       *)
(* blended into the directive; nothing ever sets it back.                  *)
EmitDirectives ==
    /\ Len(queue) < MaxQueue - 1
    /\ queue' = Append(queue, Directive(mode, IF shock THEN {"context"} ELSE {}))
    /\ UNCHANGED <<mode, left, shock, lean, memory, traded, paused>>

OnDirective ==
    /\ Serves("meta.quant.directive")
    /\ lean' = First.by
    /\ queue' = Pop
    /\ UNCHANGED <<mode, left, shock, memory, traded, paused>>

(* Mutant: the latched shock is used in either mode.                       *)
AlwaysCoupled == left > 0

(* _impact_strength() > 0.                                                 *)
Coupled == mode = "SIMULATION" /\ left > 0

(* Mutant: the shock does not relax.                                       *)
StaysLatched == left

(* The shock relaxes by one inference.                                     *)
Relaxed == IF left > 0 THEN left - 1 ELSE 0

(* One inference of the Predictor's loop.                                  *)
Infer ==
    /\ ~paused
    /\ Len(queue) < MaxQueue
    /\ queue' = Append(queue, Signal(mode, Coupled,
                          lean \cup (IF Coupled THEN {"latch"} ELSE {})))
    /\ left' = Relaxed
    /\ UNCHANGED <<mode, shock, lean, memory, traded, paused>>

(* The exposure does not move: too small a change, or a Sentinel veto.     *)
SignalIgnored ==
    /\ Serves("ai.signal")
    /\ queue' = Pop
    /\ UNCHANGED <<mode, left, shock, lean, memory, traded, paused>>

(* Mutant: an exposure of the sandbox is blended into the next one.        *)
BlendsExposure ==
    /\ Serves("ai.signal")
    /\ memory' = (memory \/ First.at = "SIMULATION")
    /\ queue' = Append(Pop, Intent(First.by \cup (IF memory THEN {"memory"} ELSE {})))
    /\ UNCHANGED <<mode, left, shock, lean, traded, paused>>

(* _on_signal sizes the order by the distance from the exposure that the   *)
(* last signal left behind, whatever mode that was in.                     *)
SignalAdmitted ==
    /\ Serves("ai.signal")
    /\ memory' = (First.at = "SIMULATION")
    /\ queue' = Append(Pop, Intent(First.by \cup (IF memory THEN {"memory"} ELSE {})))
    /\ UNCHANGED <<mode, left, shock, lean, traded, paused>>

(* Mutant: an intent that was stopped is put back on the bus.              *)
IntentRetried ==
    /\ Serves("order.intent")
    /\ queue' = Append(Pop, First)
    /\ UNCHANGED <<mode, left, shock, lean, memory, traded, paused>>

(* The pre-trade gate drops it, or SIMULATION or a missing session keeps   *)
(* it off the exchange.                                                    *)
IntentStopped ==
    /\ Serves("order.intent")
    /\ queue' = Pop
    /\ UNCHANGED <<mode, left, shock, lean, memory, traded, paused>>

IntentTraded ==
    /\ Serves("order.intent")
    /\ mode = "REALITY"
    /\ traded' = traded \cup First.by
    /\ queue' = Pop
    /\ UNCHANGED <<mode, left, shock, lean, memory, paused>>

(* POST /quant/simulation/reset clears the Predictor's latch, only, and    *)
(* pauses.                                                                 *)
ResetSimulation ==
    /\ left' = 0
    /\ paused' = TRUE
    /\ UNCHANGED <<mode, shock, lean, memory, queue, traded>>

PauseOrResume ==
    /\ paused' = ~paused
    /\ UNCHANGED <<mode, left, shock, lean, memory, queue, traded>>

Dispatch ==
    \/ OnImpact \/ OnDirective \/ SignalIgnored \/ SignalAdmitted
    \/ IntentStopped \/ IntentTraded

Next ==
    \/ SwitchMode \/ WorldShocks \/ EmitDirectives \/ Infer
    \/ ResetSimulation \/ PauseOrResume \/ Dispatch

(* The bus task dispatches and the Predictor's task infers on an interval; *)
(* operators, the World and the Core AI owe nothing.                       *)
Spec == Init /\ [][Next]_vars /\ WF_vars(Dispatch) /\ WF_vars(Infer)

-----------------------------------------------------------------------------
ModeNames == {"REALITY", "SIMULATION"}
Events == {Impact}
          \cup {Directive(m, by) : m \in ModeNames, by \in SUBSET Ways}
          \cup {Signal(m, c, by) : m \in ModeNames, c \in BOOLEAN, by \in SUBSET Ways}
          \cup {Intent(by) : by \in SUBSET Ways}

TypeOK ==
    /\ mode \in ModeNames
    /\ left \in 0 .. MaxDuration
    /\ shock \in BOOLEAN
    /\ lean \subseteq {"context"}
    /\ memory \in BOOLEAN
    /\ queue \in Seq(Events) /\ Len(queue) <= MaxQueue
    /\ traded \subseteq Ways
    /\ paused \in BOOLEAN

(* mode.py:10-12: a signal computed in REALITY never carries the latched   *)
(* shock, although a switch to REALITY leaves the latch itself loaded.     *)
SignalsOfRealityAreUncoupled ==
    \A k \in DOMAIN queue :
        queue[k].topic = "ai.signal" /\ queue[k].at = "REALITY" =>
            ~queue[k].coupled /\ "latch" \notin queue[k].by

NoImpactWaits == \A k \in DOMAIN queue : queue[k].topic # "world.micro_impact"

(* predictor.py "Relax the transient world shock toward neutral": once the *)
(* World is quiet the latch runs out, in whatever mode, unless the operator*)
(* keeps the Predictor paused.                                             *)
ShockWearsOff == <>[](NoImpactWaits /\ ~paused) => <>[](left = 0)

(* The switch to REALITY leaves the bus alone, so that signals and intents *)
(* of the sandbox are still served after it; but once REALITY lasts they   *)
(* run out: no biased signal is admitted again and again, none is retried. *)
LatchLeavesTheBus ==
    <>[](mode = "REALITY") =>
        <>[](\A k \in DOMAIN queue :
                queue[k].topic \in {"ai.signal", "order.intent"} =>
                    "latch" \notin queue[k].by)

(* An exposure taken up in the sandbox is the base of the first order of   *)
(* REALITY only: as long as signals are admitted there it is replaced, and *)
(* the orders sized by it leave the bus.                                   *)
MemoryIsShed ==
    <>[](mode = "REALITY") /\ []<><<SignalAdmitted>>_vars =>
        <>[](\A k \in DOMAIN queue :
                queue[k].topic = "order.intent" => "memory" \notin queue[k].by)

(* core_ai.py:31 "in REALITY it derives directives from live data only".   *)
DirectivesAreLive ==
    \A k \in DOMAIN queue :
        queue[k].topic = "meta.quant.directive" /\ queue[k].at = "REALITY" =>
            queue[k].by = {}

(* event_bus.py:16-17 "Simulated world state can never bias a live         *)
(* execution node": no order of REALITY carries the Predictor's shock, the *)
(* Core AI's, or an exposure that was taken up in the sandbox.             *)
OrdersOfRealityAreUncoupled == traded = {}
=============================================================================

----------------------------- MODULE OrderFlow -----------------------------
(* From an ai.signal to an order at the venue, under the Sentinel's mode:  *)
(* the veto, the target exposure and the reduce-only flag of the AI bridge *)
(* (econith_quant/bridge/ai_bridge.py), the leg side of the router         *)
(* (econith/quant/routing/router.py), the side that QuantExecutionBridge   *)
(* resolves and the reduceOnly parameter of quant/payloads.py.             *)
(*                                                                         *)
(* The Sentinel is its contract: the mode moves as FreezeContract allows,  *)
(* and the bridge learns of it from the sentinel.status of a one-second    *)
(* loop.  One symbol of the route is modelled.  Exposures count in units   *)
(* of ai_min_exposure_delta; quantities, rescaled several times on the way,*)
(* are any.  A runtime pause stops the inference and the status loop       *)
(* together and is left out.                                               *)
EXTENDS Integers, Sequences

CONSTANTS
    Signals,       \* what the Predictor may say
    MaxExposure,   \* largest |target|
    MaxPosition,   \* bound on the position at the venue
    Derivatives,   \* default_type is a futures market: reduceOnly is passed on
    Cooldown,      \* of the Sentinel
    MaxQueue       \* bound on the events waiting on the bus

Modes == {"NORMAL", "REDUCE_ONLY", "FROZEN"}
Ways  == {-1, 0, 1}
Abs(x) == IF x < 0 THEN -x ELSE x

(* target is direction * max(confidence, floor), 0 for FLAT; way is the    *)
(* sign of the direction, or 0 when the direction or the confidence is 0   *)
(* and the router's plan has no leg.                                       *)
AllSignals == {s \in [flat : BOOLEAN, target : -MaxExposure .. MaxExposure, way : Ways] :
                  IF s.flat THEN s.target = 0
                  ELSE s.target # 0 /\ s.way * s.target >= 0}

ASSUME OrderFlowAssumption ==
    /\ MaxExposure \in Nat \ {0}
    /\ MaxPosition \in Nat \ {0}
    /\ Signals \subseteq AllSignals
    /\ Derivatives \in BOOLEAN
    /\ Cooldown \in Nat \ {0}
    /\ MaxQueue \in Nat /\ MaxQueue > 1

VARIABLES
    gov,      \* the Sentinel's mode
    hold,     \* ticks for which FROZEN is guaranteed
    rearmed,  \* flips with every operator re-arm
    seen,     \* AIBridge._mode
    target,   \* AIBridge._target_exposure
    venue,    \* position at the venue
    queue     \* the bus queue

vars == <<gov, hold, rearmed, seen, target, venue, queue>>
sentinel == <<gov, hold, rearmed>>

Signal(s) == [topic |-> "ai.signal", signal |-> s]
Status(m) == [topic |-> "sentinel.status", mode |-> m]

(* under is history: the mode in which the bridge let the order pass.      *)
Intent(way, reduce, under) ==
    [topic |-> "order.intent", way |-> way, reduce |-> reduce, under |-> under]

First == Head(queue)
Pop == Tail(queue)
Serves(topic) == queue # <<>> /\ First.topic = topic

Governor == INSTANCE FreezeContract WITH mode <- gov, left <- hold, operator <- rearmed

-----------------------------------------------------------------------------
Init ==
    /\ gov = "NORMAL"
    /\ hold = 0
    /\ rearmed = FALSE
    /\ seen = "NORMAL"
    /\ target = 0
    /\ venue = 0
    /\ queue = <<>>

GovernorMoves ==
    /\ gov' \in Modes
    /\ hold' \in 0 .. Cooldown
    /\ rearmed' \in BOOLEAN
    /\ Governor!Step
    /\ UNCHANGED <<seen, target, venue, queue>>

(* The status of one cycle of Sentinel.run.                                *)
PublishStatus ==
    /\ Len(queue) < MaxQueue
    /\ queue' = Append(queue, Status(gov))
    /\ UNCHANGED <<sentinel, seen, target, venue>>

Infer ==
    /\ Len(queue) < MaxQueue - 1
    /\ \E s \in Signals : queue' = Append(queue, Signal(s))
    /\ UNCHANGED <<sentinel, seen, target, venue>>

(* Mutant: the bridge takes notice of a soft freeze only.                  *)
ForgetsFreeze ==
    /\ Serves("sentinel.status")
    /\ seen' = IF First.mode = "FROZEN" THEN seen ELSE First.mode
    /\ queue' = Pop
    /\ UNCHANGED <<sentinel, target, venue>>

OnSentinel ==
    /\ Serves("sentinel.status")
    /\ seen' = First.mode
    /\ queue' = Pop
    /\ UNCHANGED <<sentinel, target, venue>>

Reducing(s) == s.flat \/ Abs(s.target) < Abs(target)

(* The Sentinel veto as the bridge knows it.                               *)
Vetoed(s) == seen = "FROZEN" \/ (seen = "REDUCE_ONLY" /\ ~Reducing(s))

(* _on_signal returns early: the change is below the minimum, or a veto.   *)
SignalDropped ==
    /\ Serves("ai.signal")
    /\ First.signal.target = target \/ Vetoed(First.signal)
    /\ queue' = Pop
    /\ UNCHANGED <<sentinel, seen, target, venue>>

(* Mutant: the new target is added to the old one.                         *)
AddsToTarget(s) == target + s.target

(* _target_exposure after an admitted signal.                              *)
NewTarget(s) == s.target

(* The router's plan has a leg: neither direction nor confidence is zero.  *)
HasLeg(s) == s.way # 0

(* The target moves at once; the leg takes its side from the direction of  *)
(* the signal and not from the change of the target.                       *)
SignalAdmitted ==
    /\ Serves("ai.signal")
    /\ LET s == First.signal
       IN  /\ s.target # target /\ ~Vetoed(s)
           /\ target' = NewTarget(s)
           /\ queue' = IF HasLeg(s) THEN Append(Pop, Intent(s.way, Reducing(s), seen))
                       ELSE Pop
    /\ UNCHANGED <<sentinel, seen, venue>>

(* Mutant: a sale always opens.                                            *)
SaleOpens(way, reduce) ==
    IF way = 1 THEN (IF reduce THEN "SHORT_CLOSE" ELSE "LONG_OPEN")
    ELSE "SHORT_OPEN"

(* _resolve_side.                                                          *)
Side(way, reduce) ==
    IF way = 1 THEN (IF reduce THEN "SHORT_CLOSE" ELSE "LONG_OPEN")
    ELSE (IF reduce THEN "LONG_CLOSE" ELSE "SHORT_OPEN")

(* OrderSide.ccxt_side as a sign, and the reduceOnly of from_execution.    *)
Sign(side) == IF side \in {"LONG_OPEN", "SHORT_CLOSE"} THEN 1 ELSE -1
ReduceOnly(side) == Derivatives /\ side \in {"LONG_CLOSE", "SHORT_CLOSE"}

(* Positions that the venue may reach by executing n units: a reduce-only  *)
(* order is cut down to the position that it opposes, or refused.          *)
After(side, n) ==
    LET moved == venue + Sign(side) * n
    IN  IF ~ReduceOnly(side) THEN moved
        ELSE IF venue > 0 /\ moved < venue THEN (IF moved > 0 THEN moved ELSE 0)
        ELSE IF venue < 0 /\ moved > venue THEN (IF moved < 0 THEN moved ELSE 0)
        ELSE venue

(* The gate drops the order, the mode or a missing session keeps it from   *)
(* the venue, or the venue refuses it.                                     *)
OrderStopped ==
    /\ Serves("order.intent")
    /\ queue' = Pop
    /\ UNCHANGED <<sentinel, seen, target, venue>>

(* An order of n units is executed; n is bounded by MaxPosition, and a     *)
(* spot account holds no short.                                            *)
OrderExecuted ==
    /\ Serves("order.intent")
    /\ \E n \in 1 .. 2 * MaxPosition :
          venue' = After(Side(First.way, First.reduce), n)
    /\ venue' \in (IF Derivatives THEN -MaxPosition ELSE 0) .. MaxPosition
    /\ queue' = Pop
    /\ UNCHANGED <<sentinel, seen, target>>

Dispatch ==
    OnSentinel \/ SignalDropped \/ SignalAdmitted \/ OrderStopped \/ OrderExecuted

Next == GovernorMoves \/ PublishStatus \/ Infer \/ Dispatch

(* The bus task dispatches, and the status loop publishes every second.    *)
Spec == Init /\ [][Next]_vars /\ WF_vars(Dispatch) /\ WF_vars(PublishStatus)

-----------------------------------------------------------------------------
Events == {Signal(s) : s \in Signals}
          \cup {Status(m) : m \in Modes}
          \cup {Intent(w, r, m) : w \in {-1, 1}, r \in BOOLEAN, m \in Modes \ {"FROZEN"}}

TypeOK ==
    /\ gov \in Modes
    /\ hold \in 0 .. Cooldown
    /\ rearmed \in BOOLEAN
    /\ seen \in Modes
    /\ target \in -MaxExposure .. MaxExposure
    /\ venue \in -MaxPosition .. MaxPosition
    /\ queue \in Seq(Events) /\ Len(queue) <= MaxQueue

(* Position p is what is left of q, on the same side of zero.              *)
Within(p, q) == (0 <= p /\ p <= q) \/ (q <= p /\ p <= 0)

(* ai_bridge.py:10 "mode REDUCE_ONLY -> only allow reduce-only / flattening*)
(* intents": an order that the bridge let pass in REDUCE_ONLY never        *)
(* enlarges or turns the position, whatever signals, orders, refusals and  *)
(* rounding have made of the position and of the target meanwhile.         *)
ReduceOnlyHolds ==
    [][Serves("order.intent") /\ First.under = "REDUCE_ONLY" => Within(venue', venue)]_vars

(* A freeze takes hold although the bridge knows the mode by hearsay: if   *)
(* the Sentinel stays frozen, the last order is dispatched some time.      *)
FreezeTakesHold ==
    <>[](gov = "FROZEN") =>
        <>[](\A k \in DOMAIN queue : queue[k].topic # "order.intent")

(* ai_bridge.py:7-9 "The Sentinel ALWAYS wins: mode FROZEN -> reject every *)
(* intent".                                                                *)
NoOrderWhileFrozen == [][venue' # venue => gov # "FROZEN"]_vars

(* ai_bridge.py:10 "mode REDUCE_ONLY -> only allow reduce-only / flattening*)
(* intents": of a position that the target agrees with, what passes then is*)
(* on the side that reduces it.                                            *)
ReductionsOppose ==
    [][/\ SignalAdmitted /\ seen = "REDUCE_ONLY" /\ HasLeg(First.signal)
       /\ target * venue > 0
       => First.signal.way * venue < 0]_vars
=============================================================================

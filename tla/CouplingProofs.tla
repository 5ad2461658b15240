--------------------------- MODULE CouplingProofs ---------------------------
(* Machine-checked facts about the isolation of the Quant brain, for every *)
(* duration of a shock and every length of the bus.                        *)
EXTENDS Coupling, TLAPS

LEMMA EventType ==
    /\ Impact \in Events
    /\ \A m \in ModeNames, by \in SUBSET Ways : Directive(m, by) \in Events
    /\ \A m \in ModeNames, c \in BOOLEAN, by \in SUBSET Ways : Signal(m, c, by) \in Events
    /\ \A by \in SUBSET Ways : Intent(by) \in Events
BY DEF Events

LEMMA Topics ==
    ASSUME NEW e \in Events
    PROVE  /\ e.topic = "meta.quant.directive" =>
                 \E m \in ModeNames, by \in SUBSET Ways : e = Directive(m, by)
           /\ e.topic = "ai.signal" =>
                 \E m \in ModeNames, c \in BOOLEAN, by \in SUBSET Ways : e = Signal(m, c, by)
           /\ e.topic = "order.intent" => \E by \in SUBSET Ways : e = Intent(by)
BY DEF Events, Impact, Directive, Signal, Intent

(* What an event of the bus may carry: a directive only the context's      *)
(* shock, and a signal of REALITY not the Predictor's.                     *)
Clean(e) ==
    /\ e.topic = "meta.quant.directive" => e.by \subseteq {"context"}
    /\ e.topic = "ai.signal" /\ e.at = "REALITY" => ~e.coupled /\ "latch" \notin e.by

AllClean == \A k \in DOMAIN queue : Clean(queue[k])

IInv == TypeOK /\ AllClean

LEMMA PopClean ==
    ASSUME IInv, queue # <<>>
    PROVE  /\ First \in Events /\ Clean(First)
           /\ Pop \in Seq(Events)
           /\ Len(Pop) + 1 <= MaxQueue
           /\ \A k \in DOMAIN Pop : Clean(Pop[k])
<1>1. /\ queue \in Seq(Events) /\ Len(queue) <= MaxQueue
      /\ 1 \in DOMAIN queue /\ First = queue[1]
    BY DEF IInv, TypeOK, First
<1>2. /\ Pop \in Seq(Events) /\ Len(Pop) = Len(queue) - 1
      /\ \A k \in DOMAIN Pop : k + 1 \in DOMAIN queue /\ Pop[k] = queue[k + 1]
    BY <1>1 DEF Pop
<1> QED
    BY <1>1, <1>2, CouplingAssumption DEF CouplingAssumption, IInv, AllClean

LEMMA AppendClean ==
    ASSUME NEW q \in Seq(Events), NEW e \in Events, Len(q) < MaxQueue, Clean(e),
           \A k \in DOMAIN q : Clean(q[k])
    PROVE  /\ Append(q, e) \in Seq(Events)
           /\ Len(Append(q, e)) <= MaxQueue
           /\ \A k \in DOMAIN Append(q, e) : Clean(Append(q, e)[k])
<1>1. Append(q, e) \in Seq(Events) /\ Len(Append(q, e)) <= MaxQueue
    BY CouplingAssumption DEF CouplingAssumption
<1>2. ASSUME NEW k \in DOMAIN Append(q, e) PROVE Clean(Append(q, e)[k])
    <2>1. CASE k = Len(q) + 1
        BY <2>1
    <2>2. CASE k # Len(q) + 1
        <3>1. k \in DOMAIN q /\ Append(q, e)[k] = q[k]
            BY <2>2
        <3> QED
            BY <3>1
    <2> QED
        BY <2>1, <2>2
<1> QED
    BY <1>1, <1>2

-----------------------------------------------------------------------------
LEMMA InitIInv == Init => IInv
<1> SUFFICES ASSUME Init PROVE IInv
    OBVIOUS
<1>1. queue \in Seq(Events) /\ Len(queue) = 0 /\ DOMAIN queue = {}
    BY DEF Init
<1>2. Len(queue) <= MaxQueue /\ left \in 0 .. MaxDuration
    BY <1>1, CouplingAssumption DEF CouplingAssumption, Init
<1>3. /\ mode \in ModeNames /\ shock \in BOOLEAN /\ memory \in BOOLEAN
      /\ lean \subseteq {"context"} /\ traded \subseteq Ways /\ paused \in BOOLEAN
    BY DEF Init, ModeNames
<1> QED
    BY <1>1, <1>2, <1>3 DEF IInv, TypeOK, AllClean

LEMMA StepIInv == IInv /\ [Next]_vars => IInv'
<1> SUFFICES ASSUME IInv, [Next]_vars PROVE IInv'
    OBVIOUS
<1> USE CouplingAssumption DEF CouplingAssumption
<1> DEFINE Bus == queue \in Seq(Events) /\ Len(queue) <= MaxQueue /\ AllClean
<1>a. Bus /\ \A k \in DOMAIN queue : Clean(queue[k])
    BY DEF IInv, TypeOK, AllClean
<1>b. ASSUME NEW e \in Events, Clean(e), Len(queue) < MaxQueue, queue' = Append(queue, e)
      PROVE  Bus'
    BY <1>a, <1>b, AppendClean DEF AllClean
<1>c. ASSUME queue # <<>>, queue' = Pop PROVE Bus'
    BY <1>c, PopClean DEF AllClean
<1>1. CASE SwitchMode
    BY <1>1, <1>a DEF SwitchMode, IInv, TypeOK, AllClean, ModeNames
<1>2. CASE WorldShocks
    <2>1. Impact \in Events /\ Clean(Impact)
        BY EventType DEF Impact, Clean
    <2>2. Bus'
        BY <1>2, <2>1, <1>a, <1>b DEF WorldShocks
    <2> QED
        BY <1>2, <2>2 DEF WorldShocks, IInv, TypeOK
<1>3. CASE EmitDirectives
    <2> DEFINE d == Directive(mode, IF shock THEN {"context"} ELSE {})
    <2>1. d \in Events /\ Clean(d)
        BY EventType DEF IInv, TypeOK, Ways, Directive, Clean
    <2>2. Bus'
        BY <1>3, <2>1, <1>a, <1>b DEF EmitDirectives
    <2> QED
        BY <1>3, <2>2 DEF EmitDirectives, IInv, TypeOK
<1>4. CASE Infer
    <2> DEFINE s == Signal(mode, Coupled, lean \cup (IF Coupled THEN {"latch"} ELSE {}))
    <2>1. Coupled \in BOOLEAN /\ (mode = "REALITY" => ~Coupled)
        BY DEF Coupled
    <2>2. s \in Events
        BY <2>1, EventType DEF IInv, TypeOK, Ways
    <2>3. Clean(s)
        BY <2>1 DEF Signal, Clean, IInv, TypeOK
    <2>4. Bus'
        BY <1>4, <2>2, <2>3, <1>a, <1>b DEF Infer
    <2>5. left' \in 0 .. MaxDuration
        BY <1>4 DEF Infer, Relaxed, IInv, TypeOK
    <2> QED
        BY <1>4, <2>4, <2>5 DEF Infer, IInv, TypeOK
<1>5. CASE ResetSimulation
    <2>1. left' \in 0 .. MaxDuration
        BY <1>5 DEF ResetSimulation
    <2> QED
        BY <1>5, <2>1 DEF ResetSimulation, IInv, TypeOK, AllClean
<1>6. CASE PauseOrResume
    BY <1>6 DEF PauseOrResume, IInv, TypeOK, AllClean
<1>7. CASE Dispatch
    <2>1. queue # <<>>
        BY <1>7 DEF Dispatch, OnImpact, OnDirective, SignalIgnored, SignalAdmitted,
                    IntentStopped, IntentTraded, Serves
    <2>2. First \in Events /\ Clean(First)
        BY <2>1, PopClean
    <2>3. CASE OnImpact
        <3>1. Bus'
            BY <2>1, <2>3, <1>c DEF OnImpact
        <3>2. left' \in 0 .. MaxDuration
            BY <2>3 DEF OnImpact
        <3>3. shock' \in BOOLEAN
            BY <2>3 DEF OnImpact, IInv, TypeOK
        <3> QED
            BY <2>3, <3>1, <3>2, <3>3 DEF OnImpact, IInv, TypeOK
    <2>4. CASE OnDirective
        <3>1. Bus'
            BY <2>1, <2>4, <1>c DEF OnDirective
        <3>2. lean' \subseteq {"context"}
            BY <2>2, <2>4 DEF OnDirective, Serves, Clean
        <3> QED
            BY <2>4, <3>1, <3>2 DEF OnDirective, IInv, TypeOK
    <2>5. CASE SignalIgnored
        <3>1. Bus'
            BY <2>1, <2>5, <1>c DEF SignalIgnored
        <3> QED
            BY <2>5, <3>1 DEF SignalIgnored, IInv, TypeOK
    <2>6. CASE SignalAdmitted
        <3> DEFINE i == Intent(First.by \cup (IF memory THEN {"memory"} ELSE {}))
        <3>1. PICK m \in ModeNames, c \in BOOLEAN, by \in SUBSET Ways : First = Signal(m, c, by)
            BY <2>2, <2>6, Topics DEF SignalAdmitted, Serves
        <3>2. i \in Events /\ Clean(i)
            BY <3>1, EventType DEF Signal, Intent, Clean, Ways
        <3>3. Bus'
            <4>1. queue' = Append(Pop, i)
                BY <2>6 DEF SignalAdmitted
            <4>2. /\ Pop \in Seq(Events) /\ Len(Pop) < MaxQueue
                  /\ \A k \in DOMAIN Pop : Clean(Pop[k])
                BY <2>1, PopClean
            <4> HIDE DEF i
            <4>3. /\ Append(Pop, i) \in Seq(Events)
                  /\ Len(Append(Pop, i)) <= MaxQueue
                  /\ \A k \in DOMAIN Append(Pop, i) : Clean(Append(Pop, i)[k])
                BY <3>2, <4>2, AppendClean
            <4> QED
                BY <4>1, <4>3 DEF AllClean
        <3>4. memory' \in BOOLEAN
            BY <2>6 DEF SignalAdmitted
        <3> QED
            BY <2>6, <3>3, <3>4 DEF SignalAdmitted, IInv, TypeOK
    <2>7. CASE IntentStopped
        <3>1. Bus'
            BY <2>1, <2>7, <1>c DEF IntentStopped
        <3> QED
            BY <2>7, <3>1 DEF IntentStopped, IInv, TypeOK
    <2>8. CASE IntentTraded
        <3>1. PICK by \in SUBSET Ways : First = Intent(by)
            BY <2>2, <2>8, Topics DEF IntentTraded, Serves
        <3>2. traded' \subseteq Ways
            BY <2>8, <3>1 DEF IntentTraded, Intent, IInv, TypeOK
        <3>3. Bus'
            BY <2>1, <2>8, <1>c DEF IntentTraded
        <3> QED
            BY <2>8, <3>2, <3>3 DEF IntentTraded, IInv, TypeOK
    <2> QED
        BY <1>7, <2>3, <2>4, <2>5, <2>6, <2>7, <2>8 DEF Dispatch
<1>8. CASE UNCHANGED vars
    BY <1>8 DEF vars, IInv, TypeOK, AllClean
<1> QED
    BY <1>1, <1>2, <1>3, <1>4, <1>5, <1>6, <1>7, <1>8 DEF Next

(* The latch stays within its duration, whatever the mode does to it, and  *)
(* the Predictor's lean has no other provenance than the Core AI's shock.  *)
THEOREM TypeCorrect == Spec => []TypeOK
<1>1. IInv => TypeOK
    BY DEF IInv
<1> QED
    BY <1>1, InitIInv, StepIInv, PTL DEF Spec

(* However modes, shocks, directives, resets and inferences interleave, no *)
(* signal computed in REALITY carries the Predictor's latched shock.       *)
THEOREM RealityUncoupled == Spec => []SignalsOfRealityAreUncoupled
<1>1. IInv => SignalsOfRealityAreUncoupled
    BY DEF IInv, AllClean, Clean, SignalsOfRealityAreUncoupled
<1> QED
    BY <1>1, InitIInv, StepIInv, PTL DEF Spec

-----------------------------------------------------------------------------
(* What a switch to REALITY takes along: what the Core AI, the Predictor   *)
(* and the AI bridge hold of a way, and what of it is on the bus.  A signal*)
(* of the sandbox is one of the bridge's memory still to come.             *)
Held(way) ==
    \/ way = "context" /\ (shock \/ "context" \in lean)
    \/ way = "memory" /\ memory

Carries(e, way) ==
    \/ e.topic \in {"meta.quant.directive", "ai.signal", "order.intent"} /\ way \in e.by
    \/ way = "memory" /\ e.topic = "ai.signal" /\ e.at = "SIMULATION"

Crosses(way) == Held(way) \/ \E k \in DOMAIN queue : Carries(queue[k], way)

LEMMA PopCarries ==
    ASSUME IInv, NEW way \in Ways, queue # <<>>, ~Crosses(way), queue' = Pop
    PROVE  \A k \in DOMAIN queue' : ~Carries(queue'[k], way)
<1>1. queue \in Seq(Events)
    BY DEF IInv, TypeOK
<1>2. \A k \in DOMAIN Pop : k + 1 \in DOMAIN queue /\ Pop[k] = queue[k + 1]
    BY <1>1 DEF Pop
<1>3. \A k \in DOMAIN queue : ~Carries(queue[k], way)
    BY DEF Crosses
<1> HIDE DEF Pop
<1> QED
    BY <1>2, <1>3

LEMMA AppendCarries ==
    ASSUME NEW q \in Seq(Events), NEW e \in Events, NEW way \in Ways,
           ~Carries(e, way), \A k \in DOMAIN q : ~Carries(q[k], way)
    PROVE  \A k \in DOMAIN Append(q, e) : ~Carries(Append(q, e)[k], way)
<1> SUFFICES ASSUME NEW k \in DOMAIN Append(q, e) PROVE ~Carries(Append(q, e)[k], way)
    OBVIOUS
<1>1. CASE k = Len(q) + 1
    BY <1>1
<1>2. CASE k # Len(q) + 1
    <2>1. k \in DOMAIN q /\ Append(q, e)[k] = q[k]
        BY <1>2
    <2> QED
        BY <2>1
<1> QED
    BY <1>1, <1>2

(* In REALITY nothing of a way comes up that is not there.                 *)
LEMMA StaysOut ==
    ASSUME IInv, [Next]_vars, NEW way \in Ways, mode = "REALITY", ~Crosses(way)
    PROVE  ~Crosses(way)'
<1> DEFINE Bare(q) == \A k \in DOMAIN q : ~Carries(q[k], way)
<1>1. Bare(queue) /\ ~Held(way) /\ queue \in Seq(Events) /\ lean \subseteq {"context"}
    BY DEF Crosses, IInv, TypeOK
<1>2. Held(way)' <=> \/ way = "context" /\ (shock' \/ "context" \in lean')
                     \/ way = "memory" /\ memory'
    BY DEF Held
<1>3. ASSUME Bare(queue'), ~Held(way)' PROVE ~Crosses(way)'
    BY <1>3 DEF Crosses
<1>4. ASSUME NEW e \in Events, queue' = Append(queue, e), ~Carries(e, way) PROVE Bare(queue')
    BY <1>1, <1>4, AppendCarries
<1>5. ASSUME queue # <<>>, queue' = Pop PROVE Bare(queue')
    BY <1>5, PopCarries
<1> HIDE DEF Bare
<1>6. CASE SwitchMode \/ ResetSimulation \/ PauseOrResume \/ UNCHANGED vars
    <2>1. UNCHANGED <<shock, lean, memory, queue>>
        BY <1>6 DEF SwitchMode, ResetSimulation, PauseOrResume, vars
    <2> QED
        BY <1>1, <1>3, <2>1 DEF Held
<1>7. CASE WorldShocks
    <2>1. Impact \in Events /\ ~Carries(Impact, way)
        BY EventType DEF Impact, Carries
    <2> QED
        BY <1>1, <1>3, <1>4, <1>7, <2>1 DEF WorldShocks, Held
<1>8. CASE EmitDirectives
    <2> DEFINE d == Directive(mode, IF shock THEN {"context"} ELSE {})
    <2>1. d \in Events
        BY EventType DEF IInv, TypeOK, Ways
    <2>2. ~Carries(d, way)
        BY <1>1 DEF Directive, Carries, Held
    <2>3. Bare(queue')
        BY <1>4, <1>8, <2>1, <2>2 DEF EmitDirectives
    <2> QED
        BY <1>1, <1>3, <1>8, <2>3 DEF EmitDirectives, Held
<1>9. CASE Infer
    <2> DEFINE by == lean \cup (IF Coupled THEN {"latch"} ELSE {})
               s == Signal(mode, Coupled, by)
    <2>1. by = lean
        BY DEF Coupled
    <2>2. Coupled \in BOOLEAN /\ mode \in ModeNames /\ by \in SUBSET Ways
        BY <1>1, <2>1 DEF Coupled, ModeNames, Ways
    <2>3. s \in Events
        BY <2>2, EventType
    <2> HIDE DEF by
    <2>4. ~Carries(s, way)
        BY <1>1, <2>1 DEF Signal, Carries, Held, Ways
    <2>5. Bare(queue')
        BY <1>4, <1>9, <2>3, <2>4 DEF Infer, by
    <2> QED
        BY <1>1, <1>3, <1>9, <2>5 DEF Infer, Held
<1>10. CASE Dispatch
    <2>1. queue # <<>>
        BY <1>10 DEF Dispatch, OnImpact, OnDirective, SignalIgnored, SignalAdmitted,
                     IntentStopped, IntentTraded, Serves
    <2>2. First \in Events /\ ~Carries(First, way)
        <3>1. 1 \in DOMAIN queue /\ First = queue[1]
            BY <1>1, <2>1 DEF First
        <3> QED
            BY <1>1, <2>1, <3>1, PopClean DEF Bare
    <2>3. CASE OnImpact \/ SignalIgnored \/ IntentStopped \/ IntentTraded
        BY <1>1, <1>3, <1>5, <2>1, <2>3
           DEF OnImpact, SignalIgnored, IntentStopped, IntentTraded, Held
    <2>4. CASE OnDirective
        <3>1. First.topic = "meta.quant.directive" /\ lean' = First.by
              /\ queue' = Pop /\ UNCHANGED <<shock, memory>>
            BY <2>4 DEF OnDirective, Serves
        <3> QED
            BY <1>1, <1>3, <1>5, <2>1, <2>2, <3>1 DEF Carries, Held
    <2>5. CASE SignalAdmitted
        <3> DEFINE i == Intent(First.by \cup (IF memory THEN {"memory"} ELSE {}))
        <3>1. PICK m \in ModeNames, c \in BOOLEAN, by \in SUBSET Ways : First = Signal(m, c, by)
            BY <2>2, <2>5, Topics DEF SignalAdmitted, Serves
        <3>2. First.topic = "ai.signal" /\ First.at = m /\ First.by = by
            BY <3>1 DEF Signal
        <3>3. way \notin by /\ ~(way = "memory" /\ m = "SIMULATION")
            BY <2>2, <3>2 DEF Carries
        <3>4. i \in Events
            BY <3>2, EventType DEF Ways
        <3>5. ~Carries(i, way)
            BY <1>1, <3>2, <3>3 DEF Intent, Carries, Held
        <3>6. Bare(queue')
            <4>1. queue' = Append(Pop, i)
                BY <2>5 DEF SignalAdmitted
            <4>2. Pop \in Seq(Events) /\ \A k \in DOMAIN Pop : ~Carries(Pop[k], way)
                <5>1. \A k \in DOMAIN Pop : k + 1 \in DOMAIN queue /\ Pop[k] = queue[k + 1]
                    BY <1>1 DEF Pop
                <5> QED
                    BY <1>1, <2>1, <5>1, PopClean DEF Bare
            <4> HIDE DEF i
            <4> QED
                BY <3>4, <3>5, <4>1, <4>2, AppendCarries DEF Bare
        <3>7. ~Held(way)'
            BY <1>1, <2>5, <3>2, <3>3 DEF SignalAdmitted, Held
        <3> QED
            BY <1>3, <3>6, <3>7
    <2> QED
        BY <1>10, <2>3, <2>4, <2>5 DEF Dispatch
<1> QED
    BY <1>6, <1>7, <1>8, <1>9, <1>10 DEF Next

(* Once a way of the sandbox is out of the bus and of the components that  *)
(* hold it, REALITY does not bring it back: shocks that arrive then, new   *)
(* directives, inferences, resets and pauses included (mode.py:10-12).     *)
THEOREM RealityStaysClean ==
    ASSUME NEW way \in Ways
    PROVE  Spec => [][mode = "REALITY" /\ ~Crosses(way) => ~Crosses(way)']_vars
<1>1. IInv /\ [Next]_vars => [mode = "REALITY" /\ ~Crosses(way) => ~Crosses(way)']_vars
    BY StaysOut
<1> QED
    BY <1>1, InitIInv, StepIInv, PTL DEF Spec

LEMMA SwitchMoves == IInv /\ SwitchMode => vars' # vars
BY DEF SwitchMode, vars

(* An order of REALITY has not been biased through a way, and none will be *)
(* as long as the mode stays what it is.                                   *)
Out(way) == way \notin traded /\ (mode = "REALITY" => ~Crosses(way))

LEMMA NextOut ==
    ASSUME IInv, [Next]_vars, NEW way \in Ways, Out(way),
           SwitchMode /\ mode' = "REALITY" => ~Crosses(way)
    PROVE  Out(way)'
<1>0. way \notin traded /\ (mode = "REALITY" => ~Crosses(way))
    BY DEF Out
<1>1. mode' = "REALITY" => ~Crosses(way)'
    <2> SUFFICES ASSUME mode' = "REALITY" PROVE ~Crosses(way)'
        OBVIOUS
    <2>1. CASE mode = "REALITY"
        BY <1>0, <2>1, StaysOut
    <2>2. CASE mode # "REALITY"
        <3>1. SwitchMode
            BY <2>2 DEF Next, WorldShocks, EmitDirectives, Infer, ResetSimulation,
                        PauseOrResume, Dispatch, OnImpact, OnDirective, SignalIgnored,
                        SignalAdmitted, IntentStopped, IntentTraded, vars
        <3>2. ~Crosses(way)
            BY <3>1
        <3>3. UNCHANGED <<shock, lean, memory, queue>>
            BY <3>1 DEF SwitchMode
        <3> QED
            BY <3>2, <3>3 DEF Crosses, Held
    <2> QED
        BY <2>1, <2>2
<1>2. way \notin traded'
    <2>1. CASE IntentTraded
        <3>1. mode = "REALITY" /\ queue # <<>> /\ First.topic = "order.intent"
              /\ traded' = traded \cup First.by
            BY <2>1 DEF IntentTraded, Serves
        <3>2. 1 \in DOMAIN queue /\ First = queue[1]
            BY <3>1 DEF IInv, TypeOK, First
        <3>3. way \notin First.by
            BY <1>0, <3>1, <3>2 DEF Crosses, Carries
        <3> QED
            BY <1>0, <3>1, <3>3
    <2>2. CASE traded' = traded
        BY <1>0, <2>2
    <2> QED
        BY <2>1, <2>2 DEF Next, SwitchMode, WorldShocks, EmitDirectives, Infer,
                          ResetSimulation, PauseOrResume, Dispatch, OnImpact, OnDirective,
                          SignalIgnored, SignalAdmitted, IntentStopped, vars
<1> QED
    BY <1>1, <1>2 DEF Out

(* Each way by which orders of REALITY can carry the sandbox is opened by  *)
(* the switch alone, and has its own cure: an order is biased through it   *)
(* only if at some switch to REALITY it was held by its component or on the*)
(* bus.  For the Predictor's latch that is the bus only.                   *)
THEOREM OnlyTheSwitchCouples ==
    ASSUME NEW way \in Ways
    PROVE  Spec /\ [][SwitchMode /\ mode' = "REALITY" => ~Crosses(way)]_vars
               => [](way \notin traded)
<1>1. Init => Out(way)
    BY DEF Init, Out, Crosses, Held
<1>2. IInv /\ Out(way) /\ [Next]_vars
         /\ [SwitchMode /\ mode' = "REALITY" => ~Crosses(way)]_vars => Out(way)'
    BY NextOut, SwitchMoves
<1>3. Out(way) => way \notin traded
    BY DEF Out
<1> QED
    BY <1>1, <1>2, <1>3, InitIInv, StepIInv, PTL DEF Spec

(* event_bus.py:16-17 holds, so far as orders go, of a switch to REALITY   *)
(* that finds nothing of the sandbox held or on the bus.                   *)
THEOREM DrainedSwitchIsolates ==
    Spec /\ [][SwitchMode /\ mode' = "REALITY" => \A way \in Ways : ~Crosses(way)]_vars
        => []OrdersOfRealityAreUncoupled
<1> DEFINE AllOut == \A way \in Ways : Out(way)
<1>1. Init => AllOut
    BY DEF Init, Out, Crosses, Held
<1>2. IInv /\ AllOut /\ [Next]_vars
         /\ [SwitchMode /\ mode' = "REALITY" => \A way \in Ways : ~Crosses(way)]_vars
         => AllOut'
    BY NextOut, SwitchMoves
<1>3. IInv /\ AllOut => OrdersOfRealityAreUncoupled
    BY DEF IInv, TypeOK, Out, OrdersOfRealityAreUncoupled
<1> HIDE DEF AllOut
<1> QED
    BY <1>1, <1>2, <1>3, InitIInv, StepIInv, PTL DEF Spec
=============================================================================

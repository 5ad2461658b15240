-------------------------- MODULE OrderFlowProofs --------------------------
(* Machine-checked facts about the order flow, for every set of signals,   *)
(* every bound and every cooldown.                                         *)
EXTENDS OrderFlow, TLAPS

(* What SMT needs to know of the records on the bus.                       *)
LEMMA EventType ==
    /\ \A s \in Signals : Signal(s) \in Events
    /\ \A m \in Modes : Status(m) \in Events
    /\ \A w \in {-1, 1}, r \in BOOLEAN, m \in Modes \ {"FROZEN"} : Intent(w, r, m) \in Events
BY DEF Events

(* An event is what its topic says.                                        *)
LEMMA Topics ==
    ASSUME NEW e \in Events
    PROVE  /\ e.topic = "ai.signal" => \E s \in Signals : e = Signal(s)
           /\ e.topic = "sentinel.status" => \E m \in Modes : e = Status(m)
           /\ e.topic = "order.intent" =>
                 \E w \in {-1, 1}, r \in BOOLEAN, m \in Modes \ {"FROZEN"} : e = Intent(w, r, m)
BY DEF Events, Signal, Status, Intent

(* Taking the oldest event off the bus.                                    *)
LEMMA PopType ==
    ASSUME queue \in Seq(Events), Len(queue) <= MaxQueue, queue # <<>>
    PROVE  /\ First \in Events
           /\ Pop \in Seq(Events)
           /\ Len(Pop) = Len(queue) - 1
           /\ Len(Pop) <= MaxQueue /\ Len(Pop) + 1 <= MaxQueue
           /\ \A k \in DOMAIN Pop : k + 1 \in DOMAIN queue /\ Pop[k] = queue[k + 1]
BY OrderFlowAssumption DEF OrderFlowAssumption, First, Pop

(* The sides of an order, as the venue sees them.                          *)
LEMMA ClosingSide ==
    ASSUME NEW w \in {-1, 1}, Derivatives
    PROVE  ReduceOnly(Side(w, TRUE))
BY DEF ReduceOnly, Side

LEMMA SignType == ASSUME NEW side PROVE Sign(side) \in {-1, 1}
BY DEF Sign

(* A reduce-only order leaves a part of the position.                      *)
LEMMA ReduceOnlyWithin ==
    ASSUME NEW side, NEW n \in Nat, venue \in Int, ReduceOnly(side)
    PROVE  Within(After(side, n), venue)
<1>1. CASE Sign(side) = 1
    BY <1>1 DEF After, Within
<1>2. CASE Sign(side) = -1
    BY <1>2 DEF After, Within
<1> QED
    BY <1>1, <1>2, SignType

-----------------------------------------------------------------------------
(* Every order that REDUCE_ONLY let pass still carries the flag.           *)
Flagged ==
    \A k \in DOMAIN queue :
        queue[k].topic = "order.intent" /\ queue[k].under = "REDUCE_ONLY" => queue[k].reduce

IInv == TypeOK /\ Flagged

(* Appending an event that needs no flag, or has it.                       *)
LEMMA AppendFlagged ==
    ASSUME NEW q \in Seq(Events), NEW e \in Events,
           \A k \in DOMAIN q : q[k].topic = "order.intent" /\ q[k].under = "REDUCE_ONLY"
                               => q[k].reduce,
           e.topic = "order.intent" /\ e.under = "REDUCE_ONLY" => e.reduce
    PROVE  \A k \in DOMAIN Append(q, e) :
               Append(q, e)[k].topic = "order.intent" /\ Append(q, e)[k].under = "REDUCE_ONLY"
               => Append(q, e)[k].reduce
<1> TAKE k \in DOMAIN Append(q, e)
<1>1. CASE k = Len(q) + 1
    BY <1>1
<1>2. CASE k # Len(q) + 1
    <2>1. k \in DOMAIN q /\ Append(q, e)[k] = q[k]
        BY <1>2
    <2> QED
        BY <2>1
<1> QED
    BY <1>1, <1>2

LEMMA PopFlagged ==
    ASSUME IInv, queue # <<>>
    PROVE  \A k \in DOMAIN Pop :
               Pop[k].topic = "order.intent" /\ Pop[k].under = "REDUCE_ONLY" => Pop[k].reduce
BY PopType DEF IInv, TypeOK, Flagged

-----------------------------------------------------------------------------
LEMMA InitIInv == Init => IInv
<1> SUFFICES ASSUME Init PROVE IInv
    OBVIOUS
<1>1. queue \in Seq(Events) /\ Len(queue) = 0 /\ DOMAIN queue = {}
    BY DEF Init
<1>2. TypeOK
    <2>1. gov \in Modes /\ seen \in Modes /\ rearmed \in BOOLEAN
        BY DEF Init, Modes
    <2>2. hold \in 0 .. Cooldown /\ Len(queue) <= MaxQueue
        BY <1>1, OrderFlowAssumption DEF OrderFlowAssumption, Init
    <2>3. /\ target \in -MaxExposure .. MaxExposure
          /\ venue \in -MaxPosition .. MaxPosition
        BY OrderFlowAssumption DEF OrderFlowAssumption, Init
    <2> QED
        BY <1>1, <2>1, <2>2, <2>3 DEF TypeOK
<1>3. Flagged
    BY <1>1 DEF Flagged
<1> QED
    BY <1>2, <1>3 DEF IInv

LEMMA StepIInv == IInv /\ [Next]_vars => IInv'
<1> SUFFICES ASSUME IInv, [Next]_vars PROVE IInv'
    OBVIOUS
<1> USE OrderFlowAssumption DEF OrderFlowAssumption
<1>1. CASE GovernorMoves
    BY <1>1 DEF GovernorMoves, IInv, TypeOK, Flagged
<1>2. CASE PublishStatus
    <2>1. Status(gov) \in Events /\ Status(gov).topic # "order.intent"
        BY EventType DEF IInv, TypeOK, Status
    <2>2. queue' \in Seq(Events) /\ Len(queue') <= MaxQueue
        BY <1>2, <2>1 DEF PublishStatus, IInv, TypeOK
    <2>3. Flagged'
        BY <1>2, <2>1, AppendFlagged DEF PublishStatus, IInv, TypeOK, Flagged
    <2> QED
        BY <1>2, <2>2, <2>3 DEF PublishStatus, IInv, TypeOK, sentinel
<1>3. CASE Infer
    <2>1. PICK s \in Signals : queue' = Append(queue, Signal(s))
        BY <1>3 DEF Infer
    <2>2. Signal(s) \in Events /\ Signal(s).topic # "order.intent"
        BY EventType DEF Signal
    <2>3. queue' \in Seq(Events) /\ Len(queue') <= MaxQueue
        BY <1>3, <2>1, <2>2 DEF Infer, IInv, TypeOK
    <2>4. Flagged'
        BY <2>1, <2>2, AppendFlagged DEF IInv, TypeOK, Flagged
    <2> QED
        BY <1>3, <2>3, <2>4 DEF Infer, IInv, TypeOK, sentinel
<1>4. CASE Dispatch
    <2>1. queue # <<>>
        BY <1>4 DEF Dispatch, OnSentinel, SignalDropped, SignalAdmitted, OrderStopped,
                    OrderExecuted, Serves
    <2>2. First \in Events /\ Pop \in Seq(Events) /\ Len(Pop) <= MaxQueue /\ Len(Pop) + 1 <= MaxQueue
        BY <2>1, PopType DEF IInv, TypeOK
    <2>3. ASSUME queue' = Pop PROVE (queue \in Seq(Events) /\ Len(queue) <= MaxQueue /\ Flagged)'
        BY <2>1, <2>2, <2>3, PopFlagged DEF Flagged
    <2>4. CASE OnSentinel
        <3>1. PICK m \in Modes : First = Status(m)
            BY <2>4, <2>2, Topics DEF OnSentinel, Serves
        <3>2. seen' \in Modes
            BY <2>4, <3>1 DEF OnSentinel, Status
        <3> QED
            BY <2>4, <2>3, <3>2 DEF OnSentinel, IInv, TypeOK, sentinel
    <2>5. CASE SignalDropped
        BY <2>5, <2>3 DEF SignalDropped, IInv, TypeOK, sentinel
    <2>6. CASE SignalAdmitted
        <3>1. PICK s \in Signals : First = Signal(s)
            BY <2>6, <2>2, Topics DEF SignalAdmitted, Serves
        <3>2. First.signal = s
            BY <3>1 DEF Signal
        <3>3. /\ s.target \in -MaxExposure .. MaxExposure
              /\ s.way \in {-1, 0, 1}
            BY DEF AllSignals, Ways
        <3>4. target' \in -MaxExposure .. MaxExposure
            BY <2>6, <3>2, <3>3 DEF SignalAdmitted, NewTarget
        <3>5. CASE s.way = 0
            BY <2>6, <2>3, <3>2, <3>4, <3>5 DEF SignalAdmitted, HasLeg, IInv, TypeOK, sentinel
        <3>6. CASE s.way # 0
            <4> DEFINE i == Intent(s.way, Reducing(s), seen)
            <4>1. queue' = Append(Pop, i)
                BY <2>6, <3>2, <3>6 DEF SignalAdmitted, HasLeg
            <4>2. /\ seen \in Modes \ {"FROZEN"}
                  /\ Reducing(s) \in BOOLEAN
                  /\ seen = "REDUCE_ONLY" => Reducing(s)
                BY <2>6, <3>2 DEF SignalAdmitted, Vetoed, Reducing, IInv, TypeOK
            <4>3. i \in Events
                BY <3>3, <3>6, <4>2, EventType
            <4>4. i.under = "REDUCE_ONLY" => i.reduce
                BY <4>2, Zenon DEF Intent
            <4>5. queue' \in Seq(Events) /\ Len(queue') <= MaxQueue
                BY <2>2, <4>1, <4>3
            <4>6. Flagged'
                BY <2>1, <2>2, <4>1, <4>3, <4>4, PopFlagged, AppendFlagged DEF Flagged
            <4> QED
                BY <2>6, <3>4, <4>5, <4>6 DEF SignalAdmitted, IInv, TypeOK, sentinel
        <3> QED
            BY <3>5, <3>6
    <2>7. CASE OrderStopped
        BY <2>7, <2>3 DEF OrderStopped, IInv, TypeOK, sentinel
    <2>8. CASE OrderExecuted
        BY <2>8, <2>3 DEF OrderExecuted, IInv, TypeOK, sentinel
    <2> QED
        BY <1>4, <2>4, <2>5, <2>6, <2>7, <2>8 DEF Dispatch
<1>5. CASE UNCHANGED vars
    BY <1>5 DEF vars, IInv, TypeOK, Flagged
<1> QED
    BY <1>1, <1>2, <1>3, <1>4, <1>5 DEF Next

(* TypeOK holds for every value of the constants: the targets of the       *)
(* bridge stay in their range and the bus carries well-formed events.      *)
THEOREM TypeCorrect == Spec => []TypeOK
<1>1. IInv => TypeOK
    BY DEF IInv
<1> QED
    BY <1>1, InitIInv, StepIInv, PTL DEF Spec

(* A step that serves an order of REDUCE_ONLY leaves a part of the         *)
(* position.                                                               *)
LEMMA StepWithin ==
    ASSUME Derivatives, IInv, [Next]_vars
    PROVE  Serves("order.intent") /\ First.under = "REDUCE_ONLY" => Within(venue', venue)
<1> SUFFICES ASSUME Serves("order.intent"), First.under = "REDUCE_ONLY"
             PROVE  Within(venue', venue)
    OBVIOUS
<1> USE OrderFlowAssumption DEF OrderFlowAssumption
<1>1. venue \in Int
    BY DEF IInv, TypeOK
<1>2. CASE OrderExecuted
    <2>1. PICK w \in {-1, 1}, r \in BOOLEAN, m \in Modes \ {"FROZEN"} : First = Intent(w, r, m)
        BY PopType, Topics DEF Serves, IInv, TypeOK
    <2>2. First.reduce
        <3>1. 1 \in DOMAIN queue /\ First = queue[1]
            BY DEF Serves, First, IInv, TypeOK
        <3> QED
            BY <3>1 DEF IInv, Flagged, Serves
    <2>3. First.way = w /\ First.reduce = r
        BY <2>1 DEF Intent
    <2>4. First.reduce = TRUE
        BY <2>2, <2>3
    <2>5. ReduceOnly(Side(First.way, First.reduce))
        BY <2>3, <2>4, ClosingSide
    <2>6. PICK n \in 1 .. 2 * MaxPosition : venue' = After(Side(First.way, First.reduce), n)
        BY <1>2 DEF OrderExecuted
    <2> QED
        BY <1>1, <2>5, <2>6, ReduceOnlyWithin
<1>3. CASE venue' = venue
    BY <1>1, <1>3 DEF Within
<1>4. OrderExecuted \/ venue' = venue
    BY DEF Next, Dispatch, GovernorMoves, PublishStatus, Infer, OnSentinel, SignalDropped,
           SignalAdmitted, OrderStopped, vars
<1> QED
    BY <1>2, <1>3, <1>4

(* On a futures account an order that the bridge let pass in REDUCE_ONLY   *)
(* never enlarges or turns the position, for any signals, bounds, refusals *)
(* and delays.                                                             *)
THEOREM ReduceOnlyKept == ASSUME Derivatives PROVE Spec => ReduceOnlyHolds
<1>1. IInv /\ [Next]_vars =>
          [Serves("order.intent") /\ First.under = "REDUCE_ONLY" => Within(venue', venue)]_vars
    BY StepWithin
<1> QED
    BY <1>1, InitIInv, StepIInv, PTL DEF Spec, ReduceOnlyHolds

-----------------------------------------------------------------------------
(* The bridge knows of the freeze, and no older status is on its way.      *)
Heard ==
    /\ seen = "FROZEN"
    /\ \A k \in DOMAIN queue : queue[k].topic = "sentinel.status" => queue[k].mode = "FROZEN"

(* While the Sentinel is frozen and the bridge has heard of it, the bridge *)
(* does not forget, and no order joins the bus: it only drains.            *)
FreezeSettles ==
    gov = "FROZEN" /\ Heard =>
        /\ Heard'
        /\ target' = target
        /\ \/ queue' = queue
           \/ queue # <<>> /\ queue' = Pop
           \/ \E e \in Events : e.topic # "order.intent" /\ queue' = Append(queue, e)

LEMMA AppendHeard ==
    ASSUME IInv, Heard, NEW e \in Events, queue' = Append(queue, e), seen' = seen,
           e.topic = "sentinel.status" => e.mode = "FROZEN"
    PROVE  Heard'
<1>1. ASSUME NEW k \in DOMAIN queue', queue'[k].topic = "sentinel.status"
      PROVE  queue'[k].mode = "FROZEN"
    <2>1. CASE k = Len(queue) + 1
        BY <1>1, <2>1 DEF IInv, TypeOK
    <2>2. CASE k # Len(queue) + 1
        <3>1. k \in DOMAIN queue /\ queue'[k] = queue[k]
            BY <1>1, <2>2 DEF IInv, TypeOK
        <3> QED
            BY <1>1, <3>1 DEF Heard
    <2> QED
        BY <2>1, <2>2
<1> QED
    BY <1>1 DEF Heard

LEMMA StepSettles == IInv /\ [Next]_vars => FreezeSettles
<1> SUFFICES ASSUME IInv, [Next]_vars, gov = "FROZEN", Heard
             PROVE  /\ Heard'
                    /\ target' = target
                    /\ \/ queue' = queue
                       \/ queue # <<>> /\ queue' = Pop
                       \/ \E e \in Events : e.topic # "order.intent" /\ queue' = Append(queue, e)
    BY DEF FreezeSettles
<1>1. CASE GovernorMoves \/ UNCHANGED vars
    BY <1>1 DEF GovernorMoves, vars, Heard
<1>2. CASE PublishStatus
    <2>1. Status(gov) \in Events
        BY EventType DEF IInv, TypeOK
    <2>2. Status(gov).topic = "sentinel.status" /\ Status(gov).mode = "FROZEN"
        BY DEF Status
    <2>3. queue' = Append(queue, Status(gov)) /\ seen' = seen /\ target' = target
        BY <1>2 DEF PublishStatus
    <2> QED
        BY <2>1, <2>2, <2>3, AppendHeard
<1>3. CASE Infer
    <2>1. PICK s \in Signals : queue' = Append(queue, Signal(s))
        BY <1>3 DEF Infer
    <2>2. Signal(s) \in Events /\ Signal(s).topic = "ai.signal"
        BY EventType DEF Signal
    <2>3. seen' = seen /\ target' = target
        BY <1>3 DEF Infer
    <2> QED
        BY <2>1, <2>2, <2>3, AppendHeard
<1>4. CASE Dispatch
    <2>1. ~SignalAdmitted
        BY DEF SignalAdmitted, Vetoed, Heard
    <2>2. /\ queue # <<>> /\ queue' = Pop /\ target' = target
          /\ seen' = seen \/ (First.topic = "sentinel.status" /\ seen' = First.mode)
        BY <1>4, <2>1 DEF Dispatch, OnSentinel, SignalDropped, OrderStopped, OrderExecuted, Serves
    <2>3. 1 \in DOMAIN queue /\ First = queue[1]
        BY <2>2 DEF First, IInv, TypeOK
    <2>4. seen' = "FROZEN"
        BY <2>2, <2>3 DEF Heard
    <2>5. \A k \in DOMAIN Pop : k + 1 \in DOMAIN queue /\ Pop[k] = queue[k + 1]
        BY <2>2, PopType DEF IInv, TypeOK
    <2>6. Heard'
        BY <2>2, <2>4, <2>5 DEF Heard
    <2> QED
        BY <2>2, <2>6
<1> QED
    BY <1>1, <1>2, <1>3, <1>4 DEF Next

(* The safety half of FreezeTakesHold: once the bridge has heard of a      *)
(* freeze, the orders on the bus are the last ones.                        *)
THEOREM FreezeHasSettled == Spec => [][FreezeSettles]_vars
BY InitIInv, StepIInv, StepSettles, PTL DEF Spec
=============================================================================

------------------------- MODULE WorldRuntimeProofs -------------------------
(* Proofs about WorldRuntime: for every set of edits, every speed and any  *)
(* number of resets, ticks and deliberations under way, the two models of  *)
(* the World stay in step and no stance crosses a reset.                   *)
EXTENDS WorldRuntime, TLAPS

(* Nobody writes to another world's broker, live or left behind.           *)
StancesOwn == \A w \in Worlds : stance[w] # NoStance => stance[w].about = w

(* The last tick on the bus is the clock's, if it is of today's world; no  *)
(* tick comes from a world that is not there yet.                          *)
LastTick ==
    \A k \in DOMAIN ticks :
        /\ ticks[k].world <= world
        /\ k = Len(ticks) /\ ticks[k].world = world => ticks[k].day = clock

IInv ==
    /\ TypeOK
    /\ InStep
    /\ HistoryIsOrdered
    /\ StancesOwn
    /\ LastTick
    /\ KernelKeepsDay

NodeType == [day : 0 .. MaxDay, trigger : SUBSET Shared]

-----------------------------------------------------------------------------
LEMMA DayBound == ASSUME NEW n \in Nat PROVE AtMost(n) \in 0 .. MaxDay
BY WorldAssumption DEF AtMost

(* A stance that grows older is a stance, about the same world.            *)
LEMMA AgedStance ==
    ASSUME NEW s \in Stances
    PROVE  /\ Aged(s) \in Stances
           /\ Aged(s) # NoStance => Aged(s).about = s.about /\ s # NoStance
<1>1. CASE s = NoStance
    BY <1>1 DEF NoStance, Aged, Stances
<1>2. CASE s \in [about : Worlds, left : 0 .. Ttl + 1] /\ s.left > 0
    <2>1. s.left - 1 \in 0 .. Ttl + 1 /\ s.about \in Worlds
        BY <1>2, WorldAssumption
    <2>2. Aged(s) = [about |-> s.about, left |-> s.left - 1]
        BY <1>2 DEF Aged
    <2>3. s # NoStance
        BY <1>2, WorldAssumption DEF NoStance
    <2> QED BY <2>1, <2>2, <2>3 DEF Stances
<1>3. CASE s \in [about : Worlds, left : 0 .. Ttl + 1] /\ ~(s.left > 0)
    BY <1>3 DEF Aged, Stances
<1> QED BY <1>1, <1>2, <1>3 DEF Stances

LEMMA GenesisFacts ==
    /\ Genesis \in Seq(NodeType) /\ Len(Genesis) = 1
    /\ DOMAIN Genesis = {1} /\ Genesis # <<>>
    /\ Genesis[1] = Node(0, {}) /\ Node(0, {}).day = 0 /\ Node(0, {}).trigger = {}
<1>1. Node(0, {}) \in NodeType
    BY WorldAssumption DEF Node, NodeType
<1> QED BY <1>1 DEF Genesis, Node

(* With the chronology back at genesis and nothing known or queued the two *)
(* models are in step again.                                               *)
LEMMA FreshFacts ==
    ASSUME history' = Genesis, pending' = {}, known' = {}, clock' = 0
    PROVE  /\ history' \in Seq(NodeType)
           /\ InStep' /\ HistoryIsOrdered'
<1>1. DOMAIN history' = {1} /\ history'[1] = Node(0, {}) /\ history' # <<>>
    BY GenesisFacts
<1>2. \A e \in Shared : Forked(e)' = {}
    BY <1>1, GenesisFacts DEF Forked
<1>3. InStep'
    BY <1>2 DEF InStep
<1>4. HistoryIsOrdered'
    BY <1>1, GenesisFacts DEF HistoryIsOrdered
<1> QED BY <1>3, <1>4, GenesisFacts

LEMMA InitInv == Init => IInv
<1> SUFFICES ASSUME Init PROVE IInv
    OBVIOUS
<1>1. DOMAIN history = {1} /\ history[1] = Node(0, {}) /\ history # <<>>
      /\ history \in Seq(NodeType)
    BY GenesisFacts DEF Init
<1>2. TypeOK
    BY <1>1, WorldAssumption DEF Init, TypeOK, Worlds, Stances, NodeType
<1>3. InStep
    <2>1. \A e \in Shared : Forked(e) = {}
        BY <1>1, GenesisFacts DEF Forked
    <2> QED BY <2>1 DEF InStep, Init
<1>4. HistoryIsOrdered
    BY <1>1, GenesisFacts DEF HistoryIsOrdered, Init
<1>5. StancesOwn /\ KernelKeepsDay
    BY DEF Init, StancesOwn, KernelKeepsDay
<1>6. LastTick
    BY DEF Init, LastTick
<1> QED BY <1>2, <1>3, <1>4, <1>5, <1>6 DEF IInv

-----------------------------------------------------------------------------
(* The days of the chronology are days of the clock's range.              *)
LEMMA NodeDays ==
    ASSUME history \in Seq(NodeType), NEW i \in DOMAIN history
    PROVE  history[i].day \in 0 .. MaxDay
<1>1. history[i] \in NodeType
    OBVIOUS
<1> QED BY <1>1 DEF NodeType

(* The tick's fork moves the waiting edits into one new node.              *)
LEMMA ForkInv ==
    ASSUME IInv, NEW day \in 0 .. MaxDay, clock <= day, clock < day \/ day = MaxDay,
           Fork(day), clock' = day, UNCHANGED known
    PROVE  /\ history' \in Seq(NodeType) /\ pending' = {}
           /\ InStep' /\ HistoryIsOrdered'
<1>1. /\ history \in Seq(NodeType) /\ pending \in SUBSET Shared
      /\ clock \in 0 .. MaxDay /\ pending' = {}
      /\ InStep /\ HistoryIsOrdered
    BY DEF IInv, TypeOK, NodeType, Fork
<1>2. CASE pending = {}
    <2>1. history' = history
        BY <1>2 DEF Fork
    <2>2. InStep'
        BY <1>1, <1>2, <2>1 DEF InStep, Forked
    <2>3. HistoryIsOrdered'
        <3>1. \A i \in DOMAIN history : history[i].day \in 0 .. MaxDay
            BY <1>1, NodeDays
        <3> QED BY <1>1, <2>1, <3>1, WorldAssumption DEF HistoryIsOrdered
    <2> QED BY <1>1, <2>1, <2>2, <2>3
<1>3. CASE pending # {}
    <2> DEFINE node == Node(day, pending)
               n == Len(history) + 1
    <2>1. node \in NodeType /\ node.day = day /\ node.trigger = pending
        BY <1>1 DEF Node, NodeType
    <2>2. history' = Append(history, node)
        BY <1>3 DEF Fork
    <2> HIDE DEF node
    <2>3. /\ history' \in Seq(NodeType)
          /\ DOMAIN history' = DOMAIN history \cup {n} /\ n \notin DOMAIN history
          /\ history'[n] = node
          /\ \A k \in DOMAIN history : history'[k] = history[k]
          /\ \A k \in DOMAIN history : k < n
          /\ n \in Nat
        BY <1>1, <2>1, <2>2
    <2> HIDE DEF n
    <2>4. \A e \in Shared : Forked(e)' = IF e \in pending THEN Forked(e) \cup {n} ELSE Forked(e)
        BY <2>1, <2>3 DEF Forked
    <2>5. InStep'
        <3> SUFFICES ASSUME NEW e \in Shared
                     PROVE  /\ e \in known <=> Forked(e)' # {}
                            /\ \A i, j \in Forked(e)' : i = j
            BY <1>1 DEF InStep
        <3>1. /\ e \in known <=> (e \in pending \/ Forked(e) # {})
              /\ ~(e \in pending /\ Forked(e) # {})
              /\ \A i, j \in Forked(e) : i = j
            BY <1>1 DEF InStep
        <3>2. CASE e \in pending
            <4>1. Forked(e)' = {n}
                BY <2>4, <3>1, <3>2
            <4> QED BY <3>1, <3>2, <4>1
        <3>3. CASE e \notin pending
            <4>1. Forked(e)' = Forked(e)
                BY <2>4, <3>3
            <4> QED BY <3>1, <3>3, <4>1
        <3> QED BY <3>2, <3>3
    <2>6. HistoryIsOrdered'
        <3>1. /\ history # <<>> /\ history[1] = Node(0, {})
              /\ \A i, j \in DOMAIN history :
                    i < j => history[i].day < history[j].day \/ history[j].day = MaxDay
              /\ \A i \in DOMAIN history : history[i].day <= clock
              /\ \A i \in DOMAIN history : history[i].day \in 0 .. MaxDay
            BY <1>1, NodeDays DEF HistoryIsOrdered
        <3>2. 1 \in DOMAIN history
            BY <1>1, <3>1
        <3>3. history' # <<>> /\ history'[1] = Node(0, {})
            BY <2>2, <2>3, <3>1, <3>2
        <3>4. \A i \in DOMAIN history' : history'[i].day <= clock'
            BY <1>1, <2>1, <2>3, <3>1, WorldAssumption
        <3>5. ASSUME NEW i \in DOMAIN history', NEW j \in DOMAIN history', i < j
              PROVE  history'[i].day < history'[j].day \/ history'[j].day = MaxDay
            <4>1. i \in DOMAIN history
                BY <1>1, <2>3, <3>5
            <4>2. CASE j \in DOMAIN history
                BY <2>3, <3>1, <3>5, <4>1, <4>2
            <4>3. CASE j = n
                <5>1. history'[j].day = day /\ history'[i].day <= clock
                      /\ history'[i].day \in 0 .. MaxDay
                    BY <2>1, <2>3, <3>1, <4>1, <4>3
                <5> QED BY <1>1, <5>1, WorldAssumption
            <4> QED BY <2>3, <3>5, <4>2, <4>3
        <3> QED BY <3>3, <3>4, <3>5 DEF HistoryIsOrdered
    <2> QED BY <1>1, <2>3, <2>5, <2>6
<1> QED BY <1>2, <1>3

LEMMA AdvanceInv == ASSUME IInv, Advance PROVE IInv'
<1>1. PICK speed \in Speeds : clock' = AtMost(clock + speed)
    BY DEF Advance
<1>2. clock \in 0 .. MaxDay /\ speed \in Nat \ {0}
    BY WorldAssumption DEF IInv, TypeOK
<1>3. /\ clock' \in 0 .. MaxDay /\ clock <= clock'
      /\ clock < clock' \/ clock' = MaxDay
    BY <1>1, <1>2, WorldAssumption DEF AtMost
<1> DEFINE event == [day |-> clock', world |-> world]
<1>4. /\ UNCHANGED <<paused, worldOn, emitting, world, kday, known, talks, stance, astray>>
      /\ ticks' = Append(ticks, event) /\ Fork(clock')
      /\ Len(ticks) < MaxQueue
    BY DEF Advance, kernelVars
<1>5. /\ history' \in Seq(NodeType) /\ pending' = {} /\ InStep' /\ HistoryIsOrdered'
    BY <1>3, <1>4, ForkInv
<1>6. ticks \in Seq(TickEvents) /\ event \in TickEvents /\ world \in Worlds /\ world \in Int
    BY <1>3 DEF IInv, TypeOK, TickEvents, Worlds
<1>7. event.day = clock' /\ event.world = world
    OBVIOUS
<1> HIDE DEF event
<1>8. /\ ticks' \in Seq(TickEvents) /\ Len(ticks') = Len(ticks) + 1
      /\ ticks' # <<>>
      /\ DOMAIN ticks' = DOMAIN ticks \cup {Len(ticks')}
      /\ ticks'[Len(ticks')] = event
      /\ \A k \in DOMAIN ticks : ticks'[k] = ticks[k] /\ k # Len(ticks')
    BY <1>4, <1>6
<1>9. TypeOK'
    <2>1. Len(ticks') <= MaxQueue
        BY <1>4, <1>6, <1>8, WorldAssumption
    <2> QED BY <1>3, <1>4, <1>5, <1>8, <2>1 DEF IInv, TypeOK, NodeType
<1>10. StancesOwn' /\ KernelKeepsDay'
    BY <1>4, <1>8 DEF IInv, StancesOwn, KernelKeepsDay
<1>11. LastTick'
    <2>1. \A k \in DOMAIN ticks : ticks'[k].world <= world
        BY <1>8 DEF IInv, LastTick
    <2> QED BY <1>4, <1>6, <1>7, <1>8, <2>1 DEF LastTick
<1> QED BY <1>5, <1>9, <1>10, <1>11 DEF IInv

(* An edit becomes known, and is queued when the graph shares it.          *)
LEMMA EditInv == ASSUME IInv, NEW e \in Edits, Edit(e) PROVE IInv'
<1>1. /\ e \notin known /\ known' = known \cup {e}
      /\ pending' = IF e \in Shared THEN pending \cup {e} ELSE pending
      /\ UNCHANGED <<clock, paused, worldOn, ticks, emitting, world, kday, history,
                     talks, stance, astray>>
    BY DEF Edit, clockVars
<1>2. TypeOK'
    BY <1>1 DEF IInv, TypeOK
<1>3. InStep'
    <2>1. \A f \in Shared : Forked(f)' = Forked(f)
        BY <1>1 DEF Forked
    <2>2. \A f \in Shared : (f \in known' <=> f \in known \/ f = e)
                            /\ (f \in pending' <=> f \in pending \/ f = e)
        BY <1>1
    <2>3. e \in Shared => e \notin pending /\ Forked(e) = {}
        BY <1>1 DEF IInv, InStep
    <2> QED BY <2>1, <2>2, <2>3 DEF IInv, InStep
<1>4. HistoryIsOrdered' /\ StancesOwn' /\ LastTick' /\ KernelKeepsDay'
    BY <1>1 DEF IInv, HistoryIsOrdered, StancesOwn, LastTick, KernelKeepsDay
<1> QED BY <1>2, <1>3, <1>4 DEF IInv

-----------------------------------------------------------------------------
(* What taking a tick off the bus leaves of it.                            *)
LEMMA PopFacts ==
    ASSUME IInv, ticks # <<>>, ticks' = Tail(ticks), UNCHANGED <<world, clock>>
    PROVE  /\ ticks' \in Seq(TickEvents) /\ Len(ticks') <= MaxQueue
           /\ LastTick'
           /\ Head(ticks) \in TickEvents
           /\ ticks' = <<>> /\ Head(ticks).world = world => Head(ticks).day = clock
<1>1. ticks \in Seq(TickEvents) /\ Len(ticks) <= MaxQueue /\ LastTick
    BY DEF IInv, TypeOK
<1>2. /\ ticks' \in Seq(TickEvents) /\ Len(ticks') = Len(ticks) - 1
      /\ \A k \in DOMAIN ticks' : ticks'[k] = ticks[k + 1] /\ k + 1 \in DOMAIN ticks
    BY <1>1
<1>3. Head(ticks) = ticks[1] /\ 1 \in DOMAIN ticks /\ Head(ticks) \in TickEvents
    BY <1>1
<1>4. LastTick'
    <2> SUFFICES ASSUME NEW k \in DOMAIN ticks'
                 PROVE  /\ ticks'[k].world <= world
                        /\ k = Len(ticks') /\ ticks'[k].world = world => ticks'[k].day = clock
        BY DEF LastTick
    <2>1. ticks'[k] = ticks[k + 1] /\ k + 1 \in DOMAIN ticks
        BY <1>2
    <2>2. k = Len(ticks') => k + 1 = Len(ticks)
        BY <1>1, <1>2
    <2> QED BY <1>1, <2>1, <2>2 DEF LastTick
<1>5. ASSUME ticks' = <<>>, Head(ticks).world = world PROVE Head(ticks).day = clock
    <2>1. Len(ticks) = 1
        <3>1. 2 \notin DOMAIN ticks
            <4> SUFFICES ASSUME 2 \in DOMAIN ticks PROVE FALSE
                OBVIOUS
            <4>1. 1 \in DOMAIN Tail(ticks)
                BY <1>1
            <4>2. DOMAIN Tail(ticks) = {}
                BY <1>5
            <4> QED BY <4>1, <4>2
        <3>2. DOMAIN ticks = 1 .. Len(ticks) /\ Len(ticks) \in Nat
            BY <1>1
        <3> QED BY <1>3, <3>1, <3>2
    <2> QED BY <1>1, <1>3, <1>5, <2>1 DEF LastTick
<1>6. Len(ticks') <= MaxQueue
    BY <1>1, <1>2, WorldAssumption
<1> QED BY <1>2, <1>3, <1>4, <1>5, <1>6

LEMMA OnTickInv == ASSUME IInv, OnTick PROVE IInv'
<1>1. /\ ticks # <<>> /\ ticks' = Tail(ticks)
      /\ kday' = Head(ticks).day
      /\ astray' = (Head(ticks).world # world)
      /\ stance' = [stance EXCEPT ![world] = Aged(stance[world])]
      /\ emitting' \in {{}, {world}}
      /\ UNCHANGED <<clock, paused, worldOn, world, known, pending, history>>
    BY DEF OnTick, PublishedDay, clockVars, graphVars
<1>2. PICK voices \in SUBSET Starts :
         talks' = talks \cup {[by |-> v, world |-> world] : v \in voices}
    BY DEF OnTick
<1>3. TypeOK /\ world \in Worlds /\ stance \in [Worlds -> Stances]
    BY DEF IInv, TypeOK
<1>4. /\ ticks' \in Seq(TickEvents) /\ Len(ticks') <= MaxQueue
      /\ LastTick'
      /\ Head(ticks) \in TickEvents
      /\ ticks' = <<>> /\ Head(ticks).world = world => Head(ticks).day = clock
    BY <1>1, PopFacts
<1>5. /\ Aged(stance[world]) \in Stances
      /\ Aged(stance[world]) # NoStance =>
             Aged(stance[world]).about = stance[world].about /\ stance[world] # NoStance
    BY <1>3, AgedStance
<1>6. stance' \in [Worlds -> Stances]
    BY <1>1, <1>3, <1>5
<1>7. TypeOK'
    <2>1. talks' \in SUBSET [by : Voices, world : Worlds]
        BY <1>2, <1>3 DEF TypeOK, Starts
    <2>2. kday' \in 0 .. MaxDay
        BY <1>1, <1>4 DEF TickEvents
    <2>3. emitting' \in SUBSET Worlds
        BY <1>1, <1>3
    <2>4. astray' \in BOOLEAN
        BY <1>1
    <2> QED BY <1>1, <1>3, <1>4, <1>6, <2>1, <2>2, <2>3, <2>4 DEF TypeOK
<1>8. InStep' /\ HistoryIsOrdered'
    BY <1>1 DEF IInv, InStep, HistoryIsOrdered, Forked
<1>9. StancesOwn'
    <2>1. stance'[world] = Aged(stance[world]) /\ \A w \in Worlds : w # world => stance'[w] = stance[w]
        BY <1>1, <1>3
    <2> QED BY <1>3, <1>5, <2>1 DEF IInv, StancesOwn
<1>10. KernelKeepsDay'
    BY <1>1, <1>4 DEF KernelKeepsDay
<1> QED BY <1>4, <1>7, <1>8, <1>9, <1>10 DEF IInv

LEMMA SkipTickInv == ASSUME IInv, SkipTick PROVE IInv'
<1>1. /\ ticks # <<>> /\ ticks' = Tail(ticks) /\ astray'
      /\ UNCHANGED <<clock, paused, worldOn, emitting, world, kday, known,
                     pending, history, talks, stance>>
    BY DEF SkipTick, clockVars, kernelVars, graphVars
<1>2. /\ ticks' \in Seq(TickEvents) /\ Len(ticks') <= MaxQueue /\ LastTick'
    BY <1>1, PopFacts
<1>3. astray' \in BOOLEAN
    BY DEF SkipTick
<1>4. TypeOK'
    BY <1>1, <1>2, <1>3 DEF IInv, TypeOK
<1>5. InStep' /\ HistoryIsOrdered' /\ StancesOwn' /\ KernelKeepsDay'
    BY <1>1 DEF IInv, InStep, HistoryIsOrdered, StancesOwn, KernelKeepsDay, Forked
<1> QED BY <1>2, <1>4, <1>5 DEF IInv

(* An answer is written to the broker of the world that it is about.       *)
LEMMA AnswerInv == ASSUME IInv, NEW t \in talks, Answer(t) PROVE IInv'
<1>1. /\ talks' = talks \ {t}
      /\ UNCHANGED <<clock, paused, worldOn, ticks, emitting, world, kday, known,
                     pending, history, astray>>
    BY DEF Answer, clockVars, kernelVars, graphVars
<1>2. t.world \in Worlds /\ stance \in [Worlds -> Stances] /\ NoStance.about \notin Worlds
    BY DEF IInv, TypeOK, NoStance, Worlds
<1> DEFINE s == [about |-> t.world, left |-> Ttl + 1]
<1>3. s \in Stances /\ s.about = t.world
    BY <1>2, WorldAssumption DEF Stances
<1>4. stance' = stance \/ stance' = [stance EXCEPT ![t.world] = s]
    BY DEF Answer, OwnBroker
<1> HIDE DEF s
<1>5. stance' \in [Worlds -> Stances]
    BY <1>2, <1>3, <1>4
<1>6. StancesOwn'
    <2>1. \A w \in Worlds : stance'[w] = stance[w] \/ (stance'[w] = s /\ w = t.world)
        BY <1>2, <1>4
    <2> QED BY <1>3, <2>1 DEF IInv, StancesOwn
<1>7. TypeOK'
    BY <1>1, <1>5 DEF IInv, TypeOK
<1>8. InStep' /\ HistoryIsOrdered' /\ LastTick' /\ KernelKeepsDay'
    BY <1>1 DEF IInv, InStep, HistoryIsOrdered, LastTick, KernelKeepsDay, Forked
<1> QED BY <1>6, <1>7, <1>8 DEF IInv

(* A reset leaves behind ticks of earlier worlds only.                     *)
LEMMA ResetInv == ASSUME IInv, Reset PROVE IInv'
<1>1. /\ world < MaxWorld /\ world' = world + 1
      /\ clock' = 0 /\ paused' = TRUE /\ kday' = 0 /\ known' = {}
      /\ pending' = {} /\ history' = Genesis
      /\ talks' \subseteq talks
      /\ astray' = (ticks # <<>>)
      /\ UNCHANGED <<worldOn, ticks, emitting, stance>>
    BY DEF Reset, FreshGraph
<1>2. history' \in Seq(NodeType) /\ InStep' /\ HistoryIsOrdered'
    BY <1>1, FreshFacts
<1>3. world \in Worlds /\ world' \in Worlds
    BY <1>1, WorldAssumption DEF IInv, TypeOK, Worlds
<1>4. TypeOK'
    BY <1>1, <1>2, <1>3, WorldAssumption DEF IInv, TypeOK, NodeType
<1>5. LastTick'
    <2> SUFFICES ASSUME NEW k \in DOMAIN ticks
                 PROVE  ticks[k].world <= world' /\ ticks[k].world # world'
        BY <1>1 DEF LastTick
    <2>1. ticks[k] \in TickEvents /\ ticks[k].world <= world
        BY DEF IInv, LastTick, TypeOK
    <2>2. ticks[k].world \in Int /\ world \in Int
        BY <1>3, <2>1 DEF TickEvents, Worlds
    <2> QED BY <1>1, <2>1, <2>2
<1>6. StancesOwn' /\ KernelKeepsDay'
    BY <1>1 DEF IInv, StancesOwn, KernelKeepsDay
<1> QED BY <1>2, <1>4, <1>5, <1>6 DEF IInv

-----------------------------------------------------------------------------
(* Steps that leave the models of the World and the bus alone.             *)
LEMMA AsideInv ==
    ASSUME IInv, paused' \in BOOLEAN, worldOn' \in BOOLEAN, emitting' \in SUBSET Worlds,
           UNCHANGED <<clock, ticks, world, kday, known, pending, history,
                       talks, stance, astray>>
    PROVE  IInv'
BY DEF IInv, TypeOK, InStep, HistoryIsOrdered, StancesOwn, LastTick, KernelKeepsDay, Forked

LEMMA NextInv == IInv /\ [Next]_vars => IInv'
<1> SUFFICES ASSUME IInv, [Next]_vars PROVE IInv'
    OBVIOUS
<1>t. TypeOK
    BY DEF IInv
<1>1. CASE PauseOrResume
    BY <1>1, <1>t, AsideInv DEF PauseOrResume, kernelVars, graphVars, TypeOK
<1>2. CASE SwitchWorld
    BY <1>2, <1>t, AsideInv DEF SwitchWorld, clockVars, kernelVars, graphVars, TypeOK
<1>3. CASE Advance
    BY <1>3, AdvanceInv
<1>4. CASE Reset
    BY <1>4, ResetInv
<1>5. CASE OnTick
    BY <1>5, OnTickInv
<1>6. CASE SkipTick
    BY <1>6, SkipTickInv
<1>7. CASE HeadlineDone
    BY <1>7, <1>t, AsideInv DEF HeadlineDone, clockVars, kernelVars, graphVars, TypeOK
<1>8. ASSUME NEW e \in Edits, Edit(e) PROVE IInv'
    BY <1>8, EditInv
<1>9. ASSUME NEW t \in talks, Answer(t) PROVE IInv'
    BY <1>9, AnswerInv
<1>10. CASE UNCHANGED vars
    BY <1>10, <1>t, AsideInv DEF vars, clockVars, kernelVars, graphVars, TypeOK
<1> QED BY <1>1, <1>2, <1>3, <1>4, <1>5, <1>6, <1>7, <1>8, <1>9, <1>10 DEF Next

(* Every component of the World's state keeps its type, whatever is reset, *)
(* skipped or answered late.                                               *)
THEOREM TypeCorrect == Spec => []TypeOK
<1>1. IInv => TypeOK
    BY DEF IInv
<1> QED BY <1>1, InitInv, NextInv, PTL DEF Spec

(* An operator's edit is in both models or in neither, and forks the       *)
(* chronology once (WorldBridge, _phase_apply_events, reset).              *)
THEOREM ModelsInStep == Spec => []InStep
<1>1. IInv => InStep
    BY DEF IInv
<1> QED BY <1>1, InitInv, NextInv, PTL DEF Spec

(* The chronology is ordered in time and ahead of no clock.                *)
THEOREM HistoryOrdered == Spec => []HistoryIsOrdered
<1>1. IInv => HistoryIsOrdered
    BY DEF IInv
<1> QED BY <1>1, InitInv, NextInv, PTL DEF Spec

(* No stance of an earlier world governs the one after a reset.            *)
THEOREM StancesStayHome == Spec => []StanceOfThisWorld
<1>1. IInv => StanceOfThisWorld
    BY DEF IInv, StancesOwn, StanceOfThisWorld, TypeOK
<1> QED BY <1>1, InitInv, NextInv, PTL DEF Spec

(* A kernel that has served its last tick has the clock's day.             *)
THEOREM KernelOnTime == Spec => []KernelKeepsDay
<1>1. IInv => KernelKeepsDay
    BY DEF IInv
<1> QED BY <1>1, InitInv, NextInv, PTL DEF Spec

-----------------------------------------------------------------------------
(* What a reset would have to wait for.                                    *)
ResetsDrained == Reset => ticks = <<>> /\ emitting = {}

(* Everything that is under way belongs to the world of today, and nothing *)
(* of it is ahead of the clock.                                            *)
OfToday ==
    /\ kday <= clock
    /\ \A k \in DOMAIN ticks : ticks[k].day <= clock /\ ticks[k].world = world
    /\ \A w \in emitting : w = world

LEMMA TodayStep ==
    ASSUME IInv, OfToday, [Next]_vars, [ResetsDrained]_vars
    PROVE  OfToday'
<1>1. /\ clock \in 0 .. MaxDay /\ MaxDay \in Nat /\ kday \in 0 .. MaxDay
      /\ ticks \in Seq(TickEvents) /\ world \in Worlds
      /\ \A k \in DOMAIN ticks : ticks[k] \in TickEvents /\ ticks[k].day \in 0 .. MaxDay
    <2>1. /\ clock \in 0 .. MaxDay /\ MaxDay \in Nat /\ kday \in 0 .. MaxDay
          /\ ticks \in Seq(TickEvents) /\ world \in Worlds
        BY WorldAssumption DEF IInv, TypeOK
    <2>2. \A k \in DOMAIN ticks : ticks[k] \in TickEvents
        BY <2>1
    <2> QED BY <2>1, <2>2 DEF TickEvents
<1>2. CASE Advance
    <2>1. PICK speed \in Speeds : clock' = AtMost(clock + speed)
        BY <1>2 DEF Advance
    <2>2. clock' \in 0 .. MaxDay /\ clock <= clock'
        BY <1>1, <2>1, WorldAssumption DEF AtMost
    <2> DEFINE tick == [day |-> clock', world |-> world]
    <2>3. /\ ticks' = Append(ticks, tick)
          /\ UNCHANGED <<kday, world, emitting>>
        BY <1>2 DEF Advance, kernelVars
    <2>4. tick.day = clock' /\ tick.world = world
        OBVIOUS
    <2> HIDE DEF tick
    <2>5. ASSUME NEW k \in DOMAIN ticks'
          PROVE  ticks'[k].day <= clock' /\ ticks'[k].world = world
        <3>1. CASE k \in DOMAIN ticks
            <4>1. ticks'[k] = ticks[k]
                BY <1>1, <2>3, <3>1
            <4> QED BY <1>1, <2>2, <3>1, <4>1 DEF OfToday
        <3>2. CASE k \notin DOMAIN ticks
            <4>1. ticks'[k] = tick
                BY <1>1, <2>3, <3>2
            <4> QED BY <2>2, <2>4, <4>1
        <3> QED BY <3>1, <3>2
    <2> QED BY <1>1, <2>2, <2>3, <2>5 DEF OfToday
<1>3. CASE OnTick
    <2>1. /\ ticks # <<>> /\ ticks' = Tail(ticks) /\ kday' = Head(ticks).day
          /\ emitting' \in {{}, {world}} /\ UNCHANGED <<clock, world>>
        BY <1>3 DEF OnTick, PublishedDay, clockVars
    <2>2. /\ Head(ticks) = ticks[1] /\ 1 \in DOMAIN ticks
          /\ \A k \in DOMAIN ticks' : k + 1 \in DOMAIN ticks /\ ticks'[k] = ticks[k + 1]
        BY <1>1, <2>1
    <2> QED BY <2>1, <2>2 DEF OfToday
<1>4. CASE SkipTick
    <2>1. /\ ticks # <<>> /\ ticks' = Tail(ticks)
          /\ UNCHANGED <<clock, world, kday, emitting>>
        BY <1>4 DEF SkipTick, clockVars, kernelVars
    <2>2. \A k \in DOMAIN ticks' : k + 1 \in DOMAIN ticks /\ ticks'[k] = ticks[k + 1]
        BY <1>1, <2>1
    <2> QED BY <2>1, <2>2 DEF OfToday
<1>5. CASE HeadlineDone
    BY <1>5 DEF HeadlineDone, clockVars, kernelVars, OfToday
<1>6. CASE Reset
    <2>1. vars' # vars
        BY <1>1, <1>6 DEF Reset, Worlds, vars, kernelVars
    <2>2. ticks = <<>> /\ emitting = {}
        BY <1>6, <2>1 DEF ResetsDrained
    <2>3. kday' = 0 /\ clock' = 0 /\ ticks' = ticks /\ emitting' = emitting
        BY <1>6 DEF Reset
    <2> QED BY <2>2, <2>3 DEF OfToday
<1>7. CASE PauseOrResume \/ SwitchWorld \/ (\E e \in Edits : Edit(e))
           \/ (\E t \in talks : Answer(t)) \/ UNCHANGED vars
    <2>1. UNCHANGED <<clock, ticks, emitting, world, kday>>
        BY <1>7 DEF PauseOrResume, SwitchWorld, Edit, Answer, vars, clockVars, kernelVars
    <2> QED BY <2>1 DEF OfToday
<1> QED BY <1>2, <1>3, <1>4, <1>5, <1>6, <1>7 DEF Next

(* What the doc says of POST /world/reset (main.py:518) holds of a reset   *)
(* that finds the bus empty and no handler waiting for its headline: the   *)
(* World is then at day zero, nothing of the old one is emitted, and at no *)
(* time is the kernel ahead of the clock.  It takes both: the code pauses  *)
(* the clock and waits for neither.                                        *)
THEOREM DrainedResetIsClean ==
    Spec /\ [][ResetsDrained]_vars =>
        []ResetLeavesDayZero /\ []OldWorldIsSilent /\ [](kday <= clock)
<1>1. Init => OfToday
    BY DEF Init, OfToday
<1>2. IInv /\ OfToday /\ [Next]_vars /\ [ResetsDrained]_vars => OfToday'
    BY TodayStep
<1>3. IInv /\ OfToday => ResetLeavesDayZero /\ OldWorldIsSilent /\ kday <= clock
    BY WorldAssumption DEF IInv, TypeOK, OfToday, ResetLeavesDayZero, OldWorldIsSilent
<1> QED BY <1>1, <1>2, <1>3, InitInv, NextInv, PTL DEF Spec

-----------------------------------------------------------------------------
(* The steps that the kernel is away from rest: a tick may begin a headline*)
(* and a headline has to end.                                              *)
Backlog == 2 * Len(ticks) + (IF emitting = {} THEN 0 ELSE 1)

BacklogShrinks ==
    /\ Serve => Backlog' < Backlog
    /\ Backlog' > Backlog => Advance

BacklogBounded ==
    /\ Backlog \in 0 .. 2 * MaxQueue + 1
    /\ Backlog = 0 <=> ticks = <<>> /\ emitting = {}

LEMMA BacklogStep == IInv /\ IInv' /\ [Next]_vars => [BacklogShrinks]_vars
<1> SUFFICES ASSUME IInv, IInv', Next PROVE BacklogShrinks
    OBVIOUS
<1> DEFINE n == IF emitting = {} THEN 0 ELSE 1
<1>1. ticks \in Seq(TickEvents) /\ Len(ticks) \in Nat /\ Len(ticks') \in Nat
    <2>1. ticks \in Seq(TickEvents) /\ ticks' \in Seq(TickEvents)
        BY DEF IInv, TypeOK, TickEvents, Worlds
    <2> QED BY <2>1
<1>2. n \in 0 .. 1 /\ n' \in 0 .. 1 /\ Backlog = 2 * Len(ticks) + n
      /\ Backlog' = 2 * Len(ticks') + n'
    BY DEF Backlog
<1>3. CASE OnTick \/ SkipTick
    <2>1. emitting = {} /\ ticks # <<>> /\ ticks' = Tail(ticks)
        BY <1>3 DEF OnTick, SkipTick
    <2>2. Len(ticks') = Len(ticks) - 1 /\ n = 0
        BY <1>1, <2>1
    <2>3. Backlog' < Backlog
        BY <1>1, <1>2, <2>2
    <2> QED BY <1>1, <1>2, <2>3 DEF BacklogShrinks
<1>4. CASE HeadlineDone
    <2>1. emitting # {} /\ emitting' = {} /\ ticks' = ticks
        BY <1>4 DEF HeadlineDone
    <2>2. Backlog' < Backlog
        BY <1>1, <1>2, <2>1
    <2> QED BY <1>1, <1>2, <2>2 DEF BacklogShrinks
<1>5. CASE ~Serve /\ ~Advance
    <2>1. UNCHANGED <<ticks, emitting>>
        BY <1>5 DEF Next, Serve, PauseOrResume, SwitchWorld, Reset, Edit, Answer
    <2>2. Backlog' = Backlog
        BY <2>1 DEF Backlog
    <2> QED BY <1>1, <1>2, <1>5, <2>2 DEF BacklogShrinks
<1>6. CASE Advance /\ ~Serve
    BY <1>6 DEF BacklogShrinks
<1> QED BY <1>3, <1>4, <1>5, <1>6 DEF Serve

(* A kernel whose clock has been stopped comes nearer to rest with every   *)
(* turn of the bus, and nothing but the clock moves it away: no switch of  *)
(* the World, edit, deliberation or reset adds to what it has to work off. *)
THEOREM KernelWindsDown == Spec => []BacklogBounded /\ [][BacklogShrinks]_vars
<1>1. IInv => BacklogBounded
    <2> SUFFICES ASSUME IInv PROVE BacklogBounded
        OBVIOUS
    <2>1. ticks \in Seq(TickEvents) /\ Len(ticks) <= MaxQueue /\ MaxQueue \in Nat
        BY WorldAssumption DEF IInv, TypeOK
    <2>2. Len(ticks) = 0 <=> ticks = <<>>
        BY <2>1
    <2> QED BY <2>1, <2>2 DEF BacklogBounded, Backlog
<1> QED BY <1>1, InitInv, NextInv, BacklogStep, PTL DEF Spec
=============================================================================

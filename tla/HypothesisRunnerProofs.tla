----------------------- MODULE HypothesisRunnerProofs -----------------------
(* Proofs about HypothesisRunner: for every set of requests and however    *)
(* the controller, the World and the cancellation of the loop interleave   *)
(* with the cycles, an experiment measures its own World only, and the     *)
(* lock that sees to it is itself never orphaned and never out of order.   *)
EXTENDS HypothesisRunner, WellFoundedInduction, SequenceTheorems, TLAPS

(* The types of what a cycle works with. That the queue and the holder of  *)
(* the lock are well-typed needs more than types: see Queue and Held.      *)
Types ==
    /\ day \in 0 .. MaxDay
    /\ pc \in [Tasks -> Labels]
    /\ preDay \in [Tasks -> 0 .. MaxDay]
    /\ span \in [Tasks -> 0 .. MaxDay]
    /\ since \in [Tasks -> 0 .. MaxDay]
    /\ disturbed \in [Tasks -> BOOLEAN]
    /\ enteredArmed \in [Tasks -> BOOLEAN]

(* The lock is what it is meant to be: a cycle is run by its holder.       *)
LockHeld == \A t \in Tasks : InCycle(t) => holder = t

(* The World has not gone further than the days that were counted.         *)
DaysCounted == \A t \in Tasks : Measuring(t) => day - preDay[t] <= since[t]

(* A loop that is on its way to the World was armed when it set out.       *)
SetOutArmed == pc["loop"] \in {"proposing", "debating"} => enteredArmed["loop"]

IInv ==
    /\ Types
    /\ LockHeld
    /\ DeltasAreOwn
    /\ DaysCounted
    /\ SpanIsReal
    /\ SetOutArmed

-----------------------------------------------------------------------------
(* Both names mean a whole number within the bound.                        *)
LEMMA Capped == \A n \in Nat : AtMost(n) \in 0 .. MaxDay
                               /\ (AtMost(n) = n \/ (AtMost(n) = MaxDay /\ n >= MaxDay))
BY HypothesisAssumption DEF AtMost

(* The tick span of a cycle is a number of days and covers no more than    *)
(* was counted since its first snapshot.                                   *)
LEMMA SpanBounded ==
    ASSUME Types, NEW t \in Tasks, day - preDay[t] <= since[t]
    PROVE  TickSpan(t) \in 0 .. MaxDay /\ TickSpan(t) <= since[t]
<1>1. day \in 0 .. MaxDay /\ preDay[t] \in 0 .. MaxDay /\ since[t] \in 0 .. MaxDay
    BY DEF Types
<1> QED BY <1>1, HypothesisAssumption DEF TickSpan

LEMMA InitInv == Init => IInv
<1> SUFFICES ASSUME Init PROVE IInv
    OBVIOUS
<1>1. \A t \in Tasks : pc[t] \in {"idle", "sleeping"}
    BY DEF Init, Rest
<1>2. Types
    BY HypothesisAssumption DEF Init, Types, Labels, Rest
<1>3. LockHeld
    BY <1>1 DEF LockHeld, InCycle
<1>4. DeltasAreOwn /\ DaysCounted /\ SpanIsReal
    BY <1>1 DEF DeltasAreOwn, DaysCounted, SpanIsReal, Measuring
<1>5. SetOutArmed
    BY <1>1 DEF SetOutArmed, Tasks
<1> QED BY <1>2, <1>3, <1>4, <1>5 DEF IInv

(* Nothing that the controller does reaches a running cycle.               *)
LEMMA StepsAside ==
    ASSUME IInv, UNCHANGED <<day, holder, pc, measured, enteredArmed>>
    PROVE  IInv'
BY DEF IInv, Types, LockHeld, DeltasAreOwn, DaysCounted, SpanIsReal, SetOutArmed,
       InCycle, Measuring, measured

(* The World goes to another day, and what it went forward is counted.     *)
LEMMA TickInv == ASSUME IInv, Tick PROVE IInv'
<1>1. /\ Types /\ day' \in 1 .. MaxDay
      /\ UNCHANGED <<holder, pc, preDay, span, disturbed, enteredArmed>>
      /\ since' = [t \in Tasks |-> IF Measuring(t) /\ day' > day
                                   THEN AtMost(since[t] + day' - day) ELSE since[t]]
    BY DEF Tick, IInv, lock
<1>2. ASSUME NEW t \in Tasks
      PROVE  since'[t] \in 0 .. MaxDay /\ since'[t] >= since[t]
             /\ (Measuring(t) => day' - preDay[t] <= since'[t])
    <2>1. day \in 0 .. MaxDay /\ since[t] \in 0 .. MaxDay /\ preDay[t] \in 0 .. MaxDay
        BY <1>1 DEF Types
    <2>2. Measuring(t) => day - preDay[t] <= since[t]
        BY DEF IInv, DaysCounted
    <2>3. CASE Measuring(t) /\ day' > day
        <3>1. since'[t] = AtMost(since[t] + day' - day)
            BY <1>1, <2>3
        <3>2. since[t] + day' - day \in Nat
            BY <1>1, <2>1, <2>3, HypothesisAssumption
        <3>3. /\ since'[t] \in 0 .. MaxDay
              /\ \/ since'[t] = since[t] + day' - day
                 \/ since'[t] = MaxDay
            BY <3>1, <3>2, Capped
        <3> QED BY <1>1, <2>1, <2>2, <2>3, <3>3, HypothesisAssumption
    <2>4. CASE ~(Measuring(t) /\ day' > day)
        <3>1. since'[t] = since[t]
            BY <1>1, <2>4
        <3> QED BY <1>1, <2>1, <2>2, <2>4, <3>1, HypothesisAssumption
    <2> QED BY <2>3, <2>4
<1>3. Types'
    <2>1. since' \in [Tasks -> 0 .. MaxDay]
        BY <1>1, <1>2
    <2>2. day' \in 0 .. MaxDay
        BY <1>1, HypothesisAssumption
    <2> QED BY <1>1, <2>1, <2>2 DEF Types
<1>4. LockHeld' /\ DeltasAreOwn' /\ SetOutArmed'
    BY <1>1 DEF IInv, LockHeld, DeltasAreOwn, SetOutArmed, InCycle, Measuring
<1>5. DaysCounted'
    BY <1>1, <1>2 DEF DaysCounted, Measuring
<1>6. SpanIsReal'
    <2> SUFFICES ASSUME NEW t \in Tasks, pc[t] = "reporting"
                 PROVE  span[t] <= since'[t]
        BY <1>1 DEF SpanIsReal
    <2>1. span[t] <= since[t] /\ span[t] \in 0 .. MaxDay /\ since[t] \in 0 .. MaxDay
        BY <1>1 DEF IInv, SpanIsReal, Types
    <2> QED BY <2>1, <1>2, HypothesisAssumption
<1> QED BY <1>3, <1>4, <1>5, <1>6 DEF IInv

(* Day zero is before every snapshot.                                      *)
LEMMA ResetInv == ASSUME IInv, ResetWorld PROVE IInv'
<1>1. day' = 0 /\ UNCHANGED <<holder, pc, preDay, span, since, disturbed, enteredArmed>>
    BY DEF ResetWorld, lock, measured
<1>2. Types'
    BY <1>1, HypothesisAssumption DEF IInv, Types
<1>3. LockHeld' /\ DeltasAreOwn' /\ SetOutArmed' /\ SpanIsReal'
    BY <1>1 DEF IInv, LockHeld, DeltasAreOwn, SetOutArmed, SpanIsReal, InCycle, Measuring
<1>4. DaysCounted'
    <2> SUFFICES ASSUME NEW t \in Tasks PROVE 0 - preDay[t] <= since[t]
        BY <1>1 DEF DaysCounted
    <2>1. preDay[t] \in 0 .. MaxDay /\ since[t] \in 0 .. MaxDay
        BY DEF IInv, Types
    <2> QED BY <2>1, HypothesisAssumption
<1> QED BY <1>2, <1>3, <1>4 DEF IInv

-----------------------------------------------------------------------------
(* A step that only moves the program counter of a task to a label that is *)
(* no part of the measurement, and may take the lock for it.               *)
LEMMA LabelInv ==
    ASSUME IInv, NEW t \in Tasks, NEW label \in Labels,
           Goto(t, label), UNCHANGED <<day, measured>>,
           label \notin {"settling", "reporting"},
           enteredArmed' \in [Tasks -> BOOLEAN],
           LockHeld', SetOutArmed'
    PROVE  IInv'
<1>1. pc' = [pc EXCEPT ![t] = label] /\ UNCHANGED <<day, preDay, span, since, disturbed>>
    BY DEF Goto, measured
<1>2. pc \in [Tasks -> Labels]
    BY DEF IInv, Types
<1>3. Types'
    BY <1>1, <1>2 DEF IInv, Types
<1>4. \A u \in Tasks : pc'[u] \in {"settling", "reporting"} => pc'[u] = pc[u]
    BY <1>1, <1>2
<1>5. DeltasAreOwn' /\ DaysCounted' /\ SpanIsReal'
    BY <1>1, <1>4 DEF IInv, DeltasAreOwn, DaysCounted, SpanIsReal, Measuring
<1> QED BY <1>3, <1>5 DEF IInv

LEMMA AskInv == ASSUME IInv, NEW t \in Tasks, Ask(t) PROVE IInv'
<1>1. Goto(t, "waiting") /\ UNCHANGED <<day, holder, measured, enteredArmed>>
      /\ t \in Requests
    BY DEF Ask
<1>2. pc \in [Tasks -> Labels] /\ t # "loop"
    BY <1>1, HypothesisAssumption DEF IInv, Types
<1>3. LockHeld'
    BY <1>1, <1>2 DEF IInv, LockHeld, InCycle, Goto
<1>4. SetOutArmed'
    BY <1>1, <1>2 DEF IInv, SetOutArmed, Goto
<1>5. "waiting" \in Labels /\ enteredArmed' \in [Tasks -> BOOLEAN]
    BY <1>1 DEF Labels, IInv, Types
<1> QED BY <1>1, <1>3, <1>4, <1>5, LabelInv

LEMMA WakesInv == ASSUME IInv, LoopWakes PROVE IInv'
<1> DEFINE t == "loop"
<1>1. Goto(t, "waiting") /\ UNCHANGED <<day, holder, measured, enteredArmed>> /\ t \in Tasks
    BY DEF LoopWakes, Tasks
<1>2. pc \in [Tasks -> Labels]
    BY DEF IInv, Types
<1>3. LockHeld'
    BY <1>1, <1>2 DEF IInv, LockHeld, InCycle, Goto
<1>4. SetOutArmed'
    BY <1>1, <1>2 DEF IInv, SetOutArmed, Goto
<1>5. "waiting" \in Labels /\ enteredArmed' \in [Tasks -> BOOLEAN]
    BY <1>1 DEF Labels, IInv, Types
<1> QED BY <1>1, <1>3, <1>4, <1>5, LabelInv

(* The lock is free when it is taken: no other cycle is under way.         *)
LEMMA EnterInv == ASSUME IInv, NEW t \in Tasks, Enter(t) PROVE IInv'
<1>1. /\ pc \in [Tasks -> Labels] /\ enteredArmed \in [Tasks -> BOOLEAN]
      /\ UNCHANGED <<day, measured>>
      /\ holder = Nobody /\ "loop" \in Tasks /\ Nobody \notin Tasks
    BY HypothesisAssumption DEF IInv, Types, Enter, MayEnter, Tasks, Nobody
<1>2. \A u \in Tasks : ~InCycle(u)
    BY <1>1 DEF IInv, LockHeld
<1>3. CASE Goes(t)
    <2>1. /\ Goto(t, "proposing") /\ holder' = t
          /\ enteredArmed' = [enteredArmed EXCEPT ![t] = Armed]
          /\ "proposing" \in Labels
        BY <1>3 DEF Enter, Labels
    <2>2. enteredArmed' \in [Tasks -> BOOLEAN]
        <3>1. Armed \in BOOLEAN
            BY DEF Armed
        <3> QED BY <1>1, <2>1, <3>1
    <2>3. LockHeld'
        BY <1>1, <1>2, <2>1 DEF LockHeld, InCycle, Goto
    <2>4. SetOutArmed'
        <3>1. CASE t = "loop"
            <4>1. Armed
                BY <1>3, <3>1 DEF Goes
            <4> QED BY <1>1, <2>1, <3>1, <4>1 DEF SetOutArmed, Goto
        <3>2. CASE t # "loop"
            BY <1>1, <2>1, <3>2 DEF IInv, SetOutArmed, Goto
        <3> QED BY <3>1, <3>2
    <2> QED BY <1>1, <2>1, <2>2, <2>3, <2>4, LabelInv
<1>4. CASE ~Goes(t)
    <2>1. Goto(t, Rest(t)) /\ UNCHANGED <<holder, enteredArmed>>
        BY <1>4 DEF Enter
    <2>2. Rest(t) \in Labels /\ Rest(t) \in {"idle", "sleeping"}
        BY DEF Rest, Labels
    <2>3. LockHeld'
        BY <1>1, <1>2, <2>1, <2>2 DEF LockHeld, InCycle, Goto
    <2>4. SetOutArmed'
        BY <1>1, <2>1, <2>2 DEF IInv, SetOutArmed, Goto
    <2> QED BY <1>1, <2>1, <2>2, <2>3, <2>4, LabelInv
<1> QED BY <1>3, <1>4

LEMMA ProposedInv == ASSUME IInv, NEW t \in Tasks, Proposed(t) PROVE IInv'
<1>1. /\ Goto(t, "debating") /\ UNCHANGED <<day, holder, measured, enteredArmed>>
      /\ pc[t] = "proposing" /\ pc \in [Tasks -> Labels] /\ "debating" \in Labels
      /\ enteredArmed' \in [Tasks -> BOOLEAN] /\ "loop" \in Tasks
    BY DEF IInv, Types, Proposed, Labels, lock, Tasks
<1>2. LockHeld'
    BY <1>1 DEF IInv, LockHeld, InCycle, Goto
<1>3. SetOutArmed'
    BY <1>1 DEF IInv, SetOutArmed, Goto
<1> QED BY <1>1, <1>2, <1>3, LabelInv

(* The holder of the lock changes the World: nobody else is measuring, and *)
(* its own measurement begins.                                             *)
LEMMA PerturbInv == ASSUME IInv, NEW t \in Tasks, Perturb(t) PROVE IInv'
<1>1. /\ pc[t] = "debating" /\ UNCHANGED <<day, holder, span, enteredArmed>>
      /\ preDay' = [preDay EXCEPT ![t] = day]
      /\ since' = [since EXCEPT ![t] = 0]
      /\ Types
    BY DEF Perturb, lock, IInv
<1>2. PICK touched \in BOOLEAN, failed \in BOOLEAN :
         /\ disturbed' = [u \in Tasks |-> IF u = t THEN FALSE
                             ELSE disturbed[u] \/ (Measuring(u) /\ touched)]
         /\ Goto(t, IF failed THEN "publishing" ELSE "settling")
    BY DEF Perturb
<1>3. \A u \in Tasks : InCycle(u) => u = t
    BY <1>1 DEF IInv, LockHeld, InCycle
<1>4. /\ pc' \in [Tasks -> Labels]
      /\ pc'[t] \in {"publishing", "settling"}
      /\ \A u \in Tasks : u # t => pc'[u] = pc[u]
    BY <1>1, <1>2 DEF Goto, Types, Labels
<1>5. \A u \in Tasks : (Measuring(u))' => u = t
    BY <1>3, <1>4 DEF Measuring, InCycle
<1>6. Types'
    <2>1. disturbed' \in [Tasks -> BOOLEAN]
        <3>1. \A u \in Tasks : (disturbed[u] \/ (Measuring(u) /\ touched)) \in BOOLEAN
            BY DEF Measuring
        <3> QED BY <1>2, <3>1
    <2>2. preDay' \in [Tasks -> 0 .. MaxDay] /\ since' \in [Tasks -> 0 .. MaxDay]
        BY <1>1, HypothesisAssumption DEF Types
    <2> QED BY <1>1, <1>4, <2>1, <2>2 DEF Types
<1>7. LockHeld'
    BY <1>1, <1>4 DEF IInv, LockHeld, InCycle
<1>8. DeltasAreOwn'
    BY <1>2, <1>5 DEF DeltasAreOwn
<1>9. DaysCounted'
    <2>1. day \in Int /\ preDay'[t] = day /\ since'[t] = 0
        BY <1>1, HypothesisAssumption DEF Types
    <2> QED BY <1>1, <1>5, <2>1 DEF DaysCounted
<1>10. SpanIsReal'
    BY <1>4, <1>5 DEF SpanIsReal, Measuring
<1>11. SetOutArmed'
    <2>1. "loop" \in Tasks
        BY DEF Tasks
    <2> QED BY <1>1, <1>4, <2>1 DEF IInv, SetOutArmed
<1> QED BY <1>6, <1>7, <1>8, <1>9, <1>10, <1>11 DEF IInv

LEMMA MeasureInv == ASSUME IInv, NEW t \in Tasks, Measure(t) PROVE IInv'
<1>1. /\ pc[t] = "settling"
      /\ UNCHANGED <<day, holder, preDay, since, disturbed, enteredArmed>>
      /\ span' = [span EXCEPT ![t] = TickSpan(t)]
      /\ pc' = [pc EXCEPT ![t] = "reporting"]
      /\ Types
    BY DEF Measure, Goto, lock, IInv
<1>2. TickSpan(t) \in 0 .. MaxDay /\ TickSpan(t) <= since[t]
    <2>1. day - preDay[t] <= since[t]
        BY <1>1 DEF IInv, DaysCounted, Measuring
    <2> QED BY <1>1, <2>1, SpanBounded
<1>3. /\ pc' \in [Tasks -> Labels] /\ pc'[t] = "reporting"
      /\ \A u \in Tasks : u # t => pc'[u] = pc[u]
    BY <1>1 DEF Types, Labels
<1>4. Types'
    BY <1>1, <1>2, <1>3 DEF Types
<1>5. LockHeld'
    BY <1>1, <1>3 DEF IInv, LockHeld, InCycle
<1>6. DeltasAreOwn' /\ DaysCounted'
    BY <1>1, <1>3 DEF IInv, DeltasAreOwn, DaysCounted, Measuring
<1>7. SpanIsReal'
    BY <1>1, <1>2, <1>3 DEF IInv, Types, SpanIsReal
<1>8. SetOutArmed'
    <2>1. "loop" \in Tasks
        BY DEF Tasks
    <2> QED BY <1>1, <1>3, <2>1 DEF IInv, SetOutArmed
<1> QED BY <1>4, <1>5, <1>6, <1>7, <1>8 DEF IInv

-----------------------------------------------------------------------------
(* A task leaves its cycle, and takes what it worked with along: the lock  *)
(* is then free, or was not its own.                                       *)
LEMMA LeaveInv ==
    ASSUME IInv, NEW t \in Tasks, NEW label \in Labels,
           label \in {"idle", "sleeping", "stopped"},
           Goto(t, label), Forget(t), UNCHANGED day,
           holder' = IF holder = t THEN Nobody ELSE holder
    PROVE  IInv'
<1>1. /\ Types /\ day' = day
      /\ preDay' = [preDay EXCEPT ![t] = 0]
      /\ span' = [span EXCEPT ![t] = 0]
      /\ since' = [since EXCEPT ![t] = 0]
      /\ disturbed' = [disturbed EXCEPT ![t] = FALSE]
      /\ enteredArmed' = [enteredArmed EXCEPT ![t] = FALSE]
    BY DEF Forget, IInv
<1>2. /\ pc' \in [Tasks -> Labels] /\ pc'[t] \in {"idle", "sleeping", "stopped"}
      /\ \A u \in Tasks : u # t => pc'[u] = pc[u]
    BY <1>1 DEF Goto, Types
<1>3. Types'
    <2>1. 0 \in 0 .. MaxDay
        BY HypothesisAssumption
    <2>2. /\ preDay' \in [Tasks -> 0 .. MaxDay] /\ span' \in [Tasks -> 0 .. MaxDay]
          /\ since' \in [Tasks -> 0 .. MaxDay]
        BY <1>1, <2>1 DEF Types
    <2>3. disturbed' \in [Tasks -> BOOLEAN] /\ enteredArmed' \in [Tasks -> BOOLEAN]
        BY <1>1 DEF Types
    <2> QED BY <1>1, <1>2, <2>2, <2>3 DEF Types
<1>4. LockHeld'
    BY <1>2 DEF IInv, LockHeld, InCycle
<1>5. \A u \in Tasks : (Measuring(u))' => u # t /\ Measuring(u)
    BY <1>2 DEF Measuring
<1>6. DeltasAreOwn'
    BY <1>1, <1>5 DEF IInv, DeltasAreOwn, Types
<1>7. DaysCounted'
    BY <1>1, <1>5 DEF IInv, DaysCounted, Types
<1>8. SpanIsReal'
    <2> SUFFICES ASSUME NEW u \in Tasks, pc'[u] = "reporting"
                 PROVE  span'[u] <= since'[u]
        BY DEF SpanIsReal
    <2>1. u # t /\ pc[u] = "reporting"
        BY <1>2
    <2>2. span'[u] = span[u] /\ since'[u] = since[u]
        BY <1>1, <2>1 DEF Types
    <2> QED BY <2>1, <2>2 DEF IInv, SpanIsReal
<1>9. SetOutArmed'
    <2>1. "loop" \in Tasks
        BY DEF Tasks
    <2> QED BY <1>1, <1>2, <2>1 DEF IInv, SetOutArmed, Types
<1> QED BY <1>3, <1>4, <1>6, <1>7, <1>8, <1>9 DEF IInv

LEMMA FinishInv == ASSUME IInv, NEW t \in Tasks, Finish(t) PROVE IInv'
<1>1. /\ Goto(t, Rest(t)) /\ holder' = Nobody /\ Forget(t) /\ UNCHANGED day
      /\ Rest(t) \in Labels /\ Rest(t) \in {"idle", "sleeping", "stopped"}
    BY DEF Finish, Rest, Labels
<1>2. holder = t
    BY DEF Finish, IInv, LockHeld, InCycle
<1> QED BY <1>1, <1>2, LeaveInv

LEMMA StopInv == ASSUME IInv, Stop PROVE IInv'
<1>1. /\ Goto("loop", "stopped") /\ Forget("loop") /\ UNCHANGED day
      /\ holder' = IF holder = "loop" THEN Nobody ELSE holder
      /\ "stopped" \in Labels /\ "loop" \in Tasks
    BY DEF Stop, ReleaseOnCancel, Labels, Tasks
<1> QED BY <1>1, LeaveInv

-----------------------------------------------------------------------------
LEMMA NextInv == IInv /\ [Next]_vars => IInv'
<1> SUFFICES ASSUME IInv, [Next]_vars PROVE IInv'
    OBVIOUS
<1>1. CASE SwitchControl
    BY <1>1, StepsAside DEF SwitchControl, lock
<1>2. CASE Tick
    BY <1>2, TickInv
<1>3. CASE ResetWorld
    BY <1>3, ResetInv
<1>4. CASE LoopWakes
    BY <1>4, WakesInv
<1>5. CASE Stop
    BY <1>5, StopInv
<1>6. ASSUME NEW t \in Tasks, Ask(t) \/ Step(t) PROVE IInv'
    BY <1>6, AskInv, EnterInv, ProposedInv, PerturbInv, MeasureInv, FinishInv DEF Step
<1>7. CASE UNCHANGED vars
    BY <1>7, StepsAside DEF vars, lock
<1> QED BY <1>1, <1>2, <1>3, <1>4, <1>5, <1>6, <1>7 DEF Next

-----------------------------------------------------------------------------
(* The queue of the lock.                                                  *)

(* A nonempty set of numbers has a least one.                              *)
LEMMA LeastIn == ASSUME NEW I, I \subseteq Nat, I # {} PROVE Min(I) \in I
<1> DEFINE below == {ss \in Nat \X Nat : ss[1] < ss[2]}
<1>1. IsWellFoundedOn(below, Nat)
    BY NatLessThanWellFounded DEF OpToRel
<1> HIDE DEF below
<1>2. PICK n \in I : \A m \in I : <<m, n>> \notin below
    BY <1>1, WFMin
<1>3. ASSUME NEW m \in I PROVE n =< m
    <2>1. m \in Nat /\ n \in Nat
        OBVIOUS
    <2>2. ~(m < n)
        <3>1. ASSUME m < n PROVE FALSE
            <4>1. <<m, n>> \in below
                BY <2>1, <3>1 DEF below
            <4> QED BY <1>2, <4>1
        <3> QED BY <3>1
    <2> QED BY <2>1, <2>2
<1> QED BY <1>3 DEF Min

(* A sequence without its i-th element.                                    *)
LEMMA CutOut ==
    ASSUME NEW S, NEW q \in Seq(S), NEW i \in 1 .. Len(q)
    PROVE  /\ RemoveAt(q, i) \in Seq(S)
           /\ Len(RemoveAt(q, i)) = Len(q) - 1
           /\ \A j \in 1 .. Len(q) - 1 :
                 RemoveAt(q, i)[j] = IF j < i THEN q[j] ELSE q[j + 1]
<1> DEFINE front == SubSeq(q, 1, i - 1)
           back == SubSeq(q, i + 1, Len(q))
<1>1. Len(q) \in Nat /\ i \in Int /\ \A j \in 1 .. Len(q) : q[j] \in S
    OBVIOUS
<1>2. /\ front \in Seq(S) /\ Len(front) = i - 1
      /\ \A j \in 1 .. i - 1 : front[j] = q[j]
    <2>1. \A j \in 1 .. i - 1 : q[j] \in S
        BY <1>1
    <2>2. 1 \in Int /\ i - 1 \in Int
        BY <1>1
    <2> HIDE DEF front
    <2>3. /\ front \in Seq(S) /\ Len(front) = IF 1 <= i - 1 THEN (i - 1) - 1 + 1 ELSE 0
          /\ \A j \in 1 .. (i - 1) - 1 + 1 : front[j] = q[1 + j - 1]
        BY <2>1, <2>2, SubSeqProperties DEF front
    <2> QED BY <1>1, <2>3
<1>3. /\ back \in Seq(S) /\ Len(back) = Len(q) - i
      /\ \A j \in 1 .. Len(q) - i : back[j] = q[i + j]
    <2>1. \A j \in i + 1 .. Len(q) : q[j] \in S
        BY <1>1
    <2>2. i + 1 \in Int /\ Len(q) \in Int
        BY <1>1
    <2> HIDE DEF back
    <2>3. /\ back \in Seq(S)
          /\ Len(back) = IF i + 1 <= Len(q) THEN Len(q) - (i + 1) + 1 ELSE 0
          /\ \A j \in 1 .. Len(q) - (i + 1) + 1 : back[j] = q[(i + 1) + j - 1]
        BY <2>1, <2>2, SubSeqProperties DEF back
    <2> QED BY <1>1, <2>3
<1>4. RemoveAt(q, i) = front \o back
    BY DEF RemoveAt
<1> HIDE DEF front, back
<1>5. /\ front \o back \in Seq(S)
      /\ Len(front \o back) = Len(front) + Len(back)
      /\ \A j \in 1 .. Len(front) + Len(back) : (front \o back)[j] =
             IF j <= Len(front) THEN front[j] ELSE back[j - Len(front)]
    BY <1>2, <1>3, ConcatProperties
<1>6. ASSUME NEW j \in 1 .. Len(q) - 1
      PROVE  (front \o back)[j] = IF j < i THEN q[j] ELSE q[j + 1]
    <2>1. j \in 1 .. Len(front) + Len(back)
        BY <1>1, <1>2, <1>3
    <2>2. CASE j < i
        BY <1>1, <1>2, <1>5, <2>1, <2>2
    <2>3. CASE ~(j < i)
        <3>1. j - Len(front) \in 1 .. Len(q) - i /\ i + (j - Len(front)) = j + 1
            BY <1>1, <1>2, <2>3
        <3> QED BY <1>1, <1>2, <1>3, <1>5, <2>1, <2>3, <3>1
    <2> QED BY <2>2, <2>3
<1> QED BY <1>1, <1>2, <1>3, <1>4, <1>5, <1>6

(* Taking an element out of a sequence cuts one of its places out, or      *)
(* there was none.                                                         *)
LEMMA TakenOut ==
    ASSUME NEW S, NEW q \in Seq(S), NEW e
    PROVE  \/ RemoveFirst(q, e) = q /\ \A i \in 1 .. Len(q) : q[i] # e
           \/ \E i \in 1 .. Len(q) : q[i] = e /\ RemoveFirst(q, e) = RemoveAt(q, i)
<1> DEFINE I == {i \in 1 .. Len(q) : q[i] = e}
<1>1. CASE I = {}
    BY <1>1 DEF RemoveFirst
<1>2. CASE I # {}
    <2>1. Min(I) \in I
        <3>1. I \subseteq Nat
            OBVIOUS
        <3> HIDE DEF I
        <3> QED BY <1>2, <3>1, LeastIn
    <2>2. SelectInSeq(q, LAMBDA v : v = e) = Min(I)
        BY <1>2 DEF SelectInSeq
    <2>3. RemoveFirst(q, e) = RemoveAt(q, Min(I))
        BY <1>2, <2>2 DEF RemoveFirst
    <2> QED BY <2>1, <2>3
<1> QED BY <1>1, <1>2

(* The queue holds the waiting tasks, each of them once.                   *)
Queue ==
    /\ waiters \in Seq(Tasks)
    /\ \A i, j \in 1 .. Len(waiters) : waiters[i] = waiters[j] => i = j
    /\ \A t \in Tasks : pc[t] = "waiting" <=> \E i \in 1 .. Len(waiters) : waiters[i] = t

(* The lock is not orphaned: its holder runs a cycle.                      *)
Held == holder # Nobody => holder \in Tasks /\ InCycle(holder)

Switches == autonomous \in BOOLEAN /\ worldOn \in BOOLEAN /\ running \in BOOLEAN

QInv == IInv /\ Switches /\ Queue /\ Held

(* A task that is still queued is no further from the head than before.    *)
NoneGoesBack ==
    \A i \in 1 .. Len(waiters) :
        \/ \E j \in 1 .. Len(waiters') : j <= i /\ waiters'[j] = waiters[i]
        \/ pc'[waiters[i]] # "waiting"

LEMMA Joins ==
    ASSUME IInv, Queue, NEW t \in Tasks, pc[t] # "waiting", Goto(t, "waiting"),
           waiters' = Append(waiters, t)
    PROVE  Queue' /\ NoneGoesBack
<1>1. pc \in [Tasks -> Labels] /\ pc' = [pc EXCEPT ![t] = "waiting"]
    BY DEF IInv, Types, Goto
<1>2. waiters \in Seq(Tasks) /\ Len(waiters) \in Nat
    BY DEF Queue
<1>3. /\ waiters' \in Seq(Tasks) /\ Len(waiters') = Len(waiters) + 1
      /\ \A i \in 1 .. Len(waiters) : waiters'[i] = waiters[i]
      /\ waiters'[Len(waiters) + 1] = t
    BY <1>2, AppendProperties
<1>4. \A i \in 1 .. Len(waiters) : waiters[i] \in Tasks /\ waiters[i] # t
    BY <1>2 DEF Queue
<1>5. \A i \in 1 .. Len(waiters') : i \in 1 .. Len(waiters) \/ i = Len(waiters) + 1
    BY <1>2, <1>3
<1>6. ASSUME NEW i \in 1 .. Len(waiters'), NEW j \in 1 .. Len(waiters'),
             waiters'[i] = waiters'[j]
      PROVE  i = j
    BY <1>3, <1>4, <1>5, <1>6 DEF Queue
<1>7. ASSUME NEW u \in Tasks
      PROVE  pc'[u] = "waiting" <=> \E i \in 1 .. Len(waiters') : waiters'[i] = u
    <2>1. CASE u = t
        <3>1. Len(waiters) + 1 \in 1 .. Len(waiters')
            BY <1>2, <1>3
        <3> QED BY <1>1, <1>3, <2>1, <3>1
    <2>2. CASE u # t
        <3>1. pc'[u] = pc[u]
            BY <1>1, <2>2
        <3>2. (\E i \in 1 .. Len(waiters) : waiters[i] = u)
              <=> (\E i \in 1 .. Len(waiters') : waiters'[i] = u)
            <4>1. \A i \in 1 .. Len(waiters) : i \in 1 .. Len(waiters')
                BY <1>2, <1>3
            <4> QED BY <1>3, <1>5, <2>2, <4>1
        <3> QED BY <3>1, <3>2 DEF Queue
    <2> QED BY <2>1, <2>2
<1>8. NoneGoesBack
    <2> SUFFICES ASSUME NEW i \in 1 .. Len(waiters)
                 PROVE  \E j \in 1 .. Len(waiters') : j <= i /\ waiters'[j] = waiters[i]
        BY DEF NoneGoesBack
    <2>1. i \in 1 .. Len(waiters') /\ i <= i
        BY <1>2, <1>3
    <2> QED BY <1>3, <2>1
<1> QED BY <1>3, <1>6, <1>7, <1>8 DEF Queue

(* A task at the k-th place leaves the queue and does something else.      *)
LEMMA Leaves ==
    ASSUME IInv, Queue, NEW k \in 1 .. Len(waiters), NEW label \in Labels,
           label # "waiting", Goto(waiters[k], label),
           waiters' \in Seq(Tasks), Len(waiters') = Len(waiters) - 1,
           \A j \in 1 .. Len(waiters) - 1 :
               waiters'[j] = IF j < k THEN waiters[j] ELSE waiters[j + 1]
    PROVE  Queue' /\ NoneGoesBack
<1> DEFINE t == waiters[k]
<1>1. waiters \in Seq(Tasks) /\ Len(waiters) \in Nat /\ t \in Tasks /\ k \in Nat
    BY DEF Queue
<1>2. pc \in [Tasks -> Labels] /\ pc' = [pc EXCEPT ![t] = label]
    BY DEF IInv, Types, Goto
<1>3. ASSUME NEW j \in 1 .. Len(waiters')
      PROVE  \E i \in 1 .. Len(waiters) : /\ i # k /\ waiters'[j] = waiters[i]
                                          /\ (i = j /\ j < k) \/ (i = j + 1 /\ ~(j < k))
    <2>1. j \in 1 .. Len(waiters) - 1 /\ j \in 1 .. Len(waiters) /\ j + 1 \in 1 .. Len(waiters)
        BY <1>1
    <2>2. CASE j < k
        BY <2>1, <2>2
    <2>3. CASE ~(j < k)
        <3>1. j + 1 # k
            BY <1>1, <2>1, <2>3
        <3> QED BY <2>1, <2>3, <3>1
    <2> QED BY <2>2, <2>3
<1>4. ASSUME NEW i \in 1 .. Len(waiters), i # k
      PROVE  \E j \in 1 .. Len(waiters') : j <= i /\ waiters'[j] = waiters[i]
    <2>1. CASE i < k
        <3>1. i \in 1 .. Len(waiters) - 1 /\ i <= i
            BY <1>1, <2>1
        <3> QED BY <2>1, <3>1
    <2>2. CASE ~(i < k)
        <3>1. /\ i - 1 \in 1 .. Len(waiters) - 1 /\ ~(i - 1 < k) /\ i - 1 <= i
              /\ (i - 1) + 1 = i
            BY <1>1, <1>4, <2>2
        <3>2. waiters'[i - 1] = waiters[i]
            BY <3>1
        <3> QED BY <3>1, <3>2
    <2> QED BY <2>1, <2>2
<1>5. \A i \in 1 .. Len(waiters) : i # k => waiters[i] # t
    BY DEF Queue
<1>6. ASSUME NEW i \in 1 .. Len(waiters'), NEW j \in 1 .. Len(waiters'),
             waiters'[i] = waiters'[j]
      PROVE  i = j
    <2>1. PICK a \in 1 .. Len(waiters) : /\ waiters'[i] = waiters[a]
                                         /\ (a = i /\ i < k) \/ (a = i + 1 /\ ~(i < k))
        BY <1>3
    <2>2. PICK b \in 1 .. Len(waiters) : /\ waiters'[j] = waiters[b]
                                         /\ (b = j /\ j < k) \/ (b = j + 1 /\ ~(j < k))
        BY <1>3
    <2>3. a = b
        <3>1. waiters[a] = waiters[b]
            BY <1>6, <2>1, <2>2
        <3>2. \A m, n \in 1 .. Len(waiters) : waiters[m] = waiters[n] => m = n
            BY DEF Queue
        <3> QED BY <3>1, <3>2
    <2> QED BY <1>1, <2>1, <2>2, <2>3
<1>7. ASSUME NEW u \in Tasks
      PROVE  pc'[u] = "waiting" <=> \E i \in 1 .. Len(waiters') : waiters'[i] = u
    <2>1. CASE u = t
        <3>1. pc'[u] # "waiting"
            BY <1>2, <2>1
        <3>2. ~ \E i \in 1 .. Len(waiters') : waiters'[i] = u
            BY <1>3, <1>5, <2>1
        <3> QED BY <3>1, <3>2
    <2>2. CASE u # t
        <3>1. pc'[u] = pc[u]
            BY <1>2, <2>2
        <3>2. (\E i \in 1 .. Len(waiters) : waiters[i] = u)
              => (\E i \in 1 .. Len(waiters') : waiters'[i] = u)
            BY <1>4, <2>2
        <3>3. (\E i \in 1 .. Len(waiters') : waiters'[i] = u)
              => (\E i \in 1 .. Len(waiters) : waiters[i] = u)
            BY <1>3
        <3> QED BY <3>1, <3>2, <3>3 DEF Queue
    <2> QED BY <2>1, <2>2
<1>8. NoneGoesBack
    <2>1. pc'[waiters[k]] # "waiting"
        BY <1>1, <1>2
    <2> QED BY <1>4, <2>1 DEF NoneGoesBack
<1> QED BY <1>6, <1>7, <1>8 DEF Queue

(* A task that is not queued moves on.                                     *)
LEMMA StaysOut ==
    ASSUME IInv, Queue, NEW t \in Tasks, NEW label \in Labels, label # "waiting",
           pc[t] # "waiting", Goto(t, label), waiters' = waiters
    PROVE  Queue' /\ NoneGoesBack
<1>1. pc \in [Tasks -> Labels] /\ pc' = [pc EXCEPT ![t] = label]
    BY DEF IInv, Types, Goto
<1>2. \A u \in Tasks : pc'[u] = "waiting" <=> pc[u] = "waiting"
    BY <1>1
<1>3. Queue'
    BY <1>2 DEF Queue
<1>4. NoneGoesBack
    <2>1. Len(waiters) \in Nat
        BY DEF Queue
    <2>2. \A i \in 1 .. Len(waiters) : i <= i
        BY <2>1
    <2> QED BY <2>2 DEF NoneGoesBack
<1> QED BY <1>3, <1>4

LEMMA QueueUntouched ==
    ASSUME Queue, UNCHANGED <<pc, waiters>> PROVE Queue' /\ NoneGoesBack
<1>1. Len(waiters) \in Nat
    BY DEF Queue
<1>2. \A i \in 1 .. Len(waiters) : i <= i
    BY <1>1
<1> QED BY <1>2 DEF Queue, NoneGoesBack

-----------------------------------------------------------------------------
LEMMA InitQInv == Init => QInv
<1> SUFFICES ASSUME Init PROVE QInv
    OBVIOUS
<1>1. waiters = <<>> /\ Len(waiters) = 0 /\ \A t \in Tasks : pc[t] # "waiting"
    BY DEF Init, Rest
<1>2. Queue
    <2>1. waiters \in Seq(Tasks)
        BY <1>1
    <2>2. ~ \E i \in 1 .. Len(waiters) : TRUE
        BY <1>1
    <2> QED BY <1>1, <2>1, <2>2 DEF Queue
<1>3. Held /\ Switches
    BY DEF Init, Held, Switches
<1> QED BY <1>2, <1>3, InitInv DEF QInv

(* What a step does to the queue and to the lock.                          *)
LockStep == Queue' /\ Held' /\ Switches' /\ NoneGoesBack

LEMMA AsideLock ==
    ASSUME QInv, UNCHANGED <<holder, waiters, pc>>, Switches' PROVE LockStep
<1>1. Queue' /\ NoneGoesBack
    BY QueueUntouched DEF QInv
<1>2. Held'
    BY DEF QInv, Held, InCycle
<1> QED BY <1>1, <1>2 DEF LockStep

LEMMA JoinLock ==
    ASSUME QInv, NEW t \in Tasks, ~InCycle(t), pc[t] # "waiting", Goto(t, "waiting"),
           waiters' = Append(waiters, t), UNCHANGED <<control, running, holder>>
    PROVE  LockStep
<1>1. Queue' /\ NoneGoesBack
    BY Joins DEF QInv
<1>2. pc \in [Tasks -> Labels]
    BY DEF QInv, IInv, Types
<1>3. Held'
    BY <1>2 DEF QInv, Held, InCycle, Goto
<1>4. Switches'
    BY DEF QInv, Switches, control
<1> QED BY <1>1, <1>3, <1>4 DEF LockStep

(* The head of the queue gets the free lock, or leaves without it.         *)
LEMMA EnterLock == ASSUME QInv, NEW t \in Tasks, Enter(t) PROVE LockStep
<1>1. /\ holder = Nobody /\ waiters # <<>> /\ Head(waiters) = t /\ waiters' = Tail(waiters)
      /\ UNCHANGED <<autonomous, worldOn, running>>
    BY DEF Enter, MayEnter, control
<1>2. waiters \in Seq(Tasks) /\ pc \in [Tasks -> Labels]
    BY DEF QInv, Queue, IInv, Types
<1>3. /\ waiters' \in Seq(Tasks) /\ Len(waiters') = Len(waiters) - 1
      /\ \A j \in 1 .. Len(waiters') : waiters'[j] = waiters[j + 1]
    BY <1>1, <1>2, HeadTailProperties
<1>4. 1 \in 1 .. Len(waiters) /\ waiters[1] = t
    BY <1>1, <1>2
<1>5. \A j \in 1 .. Len(waiters) - 1 :
          waiters'[j] = IF j < 1 THEN waiters[j] ELSE waiters[j + 1]
    BY <1>2, <1>3
<1>6. PICK label \in Labels :
          /\ Goto(t, label) /\ label # "waiting"
          /\ (label = "proposing" /\ holder' = t) \/ holder' = holder
    BY DEF Enter, Rest, Labels
<1>7. Queue' /\ NoneGoesBack
    BY <1>3, <1>4, <1>5, <1>6, Leaves DEF QInv
<1>8. Held'
    BY <1>1, <1>2, <1>6 DEF Held, InCycle, Goto
<1>9. Switches'
    BY <1>1 DEF QInv, Switches
<1> QED BY <1>7, <1>8, <1>9 DEF LockStep

(* A cycle goes on, or ends and gives the lock back.                       *)
LEMMA CycleLock ==
    ASSUME QInv, NEW t \in Tasks, Proposed(t) \/ Perturb(t) \/ Measure(t) \/ Finish(t)
    PROVE  LockStep
<1>1. InCycle(t) /\ waiters' = waiters /\ UNCHANGED <<autonomous, worldOn, running>>
    BY DEF Proposed, Perturb, Measure, Finish, InCycle, lock, control
<1>2. PICK label \in Labels :
          /\ Goto(t, label) /\ label # "waiting"
          /\ \/ /\ holder' = holder
                /\ label \in {"debating", "publishing", "settling", "reporting"}
             \/ holder' = Nobody
    BY DEF Proposed, Perturb, Measure, Finish, Rest, Labels, lock
<1>3. pc[t] # "waiting" /\ pc \in [Tasks -> Labels]
    BY <1>1 DEF InCycle, QInv, IInv, Types
<1>4. Queue' /\ NoneGoesBack
    BY <1>1, <1>2, <1>3, StaysOut DEF QInv
<1>5. Held'
    BY <1>2, <1>3 DEF QInv, Held, InCycle, Goto
<1>6. Switches'
    BY <1>1 DEF QInv, Switches
<1> QED BY <1>4, <1>5, <1>6 DEF LockStep

(* The loop is cancelled wherever it is: out of the queue, out of its      *)
(* cycle with the lock given back, or out of its sleep.                    *)
LEMMA StopLock == ASSUME QInv, Stop PROVE LockStep
<1> DEFINE t == "loop"
<1>1. /\ Goto(t, "stopped") /\ waiters' = RemoveFirst(waiters, t)
      /\ holder' = IF holder = t THEN Nobody ELSE holder
      /\ running' = FALSE /\ UNCHANGED <<autonomous, worldOn>>
      /\ t \in Tasks /\ "stopped" \in Labels
    BY DEF Stop, ReleaseOnCancel, control, Tasks, Labels
<1>2. waiters \in Seq(Tasks) /\ pc \in [Tasks -> Labels]
    BY DEF QInv, Queue, IInv, Types
<1>3. \/ waiters' = waiters /\ \A i \in 1 .. Len(waiters) : waiters[i] # t
      \/ \E i \in 1 .. Len(waiters) : waiters[i] = t /\ waiters' = RemoveAt(waiters, i)
    BY <1>1, <1>2, TakenOut
<1>4. Queue' /\ NoneGoesBack
    <2>1. CASE waiters' = waiters /\ \A i \in 1 .. Len(waiters) : waiters[i] # t
        <3>1. pc[t] # "waiting"
            BY <1>1, <2>1 DEF QInv, Queue
        <3> QED BY <1>1, <2>1, <3>1, StaysOut DEF QInv
    <2>2. ASSUME NEW i \in 1 .. Len(waiters), waiters[i] = t,
                 waiters' = RemoveAt(waiters, i)
          PROVE  Queue' /\ NoneGoesBack
        <3>1. /\ waiters' \in Seq(Tasks) /\ Len(waiters') = Len(waiters) - 1
              /\ \A j \in 1 .. Len(waiters) - 1 :
                    waiters'[j] = IF j < i THEN waiters[j] ELSE waiters[j + 1]
            BY <1>2, <2>2, CutOut
        <3>2. Goto(waiters[i], "stopped")
            BY <1>1, <2>2
        <3> QED BY <1>1, <3>1, <3>2, Leaves DEF QInv
    <2> QED BY <1>3, <2>1, <2>2
<1>5. Held'
    BY <1>1, <1>2 DEF QInv, Held, InCycle, Goto
<1>6. Switches'
    BY <1>1 DEF QInv, Switches
<1> QED BY <1>4, <1>5, <1>6 DEF LockStep

LEMMA NextLock == QInv /\ [Next]_vars => LockStep
<1> SUFFICES ASSUME QInv, [Next]_vars PROVE LockStep
    OBVIOUS
<1>1. CASE SwitchControl
    <2>1. UNCHANGED <<holder, waiters, pc>> /\ Switches'
        BY <1>1 DEF SwitchControl, lock, QInv, Switches
    <2> QED BY <2>1, AsideLock
<1>2. CASE Tick \/ ResetWorld
    <2>1. UNCHANGED <<holder, waiters, pc>> /\ Switches'
        BY <1>2 DEF Tick, ResetWorld, lock, control, QInv, Switches
    <2> QED BY <2>1, AsideLock
<1>3. CASE LoopWakes
    <2>1. /\ "loop" \in Tasks /\ ~InCycle("loop") /\ pc["loop"] # "waiting"
          /\ Goto("loop", "waiting") /\ waiters' = Append(waiters, "loop")
          /\ UNCHANGED <<control, running, holder>>
        BY <1>3 DEF LoopWakes, Tasks, InCycle
    <2> QED BY <2>1, JoinLock
<1>4. CASE Stop
    BY <1>4, StopLock
<1>5. ASSUME NEW t \in Tasks, Ask(t) PROVE LockStep
    <2>1. /\ ~InCycle(t) /\ pc[t] # "waiting" /\ Goto(t, "waiting")
          /\ waiters' = Append(waiters, t) /\ UNCHANGED <<control, running, holder>>
        BY <1>5 DEF Ask, InCycle
    <2> QED BY <2>1, JoinLock
<1>6. ASSUME NEW t \in Tasks, Step(t) PROVE LockStep
    BY <1>6, EnterLock, CycleLock DEF Step
<1>7. CASE UNCHANGED vars
    <2>1. UNCHANGED <<holder, waiters, pc>> /\ Switches'
        BY <1>7 DEF vars, lock, control, QInv, Switches
    <2> QED BY <2>1, AsideLock
<1> QED BY <1>1, <1>2, <1>3, <1>4, <1>5, <1>6, <1>7 DEF Next

LEMMA NextQInv == QInv /\ [Next]_vars => QInv'
<1> SUFFICES ASSUME QInv, [Next]_vars PROVE QInv'
    OBVIOUS
<1>1. IInv'
    BY NextInv DEF QInv
<1>2. Queue' /\ Held' /\ Switches'
    BY NextLock DEF LockStep
<1> QED BY <1>1, <1>2 DEF QInv

(* The state is well-typed in every run: the queue of the lock with it,    *)
(* which a cancelled waiter may leave at any place (Stop).                 *)
THEOREM TypeCorrect == Spec => []TypeOK
<1>1. QInv => TypeOK
    BY DEF QInv, IInv, Types, Switches, Queue, Held, TypeOK
<1> QED BY <1>1, InitQInv, NextQInv, PTL DEF Spec

(* What an answer to a request rests on: a lock that is taken is held by a *)
(* task in its cycle, and one at a time; who waits is queued, once; and    *)
(* when the lock is free the head of the queue is somebody that waits for  *)
(* it. However the loop is cancelled, no holder and no place is orphaned.  *)
LockServes ==
    /\ \A t \in Tasks : InCycle(t) <=> holder = t
    /\ \A t \in Tasks : pc[t] = "waiting" =>
          \E i \in 1 .. Len(waiters) :
             \A j \in 1 .. Len(waiters) : waiters[j] = t <=> j = i
    /\ holder = Nobody /\ waiters # <<>> =>
          Head(waiters) \in Tasks /\ pc[Head(waiters)] = "waiting"

(* The lock of the runner is always in order, and whoever is next for it   *)
(* is really there to take it (run_once, stop).                            *)
THEOREM LockIsServed == Spec => []LockServes
<1>1. ASSUME QInv PROVE LockServes
    <2>1. waiters \in Seq(Tasks) /\ Nobody \notin Tasks
        BY <1>1, HypothesisAssumption DEF QInv, Queue, Nobody, Tasks
    <2>2. ASSUME NEW t \in Tasks PROVE InCycle(t) <=> holder = t
        BY <1>1, <2>1 DEF QInv, Held, IInv, LockHeld
    <2>3. ASSUME NEW t \in Tasks, pc[t] = "waiting"
          PROVE  \E i \in 1 .. Len(waiters) :
                    \A j \in 1 .. Len(waiters) : waiters[j] = t <=> j = i
        BY <1>1, <2>3 DEF QInv, Queue
    <2>4. ASSUME waiters # <<>>
          PROVE  Head(waiters) \in Tasks /\ pc[Head(waiters)] = "waiting"
        <3>1. 1 \in 1 .. Len(waiters) /\ Head(waiters) = waiters[1]
            BY <2>1, <2>4
        <3> QED BY <1>1, <2>1, <3>1 DEF QInv, Queue
    <2> QED BY <2>2, <2>3, <2>4 DEF LockServes
<1> QED BY <1>1, InitQInv, NextQInv, PTL DEF Spec

(* The lock is fair: nobody is put behind a request that came later        *)
(* (asyncio.Lock's queue), whoever gives up before him.                    *)
THEOREM NobodyOvertakes == Spec => [][NoneGoesBack]_vars
<1>1. QInv /\ [Next]_vars => [NoneGoesBack]_vars
    BY NextLock DEF LockStep
<1> QED BY <1>1, InitQInv, NextQInv, PTL DEF Spec


(* Whatever a cycle measures between its snapshots is its own doing or the *)
(* World's: no other cycle touches the World then (run_once, under _lock). *)
THEOREM ExperimentsDoNotMix == Spec => []DeltasAreOwn
<1>1. IInv => DeltasAreOwn
    BY DEF IInv
<1> QED BY <1>1, InitInv, NextInv, PTL DEF Spec

(* A tick span never claims more days than the World went forward, resets  *)
(* and late ticks included (max(0, post_day - pre_day)).                   *)
THEOREM SpansAreReal == Spec => []SpanIsReal
<1>1. IInv => SpanIsReal
    BY DEF IInv
<1> QED BY <1>1, InitInv, NextInv, PTL DEF Spec

(* The loop begins an experiment only if it was armed when it took the     *)
(* lock (the check at the head of run_once).                               *)
THEOREM LoopBeginsArmed == Spec => BegunArmed
<1>1. IInv /\ [Next]_vars => [Perturb("loop") => enteredArmed["loop"]]_vars
    BY DEF IInv, SetOutArmed, Perturb
<1> QED BY <1>1, InitInv, NextInv, PTL DEF Spec, BegunArmed
=============================================================================

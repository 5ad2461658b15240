-------------------------- MODULE SentinelProofs --------------------------
(* Machine-checked facts about the risk governor, for every threshold,     *)
(* cooldown, equity set and directive set.                                 *)
EXTENDS Sentinel, Sequences, TLAPS

(* Every method of the breaker returns a breaker.                          *)
LEMMA BreakerType ==
    ASSUME NEW b \in Breakers
    PROVE  /\ Trip(b) \in Breakers
           /\ Observe(b) \in Breakers
           /\ RecordSuccess(b) \in Breakers
           /\ RecordFailure(b) \in Breakers
           /\ Cool(b) \in Breakers
<1> USE BreakerAssumption DEF BreakerAssumption
<1>1. ASSUME NEW c \in Breakers PROVE Trip(c) \in Breakers
    <2>1. CASE c.raw = "OPEN"
        BY <2>1 DEF Trip
    <2>2. CASE c.raw # "OPEN"
        BY <2>2 DEF Trip, Breakers
    <2> QED
        BY <2>1, <2>2
<1>2. Observe(b) \in Breakers
    BY DEF Observe, Breakers
<1>4. RecordSuccess(b) \in Breakers
    BY DEF RecordSuccess, Breakers
<1>5. Cool(b) \in Breakers
    BY DEF Cool, Breakers
<1>3. RecordFailure(b) \in Breakers
    <2> DEFINE n == IF b.fails < FailureThreshold THEN b.fails + 1 ELSE b.fails
               more == [b EXCEPT !.fails = n]
    <2>1. more \in Breakers
        BY DEF Breakers
    <2>2. Trip(more) \in Breakers
        BY <1>1, <2>1
    <2> QED
        BY <2>1, <2>2 DEF RecordFailure
<1> QED
    BY <1>1, <1>2, <1>3, <1>4, <1>5

(* _clamp_threshold keeps the limit inside its envelope.                   *)
LEMMA ClampInEnvelope ==
    ASSUME NEW v \in Int
    PROVE  Clamp(v) \in Floor .. BaseDrawdown /\ BaseDrawdown \in Floor .. BaseDrawdown
BY SentinelAssumption DEF Clamp, Floor, Larger, Smaller

LEMMA ModeType ==
    ASSUME NEW b \in Breakers, NEW f \in BOOLEAN, NEW s \in BOOLEAN
    PROVE  ModeOf(b, f, s) \in Modes
BY DEF ModeOf, Modes

LEMMA EventType ==
    ASSUME NEW m \in Modes, NEW c \in BOOLEAN
    PROVE  Status(m, c) \in Events /\ Emergency("REDUCE_ONLY", m) \in Events
<1>1. Status(m, c) \in {Status(x, y) : x \in Modes, y \in BOOLEAN}
    OBVIOUS
<1>2. Emergency("REDUCE_ONLY", m)
      \in {Emergency(a, x) : a \in {"FREEZE", "REDUCE_ONLY"}, x \in Modes}
    OBVIOUS
<1> QED
    BY <1>1, <1>2 DEF Events

(* The governor's own effect, shared by fills and tickers.                 *)
LEMMA GovernType ==
    ASSUME TypeOK, NEW b \in Breakers, NEW e \in Equities, RevalueAndGovern(b, e)
    PROVE  /\ equity' \in Equities /\ peak' \in Equities
           /\ br' \in Breakers
           /\ riskFrozen' \in BOOLEAN /\ riskLeft' \in 0 .. Cooldown
           /\ outbox' \subseteq Events
<1> USE BreakerAssumption, SentinelAssumption DEF BreakerAssumption, SentinelAssumption
<1>1. equity' \in Equities /\ peak' \in Equities
    BY DEF RevalueAndGovern, TypeOK, Larger
<1>2. br' \in Breakers
    BY BreakerType DEF RevalueAndGovern
<1>3. riskFrozen' \in BOOLEAN /\ riskLeft' \in 0 .. Cooldown
    BY DEF RevalueAndGovern, TypeOK
<1>4. outbox' \subseteq Events
    BY DEF RevalueAndGovern, Transition, Events, Modes
<1> QED
    BY <1>1, <1>2, <1>3, <1>4

-----------------------------------------------------------------------------
(* TypeOK, the clamp envelope included, holds in every reachable state.    *)
LEMMA InitType == Init => TypeOK
<1> SUFFICES ASSUME Init PROVE TypeOK
    OBVIOUS
<1> USE BreakerAssumption, SentinelAssumption DEF BreakerAssumption, SentinelAssumption
<1>1. NewBreaker \in Breakers
    BY DEF NewBreaker, Breakers
<1>2. BaseDrawdown \in Floor .. BaseDrawdown
    BY ClampInEnvelope
<1>3. br \in Breakers /\ maxDd \in Floor .. BaseDrawdown
    BY <1>1, <1>2 DEF Init
<1>4. riskLeft \in 0 .. Cooldown /\ equity \in Equities /\ peak \in Equities
    BY DEF Init
<1> QED
    BY <1>3, <1>4 DEF Init, TypeOK

LEMMA NextType == TypeOK /\ [Next]_vars => TypeOK'
<1> SUFFICES ASSUME TypeOK, [Next]_vars PROVE TypeOK'
    OBVIOUS
<1> USE BreakerAssumption, SentinelAssumption DEF BreakerAssumption, SentinelAssumption
<1>1. CASE OnFill
    <2>1. PICK e \in Equities : RevalueAndGovern(br, e)
        BY <1>1 DEF OnFill
    <2> QED
        BY <1>1, <2>1, GovernType DEF OnFill, TypeOK
<1>2. CASE OnTicker
    <2>1. PICK b \in {br, RecordSuccess(br), RecordFailure(br)},
               e \in (IF holding THEN Equities ELSE {equity}) : RevalueAndGovern(b, e)
        BY <1>2 DEF OnTicker
    <2>2. b \in Breakers /\ e \in Equities
        BY BreakerType DEF TypeOK
    <2> QED
        BY <1>2, <2>1, <2>2, GovernType DEF OnTicker, TypeOK
<1>3. CASE OnCapitalSync
    BY <1>3 DEF OnCapitalSync, TypeOK, freeze
<1>4. CASE OnWalletSync
    BY <1>4 DEF OnWalletSync, TypeOK, freeze, Larger
<1>5. CASE OnRiskDirective
    <2>1. maxDd' \in Floor .. BaseDrawdown
        BY <1>5, ClampInEnvelope DEF OnRiskDirective, TypeOK
    <2> QED
        BY <1>5, <2>1 DEF OnRiskDirective, TypeOK, freeze, book
<1>6. CASE RunCycle
    <2>1. br' \in Breakers
        BY <1>6, BreakerType DEF RunCycle, TypeOK
    <2>2. /\ peak' \in Equities
          /\ riskFrozen' \in BOOLEAN
          /\ softBreach' \in BOOLEAN
        BY <1>6 DEF RunCycle, TypeOK
    <2>3. /\ ModeOf(br, riskFrozen', softBreach') \in Modes
          /\ ModeOf(br, riskFrozen, TRUE) \in Modes
          /\ Breach(peak', equity, maxDd) \in BOOLEAN
        BY <2>2, ModeType DEF TypeOK, Breach
    <2>4. /\ Status(ModeOf(br, riskFrozen', softBreach'), Breach(peak', equity, maxDd)) \in Events
          /\ Emergency("REDUCE_ONLY", ModeOf(br, riskFrozen, TRUE)) \in Events
        BY <2>3, EventType
    <2>5. outbox' \subseteq Events
        BY <1>6, <2>4 DEF RunCycle
    <2> QED
        BY <1>6, <2>1, <2>2, <2>5 DEF RunCycle, TypeOK
<1>7. CASE ReadStatus
    BY <1>7, BreakerType DEF ReadStatus, TypeOK, freeze, book
<1>8. CASE OperatorReset
    BY <1>8 DEF OperatorReset, TypeOK
<1>9. CASE SetPaused
    BY <1>9 DEF SetPaused, TypeOK, freeze, book
<1>10. CASE Tick
    BY <1>10, BreakerType DEF Tick, TypeOK, book
<1>11. CASE UNCHANGED vars
    BY <1>11 DEF vars, TypeOK
<1> QED
    BY <1>1, <1>2, <1>3, <1>4, <1>5, <1>6, <1>7, <1>8, <1>9, <1>10, <1>11 DEF Next

THEOREM TypeCorrect == Spec => []TypeOK
BY InitType, NextType, PTL DEF Spec

-----------------------------------------------------------------------------
(* How the breaker's guarantee moves: a method keeps it or renews it.      *)
LEMMA HoldOfMethods ==
    ASSUME NEW b \in Breakers
    PROVE  /\ BreakerHold(b) \in 0 .. Cooldown
           /\ BreakerHold(Observe(b)) = BreakerHold(b)
           /\ BreakerHold(RecordSuccess(b)) = BreakerHold(b)
           /\ BreakerHold(RecordFailure(b)) \in {BreakerHold(b), Cooldown}
           /\ BreakerHold(Trip(b)) \in {BreakerHold(b), Cooldown}
           /\ BreakerHold(Cool(b)) = IF BreakerHold(b) > 0 THEN BreakerHold(b) - 1 ELSE 0
<1> USE BreakerAssumption DEF BreakerAssumption
<1>1. BreakerHold(b) \in 0 .. Cooldown
    BY DEF BreakerHold, Breakers
<1>2. BreakerHold(Observe(b)) = BreakerHold(b)
    BY DEF BreakerHold, Observe, Breakers
<1>3. BreakerHold(RecordSuccess(b)) = BreakerHold(b)
    BY DEF BreakerHold, RecordSuccess, Breakers
<1>4. ASSUME NEW c \in Breakers
      PROVE  BreakerHold(Trip(c)) \in {BreakerHold(c), Cooldown}
    BY DEF BreakerHold, Trip, Breakers
<1>5. BreakerHold(RecordFailure(b)) \in {BreakerHold(b), Cooldown}
    <2> DEFINE n == IF b.fails < FailureThreshold THEN b.fails + 1 ELSE b.fails
               more == [b EXCEPT !.fails = n]
    <2>1. more \in Breakers /\ BreakerHold(more) = BreakerHold(b)
        BY DEF Breakers, BreakerHold
    <2> QED
        BY <1>4, <2>1 DEF RecordFailure
<1>6. BreakerHold(Cool(b)) = IF BreakerHold(b) > 0 THEN BreakerHold(b) - 1 ELSE 0
    BY DEF BreakerHold, Cool, Breakers
<1> QED
    BY <1>1, <1>2, <1>3, <1>4, <1>5, <1>6

(* A reader sees FROZEN exactly while the breaker's guarantee runs or the  *)
(* drawdown freeze is set.                                                 *)
LEMMA FrozenWhen ==
    ASSUME NEW b \in Breakers, NEW f \in BOOLEAN, NEW s \in BOOLEAN
    PROVE  ModeOf(b, f, s) = "FROZEN" <=> (BreakerHold(b) > 0 \/ f)
BY BreakerAssumption DEF BreakerAssumption, ModeOf, Observe, BreakerHold, Breakers

-----------------------------------------------------------------------------
(* One step of the governor against the contract: the guarantee and the    *)
(* frozen-ness of the mode move together.                                  *)
LEMMA GovernHonours ==
    ASSUME TypeOK, NEW b \in Breakers, NEW e \in Equities,
           BreakerHold(b) \in {BreakerHold(br), Cooldown},
           RevalueAndGovern(b, e), UNCHANGED <<softBreach, operator>>
    PROVE  [Contract!Step]_<<Mode, Hold, operator>>
<1> USE BreakerAssumption DEF BreakerAssumption
<1>1. /\ br' \in Breakers
      /\ riskFrozen' \in BOOLEAN
      /\ riskLeft' \in 0 .. Cooldown
    BY GovernType
<1>2. /\ BreakerHold(br) \in 0 .. Cooldown
      /\ BreakerHold(br') \in {BreakerHold(br), Cooldown}
    BY HoldOfMethods DEF RevalueAndGovern, TypeOK
<1>3. /\ Mode = "FROZEN" <=> (BreakerHold(br) > 0 \/ riskFrozen)
      /\ Mode' = "FROZEN" <=> (BreakerHold(br') > 0 \/ riskFrozen')
    BY <1>1, FrozenWhen DEF Mode, TypeOK
<1>4. CASE BreakerHold(br') = Cooldown \/ (riskFrozen' /\ riskLeft' = Cooldown)
    <2>1. Hold' = Cooldown /\ Mode' = "FROZEN"
        BY <1>1, <1>2, <1>3, <1>4 DEF Hold, RiskHold, Larger
    <2> QED
        BY <2>1 DEF Contract!Step, Contract!Halt
<1>5. CASE /\ BreakerHold(br') = BreakerHold(br)
           /\ riskFrozen' = riskFrozen /\ riskLeft' = riskLeft
    <2>1. Hold' = Hold /\ (Mode' = "FROZEN" <=> Mode = "FROZEN")
        BY <1>3, <1>5 DEF Hold, RiskHold
    <2>2. CASE Hold = 0
        BY <2>1, <2>2 DEF Contract!Step, Contract!Settle, Contract!Quiet
    <2>3. CASE Hold # 0
        <3>1. Mode = "FROZEN"
            BY <1>2, <1>3, <2>3 DEF Hold, RiskHold, Larger, TypeOK
        <3> QED
            BY <2>1, <3>1
    <2> QED
        BY <2>2, <2>3
<1> QED
    BY <1>2, <1>4, <1>5 DEF RevalueAndGovern, TypeOK

(* Every step of the governor is a step of the contract, or none.          *)
LEMMA StepHonours == TypeOK /\ [Next]_vars => [Contract!Step]_<<Mode, Hold, operator>>
<1> SUFFICES ASSUME TypeOK, [Next]_vars PROVE [Contract!Step]_<<Mode, Hold, operator>>
    OBVIOUS
<1> USE BreakerAssumption DEF BreakerAssumption
<1>0. TypeOK'
    BY NextType
<1>a. /\ Mode = "FROZEN" <=> (BreakerHold(br) > 0 \/ riskFrozen)
      /\ Mode' = "FROZEN" <=> (BreakerHold(br') > 0 \/ riskFrozen')
    BY <1>0, FrozenWhen DEF Mode, TypeOK
<1>b. BreakerHold(br) \in 0 .. Cooldown /\ riskLeft \in 0 .. Cooldown
    BY HoldOfMethods DEF TypeOK
<1>c. Hold \in 0 .. Cooldown /\ (Hold > 0 => Mode = "FROZEN")
    BY <1>a, <1>b DEF Hold, RiskHold, Larger, TypeOK
<1>1. CASE OnFill
    <2>1. PICK e \in Equities : RevalueAndGovern(br, e)
        BY <1>1 DEF OnFill
    <2> QED
        BY <1>1, <2>1, GovernHonours DEF OnFill, TypeOK
<1>2. CASE OnTicker
    <2>1. PICK b \in {br, RecordSuccess(br), RecordFailure(br)},
               e \in (IF holding THEN Equities ELSE {equity}) : RevalueAndGovern(b, e)
        BY <1>2 DEF OnTicker
    <2>2. b \in Breakers /\ e \in Equities
        BY BreakerType DEF TypeOK
    <2>3. BreakerHold(b) \in {BreakerHold(br), Cooldown}
        BY HoldOfMethods DEF TypeOK
    <2> QED
        BY <1>2, <2>1, <2>2, <2>3, GovernHonours DEF OnTicker
<1>3. CASE OnCapitalSync \/ OnWalletSync \/ OnRiskDirective \/ SetPaused \/ UNCHANGED vars
    <2>1. UNCHANGED <<br, riskFrozen, riskLeft, softBreach, operator>>
        BY <1>3 DEF OnCapitalSync, OnWalletSync, OnRiskDirective, SetPaused, freeze, vars
    <2> QED
        BY <2>1 DEF Mode, Hold, RiskHold
<1>4. CASE RunCycle
    <2>1. BreakerHold(br') = BreakerHold(br)
        BY <1>4, HoldOfMethods DEF RunCycle, TypeOK
    <2>2. RiskHold' = RiskHold /\ (riskFrozen' => riskFrozen)
        BY <1>4 DEF RunCycle, RiskHold, TypeOK
    <2>3. Hold' = Hold /\ (Mode' = "FROZEN" => Mode = "FROZEN")
        BY <1>a, <2>1, <2>2 DEF Hold
    <2>4. Hold > 0 => Mode' = "FROZEN"
        BY <1>a, <1>b, <2>1, <1>4 DEF Hold, RiskHold, Larger, RunCycle, TypeOK
    <2>5. UNCHANGED operator
        BY <1>4 DEF RunCycle
    <2> QED
        BY <1>c, <2>3, <2>4, <2>5 DEF Contract!Step, Contract!Settle, Contract!Quiet
<1>5. CASE ReadStatus
    <2>1. BreakerHold(br') = BreakerHold(br) /\ UNCHANGED <<riskFrozen, riskLeft, operator>>
        BY <1>5, HoldOfMethods DEF ReadStatus, TypeOK, freeze
    <2>2. Hold' = Hold /\ (Mode' = "FROZEN" <=> Mode = "FROZEN")
        BY <1>a, <2>1 DEF Hold, RiskHold
    <2> QED
        BY <1>c, <2>1, <2>2 DEF Contract!Step, Contract!Settle, Contract!Quiet
<1>6. CASE OperatorReset
    <2>1. br' = br /\ riskFrozen' = FALSE /\ operator' = ~operator
        BY <1>6 DEF OperatorReset
    <2>2. Hold' = BreakerHold(br)
        BY <2>1, <1>b DEF Hold, RiskHold, Larger
    <2>3. Hold' \in 0 .. Hold
        BY <1>b, <2>2 DEF Hold, RiskHold, Larger
    <2>4. /\ Mode' = "FROZEN" => Mode = "FROZEN"
          /\ Mode' # "FROZEN" => Hold' = 0
        BY <1>a, <1>b, <2>1, <2>2
    <2> QED
        BY <2>1, <2>3, <2>4 DEF Contract!Step, Contract!Rearm, Contract!Quiet, TypeOK
<1>7. CASE Tick
    <2>1. /\ BreakerHold(br') = IF BreakerHold(br) > 0 THEN BreakerHold(br) - 1 ELSE 0
          /\ RiskHold' = IF RiskHold > 0 THEN RiskHold - 1 ELSE 0
          /\ UNCHANGED <<riskFrozen, operator>>
        BY <1>7, <1>b, HoldOfMethods DEF Tick, RiskHold, TypeOK
    <2>2. Hold' = IF Hold > 0 THEN Hold - 1 ELSE 0
        BY <1>b, <2>1 DEF Hold, RiskHold, Larger
    <2>3. /\ Mode' = "FROZEN" => Mode = "FROZEN"
          /\ Mode' # "FROZEN" => Hold' = 0
        BY <1>0, <1>a, <1>b, <2>1 DEF Hold, RiskHold, Larger, TypeOK
    <2>4. CASE Hold > 0
        BY <2>1, <2>2, <2>3, <2>4 DEF Contract!Step, Contract!Elapse, Contract!Quiet
    <2>5. CASE Hold = 0
        BY <2>1, <2>2, <2>3, <2>5 DEF Contract!Step, Contract!Settle, Contract!Quiet
    <2> QED
        BY <1>c, <2>4, <2>5
<1> QED
    BY <1>1, <1>2, <1>3, <1>4, <1>5, <1>6, <1>7 DEF Next

(* The governor implements the freeze contract: a hard freeze lasts its    *)
(* full cooldown unless the operator re-arms.                              *)
THEOREM FreezeServed == Spec => HonoursContract
<1>1. Init => Contract!Start
    <2> SUFFICES ASSUME Init PROVE Contract!Start
        OBVIOUS
    <2>1. Mode = "NORMAL"
        BY DEF Init, Mode, ModeOf, Observe, NewBreaker
    <2>2. Hold = 0
        BY DEF Init, Hold, RiskHold, BreakerHold, Larger, NewBreaker
    <2> QED
        BY <2>1, <2>2 DEF Init, Contract!Start
<1>2. TypeOK /\ [Next]_vars => [Contract!Step]_<<Mode, Hold, operator>>
    BY StepHonours
<1> QED
    BY <1>1, <1>2, TypeCorrect, PTL DEF Spec, HonoursContract, Contract!Spec

-----------------------------------------------------------------------------
(* A method that opens the breaker starts a full cooldown.                 *)
OpensFull(b, c) == c.raw = "OPEN" /\ b.raw # "OPEN" => c.cool = Cooldown

LEMMA MethodsOpenFull ==
    ASSUME NEW b \in Breakers
    PROVE  /\ OpensFull(b, b)
           /\ OpensFull(b, Trip(b))
           /\ OpensFull(b, RecordSuccess(b))
           /\ OpensFull(b, RecordFailure(b))
<1>1. OpensFull(b, b)
    BY DEF OpensFull
<1>2. ASSUME NEW c \in Breakers PROVE OpensFull(c, Trip(c))
    BY DEF OpensFull, Trip
<1>3. OpensFull(b, RecordSuccess(b))
    BY DEF OpensFull, RecordSuccess, Breakers
<1>4. OpensFull(b, RecordFailure(b))
    <2> DEFINE n == IF b.fails < FailureThreshold THEN b.fails + 1 ELSE b.fails
               more == [b EXCEPT !.fails = n]
    <2>1. more \in Breakers
        BY BreakerAssumption DEF BreakerAssumption, Breakers
    <2>2. more.raw = b.raw
        BY DEF Breakers
    <2>3. OpensFull(more, Trip(more))
        BY <1>2, <2>1
    <2> QED
        BY <2>2, <2>3 DEF RecordFailure, OpensFull
<1> QED
    BY <1>1, <1>2, <1>3, <1>4

(* What the governor publishes is true.                                    *)
LEMMA GovernIsTrue ==
    ASSUME TypeOK, NEW b \in Breakers, NEW e \in Equities,
           OpensFull(br, b), RevalueAndGovern(b, e), softBreach' \in BOOLEAN
    PROVE  EmergencyIsTrue'
<1> USE BreakerAssumption DEF BreakerAssumption
<1>1. br' \in Breakers /\ riskFrozen' \in BOOLEAN /\ riskLeft' \in 0 .. Cooldown
    BY GovernType
<1>2. CASE br'.raw = "OPEN" /\ br.raw # "OPEN"
    <2>1. br'.cool = Cooldown
        <3>1. br' = b \/ br' = Trip(b)
            BY DEF RevalueAndGovern
        <3>2. CASE b.raw = "OPEN"
            BY <1>2, <3>1, <3>2 DEF Trip, OpensFull
        <3>3. CASE b.raw # "OPEN"
            BY <1>2, <3>1, <3>3, MethodsOpenFull DEF OpensFull
        <3> QED
            BY <3>2, <3>3
    <2>2. BreakerHold(br') = Cooldown
        BY <1>2, <2>1 DEF BreakerHold
    <2>3. Hold' = Cooldown
        BY <1>1, <2>2 DEF Hold, RiskHold, Larger
    <2>4. Mode' = "FROZEN"
        BY <1>1, <2>2, FrozenWhen DEF Mode
    <2>5. outbox' = {Emergency("FREEZE", "FROZEN")}
        BY <1>2 DEF RevalueAndGovern, Transition
    <2> QED
        BY <2>3, <2>4, <2>5 DEF EmergencyIsTrue, Emergency
<1>3. CASE ~(br'.raw = "OPEN" /\ br.raw # "OPEN")
    BY <1>3 DEF RevalueAndGovern, Transition, EmergencyIsTrue
<1> QED
    BY <1>2, <1>3

LEMMA StepIsTrue ==
    ASSUME TypeOK, Next
    PROVE  EmergencyIsTrue'
<1>1. CASE OnFill
    <2>1. PICK e \in Equities : RevalueAndGovern(br, e)
        BY <1>1 DEF OnFill
    <2> QED
        BY <1>1, <2>1, MethodsOpenFull, GovernIsTrue DEF OnFill, TypeOK
<1>2. CASE OnTicker
    <2>1. PICK b \in {br, RecordSuccess(br), RecordFailure(br)},
               e \in (IF holding THEN Equities ELSE {equity}) : RevalueAndGovern(b, e)
        BY <1>2 DEF OnTicker
    <2>2. b \in Breakers /\ e \in Equities /\ OpensFull(br, b)
        BY BreakerType, MethodsOpenFull DEF TypeOK
    <2> QED
        BY <1>2, <2>1, <2>2, GovernIsTrue DEF OnTicker, TypeOK
<1>3. CASE RunCycle
    <2>1. ModeOf(br, riskFrozen, TRUE) # "NORMAL"
        BY DEF ModeOf
    <2> DEFINE told == Status(ModeOf(br, riskFrozen', softBreach'),
                              Breach(peak', equity, maxDd))
               soft == Emergency("REDUCE_ONLY", ModeOf(br, riskFrozen, TRUE))
    <2>2. outbox' \subseteq {told, soft}
        BY <1>3 DEF RunCycle
    <2>3. told.topic = "sentinel.status"
        BY DEF Status
    <2>4. soft.action = "REDUCE_ONLY" /\ soft.mode # "NORMAL"
        BY <2>1 DEF Emergency
    <2> HIDE DEF told, soft
    <2> QED
        BY <2>2, <2>3, <2>4 DEF EmergencyIsTrue
<1>4. CASE OnCapitalSync \/ OnWalletSync \/ OnRiskDirective \/ ReadStatus
           \/ OperatorReset \/ SetPaused \/ Tick
    <2>1. outbox' = {}
        BY <1>4 DEF OnCapitalSync, OnWalletSync, OnRiskDirective, ReadStatus,
                    OperatorReset, SetPaused, Tick
    <2> QED
        BY <2>1 DEF EmergencyIsTrue
<1> QED
    BY <1>1, <1>2, <1>3, <1>4 DEF Next

(* A FREEZE emergency always means a full cooldown of FROZEN, a REDUCE_ONLY*)
(* emergency never announces NORMAL.                                       *)
THEOREM EmergenciesAreTrue == Spec => []EmergencyIsTrue
<1>1. Init => EmergencyIsTrue
    BY DEF Init, EmergencyIsTrue
<1>2. EmergencyIsTrue /\ TypeOK /\ [Next]_vars => EmergencyIsTrue'
    <2>1. ASSUME EmergencyIsTrue, UNCHANGED vars PROVE EmergencyIsTrue'
        BY <2>1 DEF vars, EmergencyIsTrue, Mode, Hold, RiskHold
    <2> QED
        BY <2>1, StepIsTrue
<1> QED
    BY <1>1, <1>2, TypeCorrect, PTL DEF Spec
-----------------------------------------------------------------------------
(* A method leaves the deadline of a breaker that is already open alone.   *)
KeepsDeadline(b, c) == b.raw = "OPEN" => c.cool = b.cool

LEMMA MethodsKeepDeadline ==
    ASSUME NEW b \in Breakers
    PROVE  /\ KeepsDeadline(b, b)
           /\ KeepsDeadline(b, RecordSuccess(b))
           /\ KeepsDeadline(b, RecordFailure(b))
<1>1. KeepsDeadline(b, b) /\ KeepsDeadline(b, RecordSuccess(b))
    BY DEF KeepsDeadline, RecordSuccess
<1>2. KeepsDeadline(b, RecordFailure(b))
    <2> DEFINE n == IF b.fails < FailureThreshold THEN b.fails + 1 ELSE b.fails
               more == [b EXCEPT !.fails = n]
    <2>1. more.raw = b.raw /\ more.cool = b.cool
        BY DEF Breakers
    <2>2. b.raw = "OPEN" => Trip(more) = more
        BY <2>1 DEF Trip
    <2> QED
        BY <2>1, <2>2 DEF RecordFailure, KeepsDeadline
<1> QED
    BY <1>1, <1>2

(* A freeze is announced as it begins, or it is the drawdown freeze of a   *)
(* breaker that still says OPEN although its cooldown is over: then _set   *)
(* returns before the hook.                                                *)
AnnouncedUnlessStale ==
    Mode # "FROZEN" /\ Mode' = "FROZEN" =>
        \/ Emergency("FREEZE", "FROZEN") \in outbox'
        \/ riskFrozen' /\ br.raw = "OPEN" /\ br.cool = 0

LEMMA GovernAnnounces ==
    ASSUME TypeOK, NEW b \in Breakers, NEW e \in Equities,
           KeepsDeadline(br, b), RevalueAndGovern(b, e), softBreach' \in BOOLEAN
    PROVE  AnnouncedUnlessStale
<1> USE BreakerAssumption DEF BreakerAssumption
<1> SUFFICES ASSUME Mode # "FROZEN", Mode' = "FROZEN"
             PROVE  \/ Emergency("FREEZE", "FROZEN") \in outbox'
                    \/ riskFrozen' /\ br.raw = "OPEN" /\ br.cool = 0
    BY DEF AnnouncedUnlessStale
<1>1. br' \in Breakers /\ riskFrozen' \in BOOLEAN
    BY GovernType
<1>2. /\ ~riskFrozen /\ ~(BreakerHold(br) > 0)
      /\ riskFrozen' \/ BreakerHold(br') > 0
    BY <1>1, FrozenWhen DEF Mode, TypeOK
<1>3. CASE riskFrozen'
    <2>1. br' = Trip(b)
        BY <1>2, <1>3 DEF RevalueAndGovern
    <2>2. br'.raw = "OPEN"
        BY <2>1 DEF Trip
    <2>3. CASE br.raw = "OPEN"
        BY <1>2, <1>3, <2>3 DEF BreakerHold, Breakers, TypeOK
    <2>4. CASE br.raw # "OPEN"
        BY <2>2, <2>4 DEF RevalueAndGovern, Transition
    <2> QED
        BY <2>3, <2>4
<1>4. CASE ~riskFrozen'
    <2>1. br' = b
        BY <1>2, <1>4 DEF RevalueAndGovern
    <2>2. b.raw = "OPEN" /\ b.cool > 0
        BY <1>2, <1>4, <2>1 DEF BreakerHold
    <2>3. br.raw # "OPEN"
        BY <1>2, <2>2 DEF BreakerHold, KeepsDeadline
    <2> QED
        BY <2>1, <2>2, <2>3 DEF RevalueAndGovern, Transition
<1> QED
    BY <1>3, <1>4

LEMMA StepAnnounces == TypeOK /\ [Next]_vars => AnnouncedUnlessStale
<1> SUFFICES ASSUME TypeOK, [Next]_vars PROVE AnnouncedUnlessStale
    OBVIOUS
<1>0. TypeOK'
    BY NextType
<1>1. CASE OnFill
    <2>1. PICK e \in Equities : RevalueAndGovern(br, e)
        BY <1>1 DEF OnFill
    <2> QED
        BY <1>0, <2>1, MethodsKeepDeadline, GovernAnnounces DEF TypeOK
<1>2. CASE OnTicker
    <2>1. PICK b \in {br, RecordSuccess(br), RecordFailure(br)},
               e \in (IF holding THEN Equities ELSE {equity}) : RevalueAndGovern(b, e)
        BY <1>2 DEF OnTicker
    <2>2. b \in Breakers /\ e \in Equities /\ KeepsDeadline(br, b)
        BY BreakerType, MethodsKeepDeadline DEF TypeOK
    <2> QED
        BY <1>0, <2>1, <2>2, GovernAnnounces DEF TypeOK
<1>3. CASE OnCapitalSync \/ OnWalletSync \/ OnRiskDirective \/ SetPaused \/ RunCycle
           \/ ReadStatus \/ OperatorReset \/ Tick \/ UNCHANGED vars
    <2>1. riskFrozen' => riskFrozen
        BY <1>3 DEF OnCapitalSync, OnWalletSync, OnRiskDirective, SetPaused, RunCycle,
                    ReadStatus, OperatorReset, Tick, freeze, vars
    <2>2. br' \in {br, Observe(br), Cool(br)}
        BY <1>3 DEF OnCapitalSync, OnWalletSync, OnRiskDirective, SetPaused, RunCycle,
                    ReadStatus, OperatorReset, Tick, vars
    <2>3. BreakerHold(br) \in 0 .. Cooldown /\ (BreakerHold(br') > 0 => BreakerHold(br) > 0)
        BY <2>2, HoldOfMethods DEF TypeOK
    <2>4. Mode' = "FROZEN" => Mode = "FROZEN"
        BY <1>0, <2>1, <2>3, FrozenWhen DEF Mode, TypeOK
    <2> QED
        BY <2>4 DEF AnnouncedUnlessStale
<1> QED
    BY <1>1, <1>2, <1>3 DEF Next

(* The one way FreezeIsAnnounced fails in the code: every other freeze of  *)
(* trading is announced by the step that begins it.                        *)
THEOREM FreezesAreAnnounced == Spec => [][AnnouncedUnlessStale]_vars
BY StepAnnounces, TypeCorrect, PTL DEF Spec

-----------------------------------------------------------------------------
(* A drawdown freeze runs out: nothing renews it while it is set, a tick   *)
(* of the clock brings its end nearer, and once the cooldown is over the   *)
(* next cycle of the status loop lifts it; it always begins with a whole   *)
(* cooldown.                                                               *)
RunsOut ==
    /\ riskFrozen /\ riskFrozen' => riskLeft' <= riskLeft
    /\ riskFrozen /\ riskLeft > 0 /\ Tick => riskLeft' < riskLeft
    /\ riskFrozen /\ riskLeft = 0 /\ RunCycle => ~riskFrozen'
    /\ ~riskFrozen /\ riskFrozen' => riskLeft' = Cooldown

LEMMA StepRunsOut == TypeOK /\ [Next]_vars => RunsOut
<1> SUFFICES ASSUME TypeOK, [Next]_vars PROVE RunsOut
    OBVIOUS
<1>0. riskFrozen \in BOOLEAN /\ riskLeft \in Int
    BY BreakerAssumption DEF BreakerAssumption, TypeOK
<1>1. riskFrozen /\ riskLeft > 0 /\ Tick => riskLeft' < riskLeft
    BY <1>0 DEF Tick
<1>2. riskFrozen /\ riskLeft = 0 /\ RunCycle => ~riskFrozen'
    BY DEF RunCycle
<1>3. CASE OnFill \/ OnTicker
    <2>1. PICK b, e : RevalueAndGovern(b, e)
        BY <1>3 DEF OnFill, OnTicker
    <2>2. /\ riskFrozen => riskLeft' = riskLeft
          /\ ~riskFrozen /\ riskFrozen' => riskLeft' = Cooldown
        BY <1>0, <2>1 DEF RevalueAndGovern
    <2> QED
        BY <1>0, <1>1, <1>2, <2>2 DEF RunsOut
<1>4. CASE OnCapitalSync \/ OnWalletSync \/ OnRiskDirective \/ SetPaused \/ RunCycle
           \/ ReadStatus \/ OperatorReset \/ Tick \/ UNCHANGED vars
    <2>1. riskFrozen' => riskFrozen
        BY <1>4 DEF OnCapitalSync, OnWalletSync, OnRiskDirective, SetPaused, RunCycle,
                    ReadStatus, OperatorReset, Tick, freeze, vars
    <2>2. riskLeft' = riskLeft \/ Tick
        BY <1>4 DEF OnCapitalSync, OnWalletSync, OnRiskDirective, SetPaused, RunCycle,
                    ReadStatus, OperatorReset, freeze, vars
    <2>3. Tick => riskLeft' <= riskLeft
        BY <1>0, BreakerAssumption DEF BreakerAssumption, Tick, TypeOK
    <2> QED
        BY <1>0, <1>1, <1>2, <2>1, <2>2, <2>3 DEF RunsOut
<1> QED
    BY <1>3, <1>4 DEF Next

(* The safety half of FreezeIsLifted: Cooldown ticks and one cycle of the  *)
(* status loop are all it takes, whatever else happens between them.       *)
THEOREM FreezesRunOut == Spec => [][RunsOut]_vars
BY StepRunsOut, TypeCorrect, PTL DEF Spec

-----------------------------------------------------------------------------
(* A breach of the drawdown limit that has frozen nothing.                 *)
Unseen == Breach(peak, equity, maxDd) /\ ~riskFrozen

(* Only a wallet sync or a directive can leave one, and the next fill or   *)
(* ticker answers it.                                                      *)
BreachIsAnswered ==
    /\ OnTicker \/ OnFill => ~Unseen'
    /\ ~Unseen /\ Unseen' => OnWalletSync \/ OnRiskDirective

LEMMA NoDrawdownNoBreach ==
    ASSUME NEW limit \in Nat \ {0}, NEW top \in Int
    PROVE  ~Breach(top, top, limit)
<1>1. top > 0 => limit * top > 0
    BY SMT
<1>2. (top - top) * 1000 = 0 /\ limit * top \in Int
    OBVIOUS
<1> QED
    BY <1>1, <1>2 DEF Breach

LEMMA StepAnswers ==
    ASSUME Floor > 0
    PROVE  TypeOK /\ [Next]_vars => BreachIsAnswered
<1> SUFFICES ASSUME TypeOK, [Next]_vars PROVE BreachIsAnswered
    OBVIOUS
<1>0. /\ maxDd \in Nat \ {0} /\ equity \in Int /\ riskFrozen \in BOOLEAN
      /\ TypeOK'
    BY NextType, SentinelAssumption DEF SentinelAssumption, TypeOK, Floor
<1>1. ASSUME OnTicker \/ OnFill PROVE ~Unseen'
    <2>1. PICK b, e : RevalueAndGovern(b, e)
        BY <1>1 DEF OnFill, OnTicker
    <2>2. maxDd' = maxDd /\ equity' = e
        BY <1>1, <2>1 DEF OnFill, OnTicker, RevalueAndGovern
    <2>3. riskFrozen' = (riskFrozen \/ (Breach(peak', equity', maxDd') /\ ~riskFrozen))
        BY <2>1, <2>2 DEF RevalueAndGovern
    <2> QED
        BY <1>0, <2>3 DEF Unseen, TypeOK
<1>2. ASSUME ~Unseen, Unseen', ~(OnWalletSync \/ OnRiskDirective) PROVE FALSE
    <2>1. maxDd' = maxDd
        BY <1>1, <1>2 DEF Next, OnCapitalSync, RunCycle, ReadStatus, OperatorReset,
                          SetPaused, Tick, vars
    <2>2. CASE peak' = equity'
        <3>1. ~Breach(peak', peak', maxDd)
            BY <1>0, <2>2, NoDrawdownNoBreach, SentinelAssumption DEF SentinelAssumption, TypeOK
        <3> QED
            BY <1>2, <2>1, <2>2, <3>1 DEF Unseen
    <2>3. CASE UNCHANGED <<peak, equity, riskFrozen>>
        BY <1>2, <2>1, <2>3 DEF Unseen
    <2>4. \/ peak' = equity'
          \/ UNCHANGED <<peak, equity, riskFrozen>>
        BY <1>0, <1>1, <1>2 DEF Next, OnCapitalSync, RunCycle, ReadStatus, OperatorReset,
                          SetPaused, Tick, vars, freeze, book
    <2> QED
        BY <2>2, <2>3, <2>4
<1> QED
    BY <1>1, <1>2 DEF BreachIsAnswered

(* The safety half of BreachIsCaught. Floor > 0 only keeps the rounding of *)
(* the model away: the code's 0.3 * baseline is never 0.                   *)
THEOREM BreachesAreAnswered ==
    ASSUME Floor > 0
    PROVE  Spec => [][BreachIsAnswered]_vars
BY StepAnswers, TypeCorrect, PTL DEF Spec

-----------------------------------------------------------------------------
(* The market feed calls the same breaker. MarketFeed models its callers on*)
(* the bus without the governor's book, and with the same pause; what is   *)
(* known of the breaker's methods holds there too.                         *)
CONSTANTS LatencyLimit, PostMax, Interval, MaxBackoff, MaxQueue
VARIABLES link, wait, backoff, connected, queue, post, quiet

Feed == INSTANCE MarketFeed

(* FeedAssumption: what MarketFeed assumes of its own constants.           *)
FeedBounds ==
    /\ LatencyLimit \in Nat /\ PostMax \in Nat
    /\ MaxBackoff \in Nat \ {0}
    /\ Interval \in Nat /\ PostMax < Interval
    /\ MaxQueue \in Nat

LEMMA SameBreaker ==
    /\ Feed!Breakers = Breakers /\ Feed!NewBreaker = NewBreaker
    /\ Feed!Observe(br) = Observe(br) /\ Feed!Cool(br) = Cool(br)
    /\ Feed!RecordSuccess(br) = RecordSuccess(br)
    /\ Feed!RecordFailure(br) = RecordFailure(br)
<1>1. Feed!Breakers = Breakers /\ Feed!NewBreaker = NewBreaker
    BY DEF Breakers, Feed!Breakers, NewBreaker, Feed!NewBreaker
<1>2. Feed!Observe(br) = Observe(br) /\ Feed!Cool(br) = Cool(br)
    BY DEF Observe, Feed!Observe, Cool, Feed!Cool
<1>3. Feed!RecordSuccess(br) = RecordSuccess(br)
    BY DEF RecordSuccess, Feed!RecordSuccess
<1>4. Feed!RecordFailure(br) = RecordFailure(br)
    BY DEF RecordFailure, Feed!RecordFailure, Trip, Feed!Trip
<1> QED
    BY <1>1, <1>2, <1>3, <1>4

LEMMA FeedEvents ==
    ASSUME FeedBounds
    PROVE  /\ \A late \in BOOLEAN :
                  Feed!Ticker(IF late THEN Feed!Oldest ELSE 0, ~late) \in Feed!Events
           /\ \A k \in Feed!Keys, a \in {"up", "down", "FREEZE", "REDUCE_ONLY"} :
                  Feed!Alert(k, a) \in Feed!Events
           /\ \A e \in Feed!Events :
                  /\ Feed!Older(e) \in Feed!Events
                  /\ e.topic = "alert" => e.key \in Feed!Keys
<1>1. Feed!Oldest \in Nat /\ 0 \in 0 .. Feed!Oldest
    BY DEF FeedBounds, Feed!Oldest
<1>2. ASSUME NEW late \in BOOLEAN
      PROVE  Feed!Ticker(IF late THEN Feed!Oldest ELSE 0, ~late) \in Feed!Events
    <2> DEFINE age == IF late THEN Feed!Oldest ELSE 0
    <2>1. age \in 0 .. Feed!Oldest
        BY <1>1
    <2>2. (~late) \in BOOLEAN
        OBVIOUS
    <2> HIDE DEF age
    <2>3. \A a \in 0 .. Feed!Oldest, o \in BOOLEAN : Feed!Ticker(a, o) \in Feed!Events
        BY DEF Feed!Events
    <2>4. Feed!Ticker(age, ~late) \in Feed!Events
        BY <2>1, <2>2, <2>3, Zenon
    <2> QED
        BY <2>4 DEF age
<1>3. ASSUME NEW k \in Feed!Keys, NEW a \in {"up", "down", "FREEZE", "REDUCE_ONLY"}
      PROVE  Feed!Alert(k, a) \in Feed!Events
    BY DEF Feed!Events
<1>4. ASSUME NEW e \in Feed!Events
      PROVE  /\ Feed!Older(e) \in Feed!Events
             /\ e.topic = "alert" => e.key \in Feed!Keys
    <2>1. CASE \E a \in 0 .. Feed!Oldest, o \in BOOLEAN : e = Feed!Ticker(a, o)
        <3>1. PICK a \in 0 .. Feed!Oldest, o \in BOOLEAN : e = Feed!Ticker(a, o)
            BY <2>1
        <3>2. e.topic # "alert" /\ e.topic = "md.ticker" /\ e.age = a
            BY <3>1 DEF Feed!Ticker
        <3>3. CASE a < Feed!Oldest
            <4>1. a + 1 \in 0 .. Feed!Oldest
                BY <1>1, <3>3
            <4>2. Feed!Older(e) = Feed!Ticker(a + 1, o)
                BY <3>1, <3>2, <3>3 DEF Feed!Older, Feed!Ticker
            <4> QED
                BY <3>2, <4>1, <4>2 DEF Feed!Events
        <3>4. CASE ~(a < Feed!Oldest)
            BY <3>2, <3>4 DEF Feed!Older
        <3> QED
            BY <3>3, <3>4
    <2>2. CASE \E k \in Feed!Keys, a \in {"up", "down", "FREEZE", "REDUCE_ONLY"} :
                    e = Feed!Alert(k, a)
        <3>1. PICK k \in Feed!Keys, a \in {"up", "down", "FREEZE", "REDUCE_ONLY"} :
                    e = Feed!Alert(k, a)
            BY <2>2
        <3>2. e.topic = "alert" /\ e.key = k
            BY <3>1 DEF Feed!Alert
        <3> QED
            BY <3>2 DEF Feed!Older
    <2> QED
        BY <2>1, <2>2 DEF Feed!Events
<1> QED
    BY <1>2, <1>3, <1>4

(* The bus of the feed, when its first event is taken off, when one is     *)
(* added and when all of them grow older.                                  *)
LEMMA FeedQueues ==
    ASSUME FeedBounds, NEW q \in Seq(Feed!Events), Len(q) <= MaxQueue
    PROVE  /\ q # <<>> => /\ Head(q) \in Feed!Events
                          /\ Tail(q) \in Seq(Feed!Events) /\ Len(Tail(q)) < MaxQueue
           /\ \A e \in Feed!Events : Len(q) < MaxQueue =>
                  Append(q, e) \in Seq(Feed!Events) /\ Len(Append(q, e)) <= MaxQueue
           /\ /\ [k \in DOMAIN q |-> Feed!Older(q[k])] \in Seq(Feed!Events)
              /\ Len([k \in DOMAIN q |-> Feed!Older(q[k])]) <= MaxQueue
<1>1. Len(q) \in Nat /\ MaxQueue \in Nat /\ DOMAIN q = 1 .. Len(q)
    BY DEF FeedBounds
<1>2. q # <<>> => /\ Head(q) \in Feed!Events
                  /\ Tail(q) \in Seq(Feed!Events) /\ Len(Tail(q)) < MaxQueue
    BY <1>1
<1>3. ASSUME NEW e \in Feed!Events, Len(q) < MaxQueue
      PROVE  Append(q, e) \in Seq(Feed!Events) /\ Len(Append(q, e)) <= MaxQueue
    BY <1>1, <1>3
<1>4. /\ [k \in DOMAIN q |-> Feed!Older(q[k])] \in Seq(Feed!Events)
      /\ Len([k \in DOMAIN q |-> Feed!Older(q[k])]) <= MaxQueue
    <2> DEFINE r == [k \in 1 .. Len(q) |-> Feed!Older(q[k])]
    <2>1. \A k \in 1 .. Len(q) : Feed!Older(q[k]) \in Feed!Events
        BY <1>1, FeedEvents
    <2>2. r \in [1 .. Len(q) -> Feed!Events]
        BY <2>1
    <2>3. r \in Seq(Feed!Events) /\ Len(r) = Len(q)
        BY <1>1, <2>2
    <2> QED
        BY <1>1, <2>3
<1> QED
    BY <1>2, <1>3, <1>4

LEMMA FeedNextType ==
    ASSUME FeedBounds, Feed!TypeOK, [Feed!Next]_(Feed!vars)
    PROVE  Feed!TypeOK'
<1> USE BreakerAssumption DEF BreakerAssumption, FeedBounds
<1> DEFINE Stream == /\ link \in {"dialing", "open", "waiting"}
                     /\ wait \in 0 .. MaxBackoff /\ backoff \in 1 .. MaxBackoff
                     /\ connected \in BOOLEAN
           Bus == queue \in Seq(Feed!Events) /\ Len(queue) <= MaxQueue
           Alarms == post \in 0 .. PostMax + 1 /\ quiet \in [Feed!Keys -> 0 .. Interval]
<1>0. Stream /\ Bus /\ Alarms /\ paused \in BOOLEAN /\ br \in Breakers
    BY SameBreaker DEF Feed!TypeOK
<1>a. SUFFICES Stream' /\ Bus' /\ Alarms' /\ paused' \in BOOLEAN /\ br' \in Breakers
    <2>1. Feed!Breakers = Breakers
        BY SameBreaker
    <2> QED
        BY <2>1 DEF Feed!TypeOK
<1>b. ASSUME NEW e \in Feed!Events, queue' = Append(queue, e), Feed!Room PROVE Bus'
    BY <1>0, <1>b, FeedQueues DEF Feed!Room
<1>c. \A k \in Feed!Keys, a \in {"up", "down", "FREEZE", "REDUCE_ONLY"} :
          Feed!Alert(k, a) \in Feed!Events
    BY FeedEvents
<1>1. CASE Feed!Dialled
    <2>1. Bus'
        BY <1>1, <1>b, <1>c DEF Feed!Dialled, Feed!Keys
    <2> QED
        BY <1>0, <1>1, <2>1 DEF Feed!Dialled
<1>2. CASE Feed!Lost
    <2>1. Bus'
        BY <1>2, <1>b, <1>c DEF Feed!Lost, Feed!Keys
    <2>2. Stream'
        <3>1. /\ link' = "waiting" /\ connected' = FALSE
              /\ wait' = backoff /\ backoff' = backoff
            BY <1>2 DEF Feed!Lost
        <3>2. backoff \in 0 .. MaxBackoff
            BY <1>0
        <3> QED
            BY <1>0, <3>1, <3>2
    <2> QED
        BY <1>0, <1>2, <2>1, <2>2 DEF Feed!Lost
<1>3. CASE Feed!ClosedCleanly
    BY <1>0, <1>3 DEF Feed!ClosedCleanly
<1>4. CASE Feed!Wakes
    <2>1. backoff' \in 1 .. MaxBackoff
        BY <1>0, <1>4 DEF Feed!Wakes, Feed!Doubled
    <2> QED
        BY <1>0, <1>4, <2>1 DEF Feed!Wakes
<1>5. ASSUME NEW late \in BOOLEAN, Feed!Receive(late)
      PROVE  Stream' /\ Bus' /\ Alarms' /\ paused' \in BOOLEAN /\ br' \in Breakers
    <2>1. Bus'
        BY <1>5, <1>b, FeedEvents DEF Feed!Receive
    <2> QED
        BY <1>0, <1>5, <2>1 DEF Feed!Receive
<1>6. CASE Feed!PauseOrResume
    BY <1>0, <1>6 DEF Feed!PauseOrResume, Feed!streamVars
<1>7. CASE Feed!RunCycle
    <2>1. br' \in Breakers
        BY <1>0, <1>7, SameBreaker, BreakerType DEF Feed!RunCycle
    <2> QED
        BY <1>0, <1>7, <2>1 DEF Feed!RunCycle, Feed!streamVars
<1>8. CASE Feed!VarBreach
    <2>1. br' \in Breakers
        BY <1>0, <1>8, SameBreaker, BreakerType DEF Feed!VarBreach
    <2>2. Bus'
        BY <1>8, <1>b, <1>c DEF Feed!VarBreach, Feed!Keys
    <2> QED
        BY <1>0, <1>8, <2>1, <2>2 DEF Feed!VarBreach, Feed!streamVars
<1>9. CASE Feed!ServeTicker
    <2>1. br' = RecordFailure(br) \/ br' = RecordSuccess(br)
        BY <1>9, SameBreaker DEF Feed!ServeTicker
    <2>2. br' \in Breakers
        BY <1>0, <2>1, BreakerType
    <2>3. Tail(queue) \in Seq(Feed!Events) /\ Len(Tail(queue)) < MaxQueue
        BY <1>0, <1>9, FeedQueues DEF Feed!ServeTicker, Feed!Free
    <2>4. CASE queue' = Tail(queue)
        BY <1>0, <1>9, <2>2, <2>3, <2>4 DEF Feed!ServeTicker, Feed!streamVars
    <2>5. CASE queue' = Append(Tail(queue), Feed!Alert("sentinel_freeze", "FREEZE"))
        <3>1. Feed!Alert("sentinel_freeze", "FREEZE") \in Feed!Events
            BY <1>c DEF Feed!Keys
        <3>2. Bus'
            BY <2>3, <2>5, <3>1, FeedQueues
        <3> QED
            BY <1>0, <1>9, <2>2, <3>2 DEF Feed!ServeTicker, Feed!streamVars
    <2> QED
        BY <1>9, <2>4, <2>5 DEF Feed!ServeTicker
<1>10. CASE Feed!ServeAlert
    <2>1. Bus'
        BY <1>0, <1>10, FeedQueues DEF Feed!ServeAlert, Feed!Free
    <2>2. Alarms'
        BY <1>0, <1>10 DEF Feed!ServeAlert, Feed!Stamped
    <2> QED
        BY <1>0, <1>10, <2>1, <2>2 DEF Feed!ServeAlert, Feed!streamVars
<1>11. CASE Feed!PostEnds
    BY <1>0, <1>11 DEF Feed!PostEnds, Feed!streamVars
<1>12. CASE Feed!Tick
    <2>1. br' \in Breakers
        BY <1>0, <1>12, SameBreaker, BreakerType DEF Feed!Tick
    <2>2. Bus'
        BY <1>0, <1>12, FeedQueues DEF Feed!Tick
    <2>3. Alarms' /\ wait' \in 0 .. MaxBackoff
        BY <1>0, <1>12 DEF Feed!Tick
    <2> QED
        BY <1>0, <1>12, <2>1, <2>2, <2>3 DEF Feed!Tick
<1>13. CASE UNCHANGED Feed!vars
    BY <1>0, <1>13 DEF Feed!vars, Feed!streamVars
<1> QED
    BY <1>1, <1>2, <1>3, <1>4, <1>5, <1>6, <1>7, <1>8, <1>9, <1>10, <1>11, <1>12, <1>13
    DEF Feed!Next

(* The types of the feed, in which the bus and the back-off stay within    *)
(* their bounds and the handler never waits longer than a POST takes.      *)
THEOREM FeedTypeCorrect ==
    ASSUME FeedBounds
    PROVE  Feed!Spec => []Feed!TypeOK
<1>1. Feed!Init => Feed!TypeOK
    <2> SUFFICES ASSUME Feed!Init PROVE Feed!TypeOK
        OBVIOUS
    <2>1. br \in Feed!Breakers
        BY SameBreaker, BreakerAssumption
        DEF Feed!Init, NewBreaker, Breakers, BreakerAssumption
    <2>2. quiet \in [Feed!Keys -> 0 .. Interval]
        BY DEF Feed!Init, FeedBounds
    <2>3. queue \in Seq(Feed!Events) /\ Len(queue) <= MaxQueue
        BY DEF Feed!Init, FeedBounds
    <2>4. wait \in 0 .. MaxBackoff /\ backoff \in 1 .. MaxBackoff /\ post \in 0 .. PostMax + 1
        BY DEF Feed!Init, FeedBounds
    <2>5. link = "dialing" /\ connected = FALSE /\ paused = FALSE
        BY DEF Feed!Init
    <2> QED
        BY <2>1, <2>2, <2>3, <2>4, <2>5 DEF Feed!TypeOK
<1>2. Feed!TypeOK /\ [Feed!Next]_(Feed!vars) => Feed!TypeOK'
    BY FeedNextType
<1> QED
    BY <1>1, <1>2, PTL DEF Feed!Spec

-----------------------------------------------------------------------------
(* The trading mode that the breaker alone asks for.                       *)
BreakerMode == ModeOf(br, FALSE, FALSE)

FeedContract ==
    INSTANCE FreezeContract WITH mode <- BreakerMode, left <- BreakerHold(br), operator <- FALSE

LEMMA FeedStepHonours ==
    ASSUME Feed!TypeOK, [Feed!Next]_(Feed!vars)
    PROVE  [FeedContract!Step]_<<BreakerMode, BreakerHold(br), FALSE>>
<1> USE BreakerAssumption DEF BreakerAssumption
<1>1. br \in Breakers
    BY SameBreaker DEF Feed!TypeOK
<1>2. br' \in {br, Observe(br), RecordSuccess(br), RecordFailure(br), Cool(br)}
    BY SameBreaker
    DEF Feed!Next, Feed!Dialled, Feed!Lost, Feed!ClosedCleanly, Feed!Wakes, Feed!Receive,
        Feed!PauseOrResume, Feed!RunCycle, Feed!VarBreach, Feed!ServeTicker,
        Feed!ServeAlert, Feed!PostEnds, Feed!Tick, Feed!vars
<1>3. br' \in Breakers
    BY <1>1, <1>2, BreakerType
<1>4. /\ BreakerHold(br) \in 0 .. Cooldown
      /\ \/ BreakerHold(br') \in {BreakerHold(br), Cooldown}
         \/ BreakerHold(br') = IF BreakerHold(br) > 0 THEN BreakerHold(br) - 1 ELSE 0
    BY <1>1, <1>2, HoldOfMethods
<1>5. /\ BreakerMode = "FROZEN" <=> BreakerHold(br) > 0
      /\ BreakerMode' = "FROZEN" <=> BreakerHold(br') > 0
    BY <1>1, <1>3, FrozenWhen DEF BreakerMode
<1>6. CASE BreakerHold(br') = Cooldown
    BY <1>5, <1>6 DEF FeedContract!Step, FeedContract!Halt
<1>7. CASE BreakerHold(br') = BreakerHold(br)
    <2>1. CASE BreakerHold(br) = 0
        BY <1>5, <1>7, <2>1 DEF FeedContract!Step, FeedContract!Settle, FeedContract!Quiet
    <2>2. CASE BreakerHold(br) # 0
        BY <1>4, <1>5, <1>7, <2>2
    <2> QED
        BY <2>1, <2>2
<1>8. CASE BreakerHold(br) > 0 /\ BreakerHold(br') = BreakerHold(br) - 1
    BY <1>4, <1>5, <1>8 DEF FeedContract!Step, FeedContract!Elapse, FeedContract!Quiet
<1> QED
    BY <1>4, <1>6, <1>7, <1>8

(* A latency freeze is a freeze: however late ticks, pauses, alerts and    *)
(* status cycles follow on it, it serves its whole cooldown. The order flow*)
(* relies on FreezeContract whoever has tripped the breaker.               *)
THEOREM FeedFreezeServed ==
    ASSUME FeedBounds
    PROVE  Feed!Spec => FeedContract!Spec
<1>1. Feed!Init => FeedContract!Start
    <2> SUFFICES ASSUME Feed!Init PROVE FeedContract!Start
        OBVIOUS
    <2>1. br = [raw |-> "CLOSED", fails |-> 0, cool |-> 0]
        BY SameBreaker DEF Feed!Init, NewBreaker
    <2> QED
        BY <2>1 DEF FeedContract!Start, BreakerMode, ModeOf, Observe, BreakerHold
<1>2. Feed!TypeOK /\ [Feed!Next]_(Feed!vars) =>
          [FeedContract!Step]_<<BreakerMode, BreakerHold(br), FALSE>>
    BY FeedStepHonours
<1> QED
    BY <1>1, <1>2, FeedTypeCorrect, PTL DEF Feed!Spec, FeedContract!Spec
-----------------------------------------------------------------------------
(* How long a tick that came on time can wait behind alerts. Every POST    *)
(* that it waits for is of another kind, since the throttle lets the next  *)
(* one of a kind pass only after Interval.                                 *)

(* Time since an alert of this kind was sent, as far as a throttle knows.  *)
Since(throttle, k) == Interval - throttle[k]

(* What a POST may still take.                                             *)
Rest(p) == IF p > 1 THEN p - 1 ELSE 0

(* What an event of this age may have waited for a POST of this kind: the  *)
(* last one was under way or began since the event came.                   *)
Waited(throttle, k, age) == IF Since(throttle, k) < age + PostMax THEN PostMax ELSE 0

WaitedFor(throttle, age) ==
    Waited(throttle, "sentinel_freeze", age) + Waited(throttle, "ws_disconnect", age)
    + Waited(throttle, "ws_reconnect", age)

Patient(e, p, throttle) ==
    e.topic = "md.ticker" /\ e.onTime => e.age + Rest(p) <= WaitedFor(throttle, e.age)

AllPatient(q, p, throttle) == \A j \in DOMAIN q : Patient(q[j], p, throttle)

(* The POST that is under way is the last one of some kind.                *)
Begun(p, throttle) ==
    Rest(p) > 0 => \E k \in Feed!Keys : Since(throttle, k) + Rest(p) <= PostMax

Waiting == Feed!TypeOK /\ AllPatient(queue, post, quiet) /\ Begun(post, quiet)

(* Three POSTs are within the latency limit, and four within the throttle. *)
Brisk == 3 * PostMax <= LatencyLimit /\ 4 * PostMax <= Interval

Throttles == [Feed!Keys -> 0 .. Interval]

LEMMA WaitedType ==
    ASSUME FeedBounds, NEW w \in Throttles
    PROVE  /\ \A k \in Feed!Keys : Since(w, k) \in 0 .. Interval
           /\ \A k \in Feed!Keys, a \in Nat : Waited(w, k, a) \in {0, PostMax}
           /\ \A a \in Nat : WaitedFor(w, a) \in 0 .. 3 * PostMax
<1>1. \A k \in Feed!Keys : Since(w, k) \in 0 .. Interval
    BY DEF FeedBounds, Throttles, Since
<1>2. \A k \in Feed!Keys, a \in Nat : Waited(w, k, a) \in {0, PostMax}
    BY DEF Waited
<1>3. ASSUME NEW a \in Nat PROVE WaitedFor(w, a) \in 0 .. 3 * PostMax
    <2>1. /\ Waited(w, "sentinel_freeze", a) \in {0, PostMax}
          /\ Waited(w, "ws_disconnect", a) \in {0, PostMax}
          /\ Waited(w, "ws_reconnect", a) \in {0, PostMax}
        BY <1>2 DEF Feed!Keys
    <2> QED
        BY <2>1 DEF WaitedFor, FeedBounds
<1> QED
    BY <1>1, <1>2, <1>3

LEMMA FeedEventKinds ==
    ASSUME FeedBounds, NEW e \in Feed!Events
    PROVE  \/ e.topic = "alert" /\ Feed!Older(e) = e
           \/ /\ e.topic = "md.ticker" /\ e.age \in 0 .. Feed!Oldest
              /\ e.age < Feed!Oldest =>
                    /\ Feed!Older(e).topic = "md.ticker"
                    /\ Feed!Older(e).age = e.age + 1
                    /\ Feed!Older(e).onTime = e.onTime
<1>1. CASE \E a \in 0 .. Feed!Oldest, o \in BOOLEAN : e = Feed!Ticker(a, o)
    <2>1. PICK a \in 0 .. Feed!Oldest, o \in BOOLEAN : e = Feed!Ticker(a, o)
        BY <1>1
    <2>2. e.topic = "md.ticker" /\ e.age = a /\ e.onTime = o
        BY <2>1 DEF Feed!Ticker
    <2>3. a < Feed!Oldest => Feed!Older(e) = Feed!Ticker(a + 1, o)
        BY <2>1, <2>2 DEF Feed!Older, Feed!Ticker
    <2>4. /\ Feed!Ticker(a + 1, o).topic = "md.ticker"
          /\ Feed!Ticker(a + 1, o).age = a + 1
          /\ Feed!Ticker(a + 1, o).onTime = o
        BY DEF Feed!Ticker
    <2> QED
        BY <2>2, <2>3, <2>4
<1>2. CASE \E k \in Feed!Keys, a \in {"up", "down", "FREEZE", "REDUCE_ONLY"} :
                e = Feed!Alert(k, a)
    BY <1>2 DEF Feed!Alert, Feed!Older
<1> QED
    BY <1>1, <1>2 DEF Feed!Events

(* An event stays patient when the POST ends, when one begins whose kind   *)
(* the throttle lets pass, and while time passes during one.               *)
LEMMA StaysPatient ==
    ASSUME FeedBounds, Brisk, NEW p \in 0 .. PostMax + 1, NEW w \in Throttles,
           NEW e \in Feed!Events, Patient(e, p, w)
    PROVE  /\ Patient(e, 0, w)
           /\ \A k \in Feed!Keys : p = 0 /\ w[k] = 0 =>
                  Patient(e, PostMax + 1, [w EXCEPT ![k] = Interval])
           /\ p > 1 =>
                  Patient(Feed!Older(e), p - 1,
                          [k \in Feed!Keys |-> IF w[k] > 0 THEN w[k] - 1 ELSE 0])
<1> USE DEF FeedBounds, Brisk
<1>1. CASE ~(e.topic = "md.ticker" /\ e.onTime)
    <2>1. e.topic = "alert" => Feed!Older(e) = e
        BY FeedEventKinds
    <2>2. e.topic # "alert" /\ e.age < Feed!Oldest =>
              Feed!Older(e).topic = "md.ticker" /\ Feed!Older(e).onTime = e.onTime
        BY FeedEventKinds
    <2>3. ~(e.age < Feed!Oldest) => Feed!Older(e) = e
        BY DEF Feed!Older
    <2> QED
        BY <1>1, <2>1, <2>2, <2>3, FeedEventKinds DEF Patient
<1>2. CASE e.topic = "md.ticker" /\ e.onTime
    <2> DEFINE a == e.age
    <2>1. a \in 0 .. Feed!Oldest /\ a \in Nat /\ Feed!Oldest = LatencyLimit + 1
        BY <1>2, FeedEventKinds DEF Feed!Oldest
    <2>2. a + Rest(p) <= WaitedFor(w, a) /\ WaitedFor(w, a) \in 0 .. 3 * PostMax
        BY <1>2, <2>1, WaitedType DEF Patient
    <2>3. Rest(p) \in 0 .. PostMax /\ Rest(0) = 0
        BY DEF Rest
    <2>4. a <= 3 * PostMax /\ a + PostMax <= Interval /\ a < Feed!Oldest
        BY <2>1, <2>2, <2>3
    <2>5. Patient(e, 0, w)
        BY <2>1, <2>2, <2>3, WaitedType DEF Patient
    <2>6. ASSUME NEW k \in Feed!Keys, p = 0, w[k] = 0
          PROVE  Patient(e, PostMax + 1, [w EXCEPT ![k] = Interval])
        <3> DEFINE v == [w EXCEPT ![k] = Interval]
        <3>1. v \in Throttles /\ v[k] = Interval /\ \A l \in Feed!Keys : l # k => v[l] = w[l]
            BY DEF Throttles
        <3>2. Waited(w, k, a) = 0
            BY <2>1, <2>4, <2>6 DEF Waited, Since
        <3>3. Waited(v, k, a) = PostMax
            BY <2>1, <3>1 DEF Waited, Since
        <3>4. \A l \in Feed!Keys : l # k => Waited(v, l, a) = Waited(w, l, a)
            BY <3>1 DEF Waited, Since
        <3>5. \A l \in Feed!Keys : Waited(w, l, a) \in {0, PostMax}
            BY <2>1, WaitedType
        <3> HIDE DEF v
        <3>6. WaitedFor(v, a) = WaitedFor(w, a) + PostMax
            BY <3>2, <3>3, <3>4, <3>5 DEF WaitedFor, Feed!Keys
        <3>7. Rest(PostMax + 1) = PostMax
            BY DEF Rest
        <3> QED
            BY <1>2, <2>1, <2>2, <2>3, <2>6, <3>6, <3>7, WaitedType DEF Patient, v
    <2>7. ASSUME p > 1
          PROVE  Patient(Feed!Older(e), p - 1,
                         [k \in Feed!Keys |-> IF w[k] > 0 THEN w[k] - 1 ELSE 0])
        <3> DEFINE v == [k \in Feed!Keys |-> IF w[k] > 0 THEN w[k] - 1 ELSE 0]
        <3>1. v \in Throttles /\ \A k \in Feed!Keys : Since(v, k) <= Since(w, k) + 1
            BY DEF Throttles, Since
        <3>2. \A k \in Feed!Keys : Since(v, k) \in Int /\ Since(w, k) \in Int
            BY <3>1, WaitedType
        <3> HIDE DEF v
        <3>3. \A k \in Feed!Keys : Waited(w, k, a) <= Waited(v, k, a + 1)
            BY <2>1, <3>1, <3>2 DEF Waited
        <3>4. \A k \in Feed!Keys : Waited(w, k, a) \in Int /\ Waited(v, k, a + 1) \in Int
            BY <2>1, <3>1, WaitedType
        <3>5. WaitedFor(w, a) <= WaitedFor(v, a + 1)
            BY <3>3, <3>4 DEF WaitedFor, Feed!Keys
        <3>6. Rest(p - 1) = Rest(p) - 1
            BY <2>7 DEF Rest
        <3>7. /\ Feed!Older(e).topic = "md.ticker" /\ Feed!Older(e).onTime = e.onTime
              /\ Feed!Older(e).age = a + 1
            BY <1>2, <2>4, FeedEventKinds
        <3>8. WaitedFor(w, a) \in Int /\ WaitedFor(v, a + 1) \in Int
            BY <2>1, <3>1, WaitedType
        <3> QED
            BY <2>1, <2>2, <2>3, <3>5, <3>6, <3>7, <3>8 DEF Patient, v
    <2> QED
        BY <2>5, <2>6, <2>7
<1> QED
    BY <1>1, <1>2

(* A bus of patient events, when one comes or goes.                        *)
LEMMA BusPatient ==
    ASSUME NEW q \in Seq(Feed!Events), NEW p, NEW w, AllPatient(q, p, w)
    PROVE  /\ q # <<>> => AllPatient(Tail(q), p, w)
           /\ \A e \in Feed!Events : Patient(e, p, w) => AllPatient(Append(q, e), p, w)
<1>1. Len(q) \in Nat /\ DOMAIN q = 1 .. Len(q)
    OBVIOUS
<1>2. ASSUME q # <<>> PROVE AllPatient(Tail(q), p, w)
    <2>1. \A j \in DOMAIN Tail(q) : j + 1 \in DOMAIN q /\ Tail(q)[j] = q[j + 1]
        BY <1>1, <1>2
    <2> QED
        BY <2>1 DEF AllPatient
<1>3. ASSUME NEW e \in Feed!Events, Patient(e, p, w)
      PROVE  AllPatient(Append(q, e), p, w)
    <2>1. \A j \in DOMAIN Append(q, e) :
              (j \in DOMAIN q /\ Append(q, e)[j] = q[j]) \/ Append(q, e)[j] = e
        BY <1>1
    <2> QED
        BY <1>3, <2>1 DEF AllPatient
<1> QED
    BY <1>2, <1>3

LEMMA FeedStepPatient ==
    ASSUME FeedBounds, Brisk, Waiting, [Feed!Next]_(Feed!vars)
    PROVE  AllPatient(queue, post, quiet)' /\ Begun(post, quiet)'
<1> DEFINE Good == AllPatient(queue, post, quiet) /\ Begun(post, quiet)
<1>0. /\ queue \in Seq(Feed!Events) /\ post \in 0 .. PostMax + 1 /\ quiet \in Throttles
      /\ AllPatient(queue, post, quiet) /\ Begun(post, quiet)
      /\ PostMax \in Nat /\ Interval \in Nat
    BY DEF Waiting, Feed!TypeOK, Throttles, FeedBounds
<1>a. ASSUME UNCHANGED <<queue, post, quiet>> PROVE Good'
    BY <1>0, <1>a
<1>b. ASSUME UNCHANGED <<post, quiet>>,
             NEW k \in Feed!Keys, NEW a \in {"up", "down", "FREEZE", "REDUCE_ONLY"},
             NEW q \in {queue, Tail(queue)}, q = queue \/ queue # <<>>,
             queue' = Append(q, Feed!Alert(k, a))
      PROVE  Good'
    <2>1. q \in Seq(Feed!Events) /\ AllPatient(q, post, quiet)
        <3>1. CASE q = queue
            BY <1>0, <3>1
        <3>2. CASE q # queue
            <4>1. q = Tail(queue) /\ queue # <<>>
                BY <1>b, <3>2
            <4>2. Tail(queue) \in Seq(Feed!Events) /\ AllPatient(Tail(queue), post, quiet)
                BY <1>0, <4>1, BusPatient
            <4> QED
                BY <4>1, <4>2
        <3> QED
            BY <3>1, <3>2
    <2>2. Feed!Alert(k, a) \in Feed!Events /\ Patient(Feed!Alert(k, a), post, quiet)
        BY FeedEvents DEF Patient, Feed!Alert
    <2>3. AllPatient(Append(q, Feed!Alert(k, a)), post, quiet)
        BY <2>1, <2>2, BusPatient
    <2> QED
        BY <1>0, <1>b, <2>3
<1>c. ASSUME UNCHANGED <<post, quiet>>, queue # <<>>, queue' = Tail(queue) PROVE Good'
    BY <1>0, <1>c, BusPatient
<1>1. CASE Feed!Dialled
    BY <1>1, <1>b DEF Feed!Dialled, Feed!Keys
<1>2. CASE Feed!Lost
    BY <1>2, <1>b DEF Feed!Lost, Feed!Keys
<1>3. ASSUME NEW late \in BOOLEAN, Feed!Receive(late) PROVE Good'
    <2> DEFINE e == Feed!Ticker(IF late THEN Feed!Oldest ELSE 0, ~late)
    <2>1. /\ e \in Feed!Events
          /\ e.age = (IF late THEN Feed!Oldest ELSE 0) /\ e.onTime = ~late
        BY FeedEvents DEF Feed!Ticker
    <2>2. Rest(post) <= WaitedFor(quiet, 0)
        <3>1. CASE Rest(post) > 0
            <4>1. PICK k \in Feed!Keys : Since(quiet, k) + Rest(post) <= PostMax
                BY <1>0, <3>1 DEF Begun
            <4>2. Since(quiet, k) \in 0 .. Interval /\ Rest(post) \in 0 .. PostMax
                BY <1>0, WaitedType DEF Rest
            <4>3. Waited(quiet, k, 0) = PostMax
                BY <1>0, <3>1, <4>1, <4>2 DEF Waited
            <4>4. \A l \in Feed!Keys : Waited(quiet, l, 0) \in {0, PostMax}
                BY <1>0, WaitedType
            <4>5. WaitedFor(quiet, 0) >= PostMax
                BY <1>0, <4>3, <4>4 DEF WaitedFor, Feed!Keys
            <4>6. WaitedFor(quiet, 0) \in Int
                BY <1>0, WaitedType
            <4> QED
                BY <1>0, <4>2, <4>5, <4>6
        <3>2. CASE ~(Rest(post) > 0)
            <4>1. WaitedFor(quiet, 0) \in 0 .. 3 * PostMax /\ Rest(post) \in 0 .. PostMax
                BY <1>0, WaitedType DEF Rest
            <4> QED
                BY <1>0, <3>2, <4>1
        <3> QED
            BY <3>1, <3>2
    <2>3. Patient(e, post, quiet)
        <3>1. CASE late
            BY <2>1, <3>1 DEF Patient
        <3>2. CASE ~late
            <4>1. e.age = 0 /\ 0 + Rest(post) = Rest(post)
                BY <1>0, <2>1, <3>2 DEF Rest
            <4> QED
                BY <2>2, <4>1 DEF Patient
        <3> QED
            BY <3>1, <3>2
    <2>4. queue' = Append(queue, e) /\ UNCHANGED <<post, quiet>>
        BY <1>3 DEF Feed!Receive
    <2> HIDE DEF e
    <2>5. AllPatient(Append(queue, e), post, quiet)
        BY <1>0, <2>1, <2>3, BusPatient
    <2> QED
        BY <1>0, <2>4, <2>5
<1>4. CASE Feed!VarBreach
    BY <1>4, <1>b DEF Feed!VarBreach, Feed!Keys
<1>5. CASE Feed!ServeTicker
    <2>1. CASE queue' = Tail(queue)
        BY <1>5, <2>1, <1>c DEF Feed!ServeTicker, Feed!Free
    <2>2. CASE queue' = Append(Tail(queue), Feed!Alert("sentinel_freeze", "FREEZE"))
        BY <1>5, <2>2, <1>b DEF Feed!ServeTicker, Feed!Free, Feed!Keys
    <2> QED
        BY <1>5, <2>1, <2>2 DEF Feed!ServeTicker
<1>6. CASE Feed!ServeAlert
    <2>1. queue # <<>> /\ post = 0 /\ queue' = Tail(queue)
        BY <1>6 DEF Feed!ServeAlert, Feed!Free
    <2>2. CASE UNCHANGED <<post, quiet>>
        BY <2>1, <2>2, <1>c
    <2>3. CASE ~ UNCHANGED <<post, quiet>>
        <3> DEFINE k == Head(queue).key
        <3>1. Head(queue) \in Feed!Events /\ Head(queue).topic = "alert"
            BY <1>0, <1>6, <2>1 DEF Feed!ServeAlert
        <3>2. k \in Feed!Keys
            BY <3>1, FeedEvents
        <3>3. ~(quiet[k] > 0) /\ post' = PostMax + 1 /\ quiet' = [quiet EXCEPT ![k] = Interval]
            BY <1>6, <2>3 DEF Feed!ServeAlert, Feed!Stamped
        <3> HIDE DEF k
        <3>4. quiet[k] = 0
            BY <1>0, <3>2, <3>3 DEF Throttles
        <3>5. Tail(queue) \in Seq(Feed!Events) /\ AllPatient(Tail(queue), post, quiet)
            BY <1>0, <2>1, BusPatient
        <3>6. \A e \in Feed!Events : Patient(e, post, quiet) => Patient(e, post', quiet')
            BY <1>0, <2>1, <3>2, <3>3, <3>4, StaysPatient
        <3>7. AllPatient(Tail(queue), post', quiet')
            BY <3>5, <3>6 DEF AllPatient
        <3>8. Begun(post', quiet')
            <4>1. Since(quiet', k) = 0
                BY <1>0, <3>2, <3>3 DEF Since, Throttles
            <4>2. Rest(post') = PostMax
                BY <1>0, <3>3 DEF Rest
            <4> QED
                BY <1>0, <3>2, <4>1, <4>2 DEF Begun
        <3> QED
            BY <2>1, <3>7, <3>8
    <2> QED
        BY <2>2, <2>3
<1>7. CASE Feed!PostEnds
    <2>1. post' = 0 /\ UNCHANGED <<queue, quiet>>
        BY <1>7 DEF Feed!PostEnds
    <2>2. \A e \in Feed!Events : Patient(e, post, quiet) => Patient(e, 0, quiet)
        BY <1>0, StaysPatient
    <2>3. AllPatient(queue, 0, quiet)
        BY <1>0, <2>2 DEF AllPatient
    <2>4. Begun(0, quiet)
        BY DEF Begun, Rest
    <2> QED
        BY <2>1, <2>3, <2>4
<1>8. CASE Feed!Tick
    <2> DEFINE w == [k \in Feed!Keys |-> IF quiet[k] > 0 THEN quiet[k] - 1 ELSE 0]
    <2>1. /\ quiet' = w /\ queue' = [j \in DOMAIN queue |-> Feed!Older(queue[j])]
          /\ post' = IF post > 0 THEN post - 1 ELSE 0
          /\ post > 1 \/ (post = 0 /\ queue = <<>>)
        BY <1>8 DEF Feed!Tick
    <2>2. w \in Throttles /\ \A k \in Feed!Keys : Since(w, k) <= Since(quiet, k) + 1
        BY <1>0 DEF Throttles, Since
    <2>3. CASE post > 1
        <3>1. post' = post - 1
            BY <1>0, <2>1, <2>3
        <3>2. \A e \in Feed!Events :
                  Patient(e, post, quiet) => Patient(Feed!Older(e), post - 1, w)
            BY <1>0, <2>3, StaysPatient
        <3>3. AllPatient(queue', post - 1, w)
            BY <1>0, <2>1, <3>2 DEF AllPatient
        <3>4. Begun(post - 1, w)
            <4>1. Rest(post) > 0 /\ Rest(post - 1) = Rest(post) - 1 /\ Rest(post) \in Int
                BY <1>0, <2>3 DEF Rest
            <4>2. PICK k \in Feed!Keys : Since(quiet, k) + Rest(post) <= PostMax
                BY <1>0, <4>1 DEF Begun
            <4>3. Since(w, k) + Rest(post - 1) <= PostMax
                <5>1. Since(w, k) \in Int /\ Since(quiet, k) \in Int
                    BY <1>0, <2>2, WaitedType
                <5> HIDE DEF w
                <5> QED
                    BY <1>0, <2>2, <4>1, <4>2, <5>1
            <4> QED
                BY <4>3 DEF Begun
        <3> HIDE DEF w
        <3> QED
            BY <2>1, <3>1, <3>3, <3>4
    <2>4. CASE post = 0 /\ queue = <<>>
        <3>1. DOMAIN queue' = {} /\ post' = 0
            BY <2>1, <2>4
        <3> QED
            BY <3>1 DEF AllPatient, Begun, Rest
    <2> QED
        BY <2>1, <2>3, <2>4
<1>9. CASE Feed!ClosedCleanly \/ Feed!Wakes \/ Feed!PauseOrResume \/ Feed!RunCycle
           \/ UNCHANGED Feed!vars
    <2>1. UNCHANGED <<queue, post, quiet>>
        BY <1>9 DEF Feed!ClosedCleanly, Feed!Wakes, Feed!PauseOrResume, Feed!RunCycle,
                    Feed!vars
    <2> QED
        BY <1>a, <2>1
<1> QED
    BY <1>1, <1>2, <1>3, <1>4, <1>5, <1>6, <1>7, <1>8, <1>9 DEF Feed!Next

(* The handlers of alerts.py await their POSTs on the bus. A tick that came*)
(* on time never waits for more than one POST of each of the three kinds,  *)
(* whatever links, pauses and breaches alternate: if three fit in the      *)
(* latency limit, and four in the throttle's interval, it is never late.   *)
(* The interval of the code is long enough (60 s for POSTs of at most 10 s,*)
(* alerts.py 86-88); its latency limit of 300 ms (manager.py 79) asks for  *)
(* POSTs of 100 ms.                                                        *)
THEOREM HotPathWaitIsBounded ==
    ASSUME FeedBounds, Brisk
    PROVE  Feed!Spec => []Feed!HotPathNeverWaits
<1>1. Feed!Init => AllPatient(queue, post, quiet) /\ Begun(post, quiet)
    BY DEF Feed!Init, AllPatient, Begun, Rest
<1>2. /\ Feed!TypeOK /\ AllPatient(queue, post, quiet) /\ Begun(post, quiet)
      /\ [Feed!Next]_(Feed!vars)
      => AllPatient(queue, post, quiet)' /\ Begun(post, quiet)'
    BY FeedStepPatient DEF Waiting
<1>3. Feed!TypeOK /\ AllPatient(queue, post, quiet) => Feed!HotPathNeverWaits
    <2> SUFFICES ASSUME Feed!TypeOK, AllPatient(queue, post, quiet), NEW j \in DOMAIN queue,
                        queue[j].topic = "md.ticker", queue[j].onTime
                 PROVE  queue[j].age <= LatencyLimit
        BY DEF Feed!HotPathNeverWaits
    <2>1. queue[j] \in Feed!Events /\ quiet \in Throttles /\ post \in 0 .. PostMax + 1
        BY DEF Feed!TypeOK, Throttles
    <2>2. queue[j].age \in 0 .. Feed!Oldest
        BY <2>1, FeedEventKinds
    <2>3. queue[j].age + Rest(post) <= WaitedFor(quiet, queue[j].age)
        BY DEF AllPatient, Patient
    <2>4. queue[j].age \in Nat
        BY <2>2
    <2>5. WaitedFor(quiet, queue[j].age) \in 0 .. 3 * PostMax /\ Rest(post) \in 0 .. PostMax
        BY <2>1, <2>4, WaitedType DEF Rest, FeedBounds
    <2> QED
        BY <2>3, <2>4, <2>5 DEF FeedBounds, Brisk
<1> QED
    BY <1>1, <1>2, <1>3, FeedTypeCorrect, PTL DEF Feed!Spec
=============================================================================
